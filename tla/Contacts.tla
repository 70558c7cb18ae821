------------------------------ MODULE Contacts -------------------------------
(***************************************************************************)
(* Who is who: the contact records of nodesignald.js, the keys pinned to    *)
(* them on first use, and the links that carry a peer's messages into a     *)
(* record.  A peer is its key; it may call from an address, or through Tor, *)
(* where every call comes from loopback.  A record is filed under an        *)
(* address, or under a placeholder made of the key.  Handshake and hello    *)
(* are two steps, and so are the start and the end of a dial: records may   *)
(* be removed, moved and made again in between.  A message is the key that  *)
(* wrote it and an id; texts, nicknames and claimed addresses are left out, *)
(* and so are the operator's own messages (module Delivery).                *)
(***************************************************************************)
EXTENDS Naturals, FiniteSets, Sequences, SequencesExt

CONSTANTS
  Addrs,            \* addresses peers call from and the operator writes to
  Fps,              \* peers' keys
  Ids,              \* message ids of each peer
  Links,            \* names for the links up at one moment
  MaxStrangers,     \* MAX_STRANGERS
  MaxAuto,          \* MAX_AUTO
  StrangerMsgs,     \* STRANGER_MSGS
  HistoryCap,       \* messages kept for any other contact
  MaxDials,         \* bound: dials under way at once
  MaxMoves,         \* bound: what the operator does
  None, Loopback

VARIABLES
  contact,          \* state.contacts
  link,             \* sessions, from the handshake on
  bound,            \* links: the link of each contact
  dial,             \* dialing, and whether the record it is for is still listed
  naming,           \* addresses with a :8333 handshake under way (identifyContact)
  moves             \* what the operator did so far

vars == <<contact, link, bound, dial, naming, moves>>

Placeholders == {"tor", "mbox", "peer"} \X Fps
Hosts    == Addrs \cup Placeholders
Messages == Fps \X Ids
Record   == [fp      : Fps \cup {None},        \* peerFp
             pending : Fps \cup {None},        \* pendingFp
             prev    : SUBSET Fps,             \* prevFps
             who     : {"chosen", "stranger", "auto"},
             msgs    : Seq(Messages)]
Session  == [up     : {"free", "open", "closing"},
             addr   : Addrs \cup {Loopback, None},
             fp     : Fps \cup {None},         \* the key its handshake proved
             host   : Hosts \cup {None},       \* link.contact
             listed : BOOLEAN]                 \* ... which is still in state.contacts
NoSession == [up |-> "free", addr |-> None, fp |-> None, host |-> None, listed |-> FALSE]

ASSUME LimitsAssumption ==
  {MaxStrangers, MaxAuto, MaxDials, MaxMoves, StrangerMsgs, HistoryCap} \subseteq Nat
ASSUME CapAssumption  == 0 < StrangerMsgs /\ StrangerMsgs <= HistoryCap
ASSUME NoneAssumption ==
  None \notin Fps \cup Addrs \cup Links \cup Placeholders /\ None \notin Record /\ Loopback \notin Addrs

TypeOK ==
  /\ contact \in [Hosts -> Record \cup {None}]
  /\ link \in [Links -> Session]
  /\ bound \in [Hosts -> Links \cup {None}]
  /\ dial \in [Hosts -> {"no", "listed", "removed"}]
  /\ naming \subseteq Addrs
  /\ moves \in 0..MaxMoves

Init ==
  /\ contact = [h \in Hosts |-> None]
  /\ link = [l \in Links |-> NoSession]
  /\ bound = [h \in Hosts |-> None]
  /\ dial = [h \in Hosts |-> "no"]
  /\ naming = {} /\ moves = 0

-----------------------------------------------------------------------------
(* Records.                                                                *)

New(who, fp) == [fp |-> fp, pending |-> None, prev |-> {}, who |-> who, msgs |-> <<>>]
KeyAt(h)     == IF contact[h] = None THEN None ELSE contact[h].fp
Listed(who)  == {h \in Hosts : contact[h] # None /\ contact[h].who = who}

\* contactByKey: a record at a real address wins over a placeholder.
WithKey(fp) == {h \in Hosts : KeyAt(h) = fp}
ByKey(fp)   == IF WithKey(fp) \cap Addrs # {} THEN WithKey(fp) \cap Addrs ELSE WithKey(fp)

\* contactFor: the record at the address a peer calls from, or its key's.
ContactFor(addr, fp) ==
  IF addr # Loopback /\ contact[addr] # None THEN {addr} ELSE ByKey(fp)

\* tofuCheck and tofuRecord.
TofuOk_FirstOnly(r, fp) == r.fp = None \/ r.who # "stranger"       \* mutant
TofuOk(r, fp)  == r.fp = None \/ r.fp = fp
Doubted(r, fp) == [r EXCEPT !.pending = fp]
Pinned(r, fp)  == IF r.fp = None THEN [r EXCEPT !.fp = fp] ELSE r

\* newStranger: only while there is room, and never over another record.
RoomForStranger_Any(h) == contact[h] = None                        \* mutant
RoomForStranger(h) == Cardinality(Listed("stranger")) < MaxStrangers /\ contact[h] = None

\* pushMsg: the oldest fall out past the cap.
Push(r, m) ==
  LET cap  == IF r.who = "stranger" THEN StrangerMsgs ELSE HistoryCap
      all  == Append(r.msgs, m)
  IN  [r EXCEPT !.msgs = SubSeq(all, IF Len(all) > cap THEN Len(all) - cap + 1 ELSE 1, Len(all))]
Stores(r, m) == IF m \in ToSet(r.msgs) THEN r ELSE Push(r, m)

\* bindLink: the contact's link is l unless it has an open one.
Bind(l, h) ==
  bound' = [bound EXCEPT ![h] = IF @ = None THEN l ELSE IF link[@].up = "closing" THEN l ELSE @]

\* rekeyContact: a placeholder's record moves to an address, with its links.
CanRekey(p, addr) == contact[addr] = None /\ dial[p] = "no"
Rekey(p, addr) ==
  /\ link' = [l \in Links |-> IF link[l].host = p /\ link[l].listed
                              THEN [link[l] EXCEPT !.host = addr] ELSE link[l]]
  /\ bound' = [bound EXCEPT ![p] = None, ![addr] = IF @ = None THEN bound[p] ELSE @]

\* connectTo: no dial while a link is on record or another dial is under way.
CanDial(h) == bound[h] = None /\ Cardinality({k \in Hosts : dial[k] # "no"}) < MaxDials
Dialling(h) == [dial EXCEPT ![h] = IF @ = "no" /\ CanDial(h) THEN "listed" ELSE @]

-----------------------------------------------------------------------------
(* Peers that call.                                                        *)

\* serveSecure: the handshake has proved fp.  A known contact is bound now, an
\* unknown one only when its hello comes; a wrong key is refused and kept for
\* the operator to review.
Calls(l, addr, fp) ==
  LET session(h) == [up |-> "open", addr |-> addr, fp |-> fp, host |-> h, listed |-> h # None] IN
  /\ link[l].up = "free"
  /\ \/ /\ ContactFor(addr, fp) = {}
        /\ link' = [link EXCEPT ![l] = session(None)]
        /\ UNCHANGED <<contact, bound>>
     \/ \E h \in ContactFor(addr, fp) :
          IF TofuOk(contact[h], fp)
          THEN /\ contact' = [contact EXCEPT ![h] = Pinned(@, fp)]
               /\ link' = [link EXCEPT ![l] = session(h)]
               /\ Bind(l, h)
          ELSE /\ contact' = [contact EXCEPT ![h] = Doubted(@, fp)]
               /\ UNCHANGED <<link, bound>>
  /\ UNCHANGED <<dial, naming, moves>>

\* The hello of a stranger (or, from an old peer, its first message) makes its
\* record, under the address it called from or its key; its node is looked up.
Hello(l) ==
  LET h == IF link[l].addr = Loopback THEN <<"tor", link[l].fp>> ELSE link[l].addr IN
  /\ link[l].up # "free" /\ link[l].host = None
  /\ IF RoomForStranger(h)
     THEN /\ contact' = [contact EXCEPT ![h] = New("stranger", link[l].fp)]
          /\ link' = [link EXCEPT ![l].host = h, ![l].listed = TRUE]
          /\ Bind(l, h)
          /\ naming' \in {naming, naming \cup ({h} \cap Addrs)}
     ELSE /\ link' = [link EXCEPT ![l] = NoSession]
          /\ UNCHANGED <<contact, bound, naming>>
  /\ UNCHANGED <<dial, moves>>

\* A message: filed in the link's record unless its id is there, and
\* acknowledged, also when the record was removed and nobody lists it.
MsgIn(l, id) ==
  LET m == <<link[l].fp, id>> IN
  /\ link[l].up # "free" /\ link[l].host # None
  /\ contact' = IF link[l].listed THEN [contact EXCEPT ![link[l].host] = Stores(@, m)] ELSE contact
  /\ UNCHANGED <<link, bound, dial, naming, moves>>

\* The same from a mailbox (onMailboxItem): filed by key alone.  A receipt
\* makes a record too, and no message.
MailIn(fp, id) ==
  LET m == <<fp, id>>
      h == <<"mbox", fp>>
  IN
  /\ \/ \E k \in ByKey(fp) : contact' = [contact EXCEPT ![k] = Stores(@, m)]
     \/ /\ ByKey(fp) = {} /\ RoomForStranger(h)
        /\ \E r \in {New("stranger", fp), Stores(New("stranger", fp), m)} :
             contact' = [contact EXCEPT ![h] = r]
  /\ UNCHANGED <<link, bound, dial, naming, moves>>

LinkCloses(l) ==
  /\ link[l].up = "open"
  /\ link' = [link EXCEPT ![l].up = "closing"]
  /\ UNCHANGED <<contact, bound, dial, naming, moves>>

\* The close event: the link leaves links if it is still filed under its record's host.
SockClosed(l) ==
  LET h == link[l].host IN
  /\ link[l].up # "free"
  /\ link' = [link EXCEPT ![l] = NoSession]
  /\ bound' = IF h # None /\ bound[h] = l THEN [bound EXCEPT ![h] = None] ELSE bound
  /\ UNCHANGED <<contact, dial, naming, moves>>

-----------------------------------------------------------------------------
(* Dialling.                                                               *)

\* connectTo, for a message, a retry, a check-in or work that waits.
DialStarts(h) ==
  /\ contact[h] # None /\ dial[h] = "no" /\ CanDial(h)
  /\ dial' = Dialling(h)
  /\ UNCHANGED <<contact, link, bound, naming, moves>>

\* attemptDial: fp answers.  A second address, the only one of a placeholder,
\* must answer with the pinned key; at the record's own address another key is
\* refused and kept for review.  The record may have been removed meanwhile.
DialAnswered(h, l, fp) ==
  LET session == [up |-> "open", addr |-> None, fp |-> fp, host |-> h, listed |-> dial[h] = "listed"] IN
  /\ dial[h] # "no" /\ link[l].up = "free"
  /\ dial' = [dial EXCEPT ![h] = "no"]
  /\ IF dial[h] = "listed"
     THEN \/ /\ TofuOk(contact[h], fp)
             /\ contact' = [contact EXCEPT ![h] = Pinned(@, fp)]
             /\ link' = [link EXCEPT ![l] = session]
             /\ Bind(l, h)
          \/ /\ ~TofuOk(contact[h], fp) /\ h \in Addrs
             /\ contact' = [contact EXCEPT ![h] = Doubted(@, fp)]
             /\ UNCHANGED <<link, bound>>
     ELSE /\ link' = [link EXCEPT ![l] = session]
          /\ Bind(l, h)
          /\ UNCHANGED contact
  /\ UNCHANGED <<naming, moves>>

DialFails(h) ==
  /\ dial[h] # "no"
  /\ dial' = [dial EXCEPT ![h] = "no"]
  /\ UNCHANGED <<contact, link, bound, naming, moves>>

-----------------------------------------------------------------------------
(* What NodeSignal files by itself.                                        *)

\* ensureContact for a room member or a mailbox someone named: under its key only.
Introduced(fp) ==
  LET h == <<"peer", fp>> IN
  /\ ByKey(fp) = {} /\ contact[h] = None
  /\ Cardinality(Listed("auto")) < MaxAuto
  /\ contact' = [contact EXCEPT ![h] = New("auto", fp)]
  /\ UNCHANGED <<link, bound, dial, naming, moves>>

\* identifyContact is back from :8333: contact(host, true), whoever is there now.
Identified(a) ==
  /\ a \in naming
  /\ naming' = naming \ {a}
  /\ contact' = IF contact[a] = None THEN [contact EXCEPT ![a] = New("chosen", None)] ELSE contact
  /\ UNCHANGED <<link, bound, dial, moves>>

IdentifyFails(a) ==
  /\ a \in naming
  /\ naming' = naming \ {a}
  /\ UNCHANGED <<contact, link, bound, dial, moves>>

-----------------------------------------------------------------------------
(* The operator.                                                           *)

Chosen(r) == [r EXCEPT !.who = "chosen"]

\* contact.add of an address, or of a contact link: address and key.  What is
\* filed under a placeholder for that key moves to the address.
Adds(addr, fp) ==
  LET moving == {p \in Placeholders : fp # None /\ p \in WithKey(fp) /\ CanRekey(p, addr)}
      here   == contact[addr]
  IN
  /\ here # None /\ fp # None => TofuOk(here, fp)
  /\ \/ \E p \in moving :
          /\ contact' = [contact EXCEPT ![p] = None, ![addr] = Chosen(contact[p])]
          /\ Rekey(p, addr)
     \/ /\ moving = {}
        /\ contact' = [contact EXCEPT
             ![addr] = Chosen(IF here = None THEN New("chosen", fp)
                              ELSE IF fp # None THEN Pinned(here, fp) ELSE here)]
        /\ UNCHANGED <<link, bound>>
  /\ naming' = naming \cup {addr}
  /\ UNCHANGED dial

\* chat.send: whoever the operator writes to is a contact, and is dialled
\* unless a link is up.
Writes(h) ==
  /\ contact[h] # None \/ h \in Addrs
  /\ contact' = [contact EXCEPT ![h] = IF @ = None THEN New("chosen", None) ELSE Chosen(@)]
  /\ dial' = Dialling(h)
  /\ naming' = IF contact[h] = None THEN naming \cup {h} ELSE naming
  /\ UNCHANGED <<link, bound>>

\* ensureContact with operator set: the record fp has, moved to the address if
\* it can be, or one made there, if nobody else is pinned there.  A record that
\* counted as one of whose is the operator's choice from then on.
Promoted(r, whose) == IF r.who \in whose THEN Chosen(r) ELSE r
Ensures(addr, fp, h, whose) ==
  \/ \E p \in ByKey(fp) \cap Placeholders :
       /\ CanRekey(p, addr) /\ h = addr
       /\ contact' = [contact EXCEPT ![p] = None, ![addr] = Promoted(contact[p], whose)]
       /\ Rekey(p, addr)
  \/ /\ h \in ByKey(fp) /\ (h \in Addrs \/ ~CanRekey(h, addr))
     /\ contact' = [contact EXCEPT ![h] = Promoted(@, whose)]
     /\ UNCHANGED <<link, bound>>
  \/ /\ ByKey(fp) = {} /\ h = addr /\ KeyAt(addr) = None
     /\ contact' = [contact EXCEPT ![addr] = IF @ = None THEN New("chosen", fp) ELSE Chosen(Pinned(@, fp))]
     /\ UNCHANGED <<link, bound>>

\* intro.add: an introduction is accepted.
Accepts(addr, fp) ==
  \E h \in Hosts :
    /\ Ensures(addr, fp, h, {"stranger", "auto", "chosen"})
    /\ naming' = naming \cup ({h} \cap Addrs)
    /\ UNCHANGED dial

\* room.join: the inviter's record moves, a stranger stays one; it is dialled.
Joins(addr, fp) ==
  \E h \in Hosts :
    /\ Ensures(addr, fp, h, IF h = addr THEN {"auto"} ELSE {})
    /\ dial' = IF bound'[h] = None THEN Dialling(h) ELSE dial
    /\ UNCHANGED naming

\* contact.acceptKey: the key that was shown is pinned.  The retryTick it ends
\* in is DialStarts.
AcceptsKey_Unchecked(h) ==                                         \* mutant
  /\ contact[h] # None
  /\ contact' = [contact EXCEPT ![h].fp = contact[h].pending, ![h].pending = None,
                                ![h].prev = @ \cup {contact[h].fp}]
  /\ UNCHANGED <<link, bound, dial, naming>>
AcceptsKey(h) ==
  /\ contact[h] # None /\ contact[h].pending # None
  /\ contact' = [contact EXCEPT ![h].fp = contact[h].pending, ![h].pending = None,
                                ![h].prev = @ \cup {contact[h].fp}]
  /\ UNCHANGED <<link, bound, dial, naming>>

DismissesKey(h) ==
  /\ contact[h] # None /\ contact[h].pending # None
  /\ contact' = [contact EXCEPT ![h].pending = None]
  /\ UNCHANGED <<link, bound, dial, naming>>

\* contact.remove: the record goes; its links, and a dial for it, do not.
Removes(h) ==
  /\ contact[h] # None
  /\ contact' = [contact EXCEPT ![h] = None]
  /\ link' = [l \in Links |-> IF link[l].host = h THEN [link[l] EXCEPT !.listed = FALSE] ELSE link[l]]
  /\ dial' = [dial EXCEPT ![h] = IF @ = "listed" THEN "removed" ELSE @]
  /\ UNCHANGED <<bound, naming>>

-----------------------------------------------------------------------------
Peers    == \/ \E l \in Links, fp \in Fps : \E a \in Addrs \cup {Loopback} : Calls(l, a, fp)
            \/ \E l \in Links : \/ Hello(l) \/ LinkCloses(l) \/ SockClosed(l)
                                \/ \E id \in Ids : MsgIn(l, id)
            \/ \E fp \in Fps, id \in Ids : MailIn(fp, id)
Dials    == \E h \in Hosts : \/ DialStarts(h) \/ DialFails(h)
                             \/ \E l \in Links, fp \in Fps : DialAnswered(h, l, fp)
Filing   == \/ \E fp \in Fps : Introduced(fp)
            \/ \E a \in Addrs : Identified(a) \/ IdentifyFails(a)
Operator == /\ moves < MaxMoves /\ moves' = moves + 1
            /\ \/ \E a \in Addrs : \/ \E fp \in Fps \cup {None} : Adds(a, fp)
                                   \/ \E fp \in Fps : Accepts(a, fp) \/ Joins(a, fp)
               \/ \E h \in Hosts : Writes(h) \/ AcceptsKey(h) \/ DismissesKey(h) \/ Removes(h)

Next == Peers \/ Dials \/ Filing \/ Operator

Spec == Init /\ [][Next]_vars

-----------------------------------------------------------------------------

\* A conversation holds only what its pinned key wrote, or a key pinned there
\* before: whatever is removed, moved or dialled while a link is up, nobody's
\* words are filed under another contact.
FiledUnderKey ==
  \A h \in Hosts : contact[h] # None =>
    \A m \in ToSet(contact[h].msgs) : m[1] \in {contact[h].fp} \cup contact[h].prev

\* "a later mismatch is REJECTED and held as pendingFp until the operator
\* deliberately accepts": the key of a listed record changes only to one the
\* operator was shown.
PinHolds ==
  [][\A h \in Hosts :
       contact[h] # None /\ contact'[h] # None /\ contact[h].fp # None =>
         contact'[h].fp \in {contact[h].fp, contact[h].pending}]_vars

\* Nobody's words are taken for another's, on either way to it.
KeysHold == [][FiledUnderKey']_vars /\ PinHolds

\* Whoever calls, under however many keys, from wherever: strangers stay on
\* their budget of records and of messages in each, also while records are
\* moved, removed and looked up.
StrangersOnBudget ==
  /\ Cardinality(Listed("stranger")) <= MaxStrangers
  /\ \A h \in Listed("stranger") : Len(contact[h].msgs) <= StrangerMsgs

\* "Move a record to another key, with the link ... that go with it"
\* (rekeyContact): no contact is left with a link whose socket is gone, which
\* would stop every later dial to it.
BoundIsUp == \A h \in Hosts : bound[h] # None => link[bound[h]].up # "free"
=============================================================================
