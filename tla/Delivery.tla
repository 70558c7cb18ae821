------------------------------ MODULE Delivery ------------------------------
(***************************************************************************)
(* How nodesignald carries the messages an operator writes to one contact: *)
(* the send-now-or-hold queue, the dialling and inbound links it goes out  *)
(* on, the acknowledgements, the contact's mailbox as a second way, and    *)
(* the debounced saves that a crash rolls back to.                         *)
(*                                                                         *)
(* "The sender" is the daemon under study; "the contact" is the daemon at  *)
(* the other end, kept here to what the sender can tell of it.  A link is  *)
(* one authenticated session over TCP, dialled by either side.  Time is    *)
(* what the code compares: a retry time that has come (due), a message's   *)
(* age against the one and seven day limits (age), the ten minutes between *)
(* two deposits (tried).                                                   *)
(***************************************************************************)
EXTENDS Naturals, FiniteSets

CONSTANTS
  Msgs,              \* ids of the messages the operator may write
  Links,             \* names for the sessions alive at one moment
  None,              \* not a link
  HasMailbox,        \* the contact named a mailbox in its hello
  HistoryCap,        \* messages kept for a contact the operator wrote to (500)
  Plans              \* what may happen, one plan per behaviour (Plan)

Errors == {"plain", "mismatch", "self"}
Plan == [vault    : BOOLEAN,           \* history is sealed with a passphrase
         errors   : SUBSET Errors,     \* ways a dial may fail
         oldest   : 0..2,              \* bound: how old a message may grow (2: past every limit)
         restarts : Nat,               \* bound: restarts of the sender's daemon
         contact  : Nat,               \* bound: restarts of the contact's daemon
         expire   : BOOLEAN]           \* the mailbox may lose what it holds (its limits, its crash)

ASSUME NoneAssumption == None \notin Links
ASSUME FlagsAssumption == HasMailbox \in BOOLEAN
ASSUME PlansAssumption == Plans \subseteq Plan
\* The oldest records fall out of the history past HistoryCap (module Contacts
\* models that); here the operator's messages fit in it.
ASSUME CapAssumption ==
  HistoryCap \in Nat /\ IsFiniteSet(Msgs) /\ Cardinality(Msgs) <= HistoryCap

VARIABLES
  msg,        \* the sender's record of each message
  age,        \* 0: under a day old, 1: under seven, 2: older
  est,        \* contact.established
  key,        \* the contact's key: pendingFp is set (doubt), peerPub is known (pub)
  outText,    \* messages whose plaintext this process still holds
  locked,     \* the vault is on and its key is not in memory
  link,       \* the sessions
  bound,      \* links.get(contact.host)
  dialing,    \* dialing.has(contact.host)
  deposit,    \* a mailbox deposit under way, per message
  disk,       \* what state.json holds
  dirty,      \* a save is scheduled
  asked,      \* messages the operator ever wrote
  got,        \* messages in the contact's history, in its memory
  gotDisk,    \* ... and in its state.json
  everGot,    \* messages the contact ever stored
  late,       \* frames of dead connections that may still reach the contact
  box,        \* messages waiting at the contact's mailbox
  receipts,   \* receipts on their way to the sender through its mailbox
  expired,    \* mail the mailbox lost
  env         \* restarts so far, and the behaviour's plan

contactVars == <<got, gotDisk, everGot, late>>
boxVars     == <<deposit, box, receipts, expired>>
vaultVars   == <<outText, locked>>
saveVars    == <<disk, dirty>>
vars == <<msg, age, est, key, vaultVars, link, bound, dialing, saveVars, asked,
          contactVars, boxVars, env>>

States == {"none", "sending", "pending", "held", "delivered", "failed"}
Keys   == [doubt : BOOLEAN, pub : BOOLEAN]
Record == [st     : States,      \* "none": no such record in contact.msgs
           held   : BOOLEAN,     \* heldAt is set
           due    : BOOLEAN,     \* nextTry is absent or has come
           gaveUp : BOOLEAN,     \* directGaveUp
           tried  : BOOLEAN,     \* mbTriedAt is less than ten minutes ago
           why    : {"-", "cancelled", "gaveup", "self"}]
Session == [up      : {"free", "open", "closing"},  \* closing: link.closed, socket still up
            out     : BOOLEAN,       \* we dialled
            peer    : BOOLEAN,       \* the other end still lives
            unacked : SUBSET Msgs,
            wire    : SUBSET Msgs,   \* msg frames on their way to the contact
            acks    : SUBSET Msgs]   \* acks on their way back

NoRecord == [st |-> "none", held |-> FALSE, due |-> TRUE, gaveUp |-> FALSE,
             tried |-> FALSE, why |-> "-"]
NoSession == [up |-> "free", out |-> FALSE, peer |-> FALSE,
              unacked |-> {}, wire |-> {}, acks |-> {}]

TypeOK ==
  /\ msg \in [Msgs -> Record]
  /\ age \in [Msgs -> 0..2]
  /\ est \in BOOLEAN
  /\ key \in Keys
  /\ outText \subseteq Msgs
  /\ locked \in BOOLEAN
  /\ link \in [Links -> Session]
  /\ bound \in Links \cup {None}
  /\ dialing \in BOOLEAN
  /\ disk \in [msg : [Msgs -> Record], est : BOOLEAN, key : Keys]
  /\ dirty \in BOOLEAN
  /\ asked \subseteq Msgs
  /\ got \subseteq Msgs /\ gotDisk \subseteq Msgs /\ everGot \subseteq Msgs
  /\ late \subseteq Msgs
  /\ deposit \in [Msgs -> {"none", "put", "ok"}]
  /\ box \subseteq Msgs /\ receipts \subseteq Msgs /\ expired \subseteq Msgs
  /\ env \in [sender : Nat, contact : Nat, plan : Plan]

Init ==
  /\ env \in {[sender |-> 0, contact |-> 0, plan |-> p] : p \in Plans}
  /\ msg = [m \in Msgs |-> NoRecord]
  /\ age = [m \in Msgs |-> 0]
  /\ est = FALSE /\ key = [doubt |-> FALSE, pub |-> TRUE]
  /\ outText = {} /\ locked = env.plan.vault
  /\ link = [l \in Links |-> NoSession]
  /\ bound = None /\ dialing = FALSE
  /\ disk = [msg |-> msg, est |-> est, key |-> key] /\ dirty = FALSE
  /\ asked = {}
  /\ got = {} /\ gotDisk = {} /\ everGot = {} /\ late = {}
  /\ deposit = [m \in Msgs |-> "none"]
  /\ box = {} /\ receipts = {} /\ expired = {}

-----------------------------------------------------------------------------
(* The queue's own operations.  A table is a value of msg.                 *)

Deliverable(r) == r.st \in {"sending", "pending", "held"}
Queued(table) == {m \in Msgs : Deliverable(table[m])}
\* textOf is not null: typed in this process, or not sealed away
ReadableNow == IF locked THEN outText ELSE Msgs
\* Date.now() - m.ts is past GIVE_UP_MS, seven days once the contact is established
PastLimit_Strictly(m) == age[m] > IF est THEN 2 ELSE 1             \* mutant
PastLimit(m) == age[m] >= IF est THEN 2 ELSE 1

Failed_Misfiled(r, why) == [r EXCEPT !.st = why, !.due = TRUE]     \* mutant
Failed(r, why)  == [r EXCEPT !.st = "failed", !.why = why, !.due = TRUE]
Acknowledged(r) == [r EXCEPT !.st = "delivered", !.why = "-", !.due = TRUE]
Deferred(r, m) ==
  IF r.held THEN [r EXCEPT !.st = "held", !.due = FALSE, !.gaveUp = @ \/ PastLimit(m)]
  ELSE IF PastLimit(m) THEN Failed(r, "gaveup")
  ELSE [r EXCEPT !.st = "pending", !.due = FALSE]
DueNow(table) ==
  [m \in Msgs |-> IF Deliverable(table[m]) THEN [table[m] EXCEPT !.due = TRUE] ELSE table[m]]

\* deferMsg for every message of S.
DeferAll(table, S) ==
  [m \in Msgs |-> IF m \in S THEN Deferred(table[m], m) ELSE table[m]]
\* failMsg and the ack handler drop the plaintext kept for sending.
KeepText_OnlySending(table) == {m \in outText : table[m].st = "sending"}   \* mutant
KeepText(table) == {m \in outText : table[m].st \notin {"failed", "delivered"}}

\* What flushPending puts on session s: all that is deliverable and readable
\* and has not gone out there before.
FlushSet(table, s, readable) == {m \in Queued(table) \cap readable : m \notin s.unacked}
Sending_Optimistic(table, S) ==                                    \* mutant
  [m \in Msgs |-> IF m \in S THEN Acknowledged(table[m]) ELSE table[m]]
Sending(table, S) ==
  [m \in Msgs |-> IF m \in S THEN [table[m] EXCEPT !.st = "sending"] ELSE table[m]]
\* link.send drops the frames of a closed link; flushPending still counts them.
Carrying(s, S) ==
  [s EXCEPT !.unacked = @ \cup S,
            !.wire = IF s.up = "open" /\ s.peer THEN @ \cup S ELSE @]

\* connectTo dials only with no link on record and no dial running.
CanDial == bound = None /\ ~dialing
\* bindLink: the contact's link is l, unless it has an open one.
Bind(l) == IF bound = None THEN l ELSE IF link[bound].up = "closing" THEN l ELSE bound

\* The close event: links.delete, if the entry is this link.
Unbind_Never(l) == bound                                           \* mutant
Unbind(l) == IF bound = l THEN None ELSE bound
\* What a closing link leaves in doubt: sent there, not acknowledged, and not
\* settled or deferred meanwhile.
Unsure_Unchecked(l) == link[l].unacked                             \* mutant
Unsure_IfBound(l) ==                                               \* mutant
  {m \in link[l].unacked : bound = l /\ msg[m].st = "sending"}
Unsure(l) == {m \in link[l].unacked : msg[m].st = "sending"}

\* retryTick: a message past its limit and not held fails, and any other that
\* is due and readable has the contact dialled.
Live(table)  == {m \in Queued(table) : ~table[m].gaveUp}
Stale(table) == IF CanDial THEN {m \in Live(table) : PastLimit(m) /\ ~table[m].held} ELSE {}
RetryTickOn(table, readable) ==
  /\ msg' = [m \in Msgs |-> IF m \in Stale(table) THEN Failed(table[m], "gaveup") ELSE table[m]]
  /\ outText' = outText \ Stale(table)
  /\ dialing' = \/ dialing
                \/ /\ CanDial
                   /\ \E m \in (Live(table) \ Stale(table)) \cap readable : table[m].due

-----------------------------------------------------------------------------
(* What the operator asks for.                                             *)

\* chat.send: stored as "sending", then put on the open link or dialled for.
Send(m) ==
  LET table == [msg EXCEPT ![m] = [NoRecord EXCEPT !.st = "sending"]]
      S     == FlushSet(table, link[bound], ReadableNow \cup {m})
  IN
  /\ m \notin asked
  /\ asked' = asked \cup {m}
  /\ outText' = outText \cup {m}
  /\ dirty' = TRUE
  /\ IF bound # None /\ link[bound].up = "open"
     THEN /\ msg' = Sending(table, S)
          /\ link' = [link EXCEPT ![bound] = Carrying(@, S)]
          /\ UNCHANGED dialing
     ELSE /\ msg' = table
          /\ dialing' = (dialing \/ CanDial)
          /\ UNCHANGED link
  /\ UNCHANGED <<age, est, key, locked, bound, disk, contactVars, boxVars, env>>

\* chat.cancel.
Cancel(m) ==
  /\ Deliverable(msg[m])
  /\ msg' = [msg EXCEPT ![m] = Failed(@, "cancelled")]
  /\ outText' = outText \ {m}
  /\ dirty' = TRUE
  /\ UNCHANGED <<age, est, key, locked, link, bound, dialing, disk, asked,
                 contactVars, boxVars, env>>

\* chat.retry: everything is due, and the contact is dialled.
RetryNow ==
  /\ msg' = DueNow(msg)
  /\ dialing' = (dialing \/ CanDial)
  /\ UNCHANGED <<age, est, key, vaultVars, link, bound, saveVars, asked,
                 contactVars, boxVars, env>>

\* contact.acceptKey: the presented key is pinned, the old one's public key is
\* forgotten, and whatever waits goes out now.
AcceptKey ==
  /\ key.doubt
  /\ key' = [doubt |-> FALSE, pub |-> FALSE]
  /\ dirty' = TRUE
  /\ RetryTickOn(DueNow(msg), ReadableNow)
  /\ UNCHANGED <<age, est, locked, link, bound, disk, asked, contactVars, boxVars, env>>

\* contact.dismissKey.
DismissKey ==
  /\ key.doubt
  /\ key' = [key EXCEPT !.doubt = FALSE]
  /\ dirty' = TRUE
  /\ UNCHANGED <<msg, age, est, vaultVars, link, bound, dialing, disk, asked,
                 contactVars, boxVars, env>>

\* vault.unlock, once the passphrase was right; it ends in a retryTick.
Unlock ==
  /\ env.plan.vault /\ locked
  /\ locked' = FALSE
  /\ RetryTickOn(msg, Msgs)
  /\ dirty' = (dirty \/ Stale(msg) # {})
  /\ UNCHANGED <<age, est, key, link, bound, disk, asked, contactVars, boxVars, env>>

\* vault.lock: the key goes, what was typed in this process stays readable.
Lock ==
  /\ env.plan.vault /\ ~locked
  /\ locked' = TRUE
  /\ UNCHANGED <<msg, age, est, key, outText, link, bound, dialing, saveVars, asked,
                 contactVars, boxVars, env>>

-----------------------------------------------------------------------------
(* Timers.                                                                 *)

\* The ten second retry interval.
RetryTick ==
  /\ CanDial
  /\ RetryTickOn(msg, ReadableNow)
  /\ dirty' = (dirty \/ Stale(msg) # {})
  /\ UNCHANGED <<age, est, key, locked, link, bound, disk, asked, contactVars, boxVars, env>>

\* A check-in, or work that waits for a link (withLink), dials as well.
DialForOther ==
  /\ CanDial
  /\ dialing' = TRUE
  /\ UNCHANGED <<msg, age, est, key, vaultVars, link, bound, saveVars, asked,
                 contactVars, boxVars, env>>

\* A message's nextTry comes.
ComesDue(m) ==
  /\ ~msg[m].due
  /\ msg' = [msg EXCEPT ![m].due = TRUE]
  /\ UNCHANGED <<age, est, key, vaultVars, link, bound, dialing, saveVars, asked,
                 contactVars, boxVars, env>>

\* A message crosses the one day limit, then the seven day limit.
Ages(m) ==
  /\ m \in asked /\ age[m] < env.plan.oldest
  /\ age' = [age EXCEPT ![m] = @ + 1]
  /\ UNCHANGED <<msg, est, key, vaultVars, link, bound, dialing, saveVars, asked,
                 contactVars, boxVars, env>>

\* Ten minutes after a deposit attempt, another may be made.
MayDepositAgain(m) ==
  /\ msg[m].tried
  /\ msg' = [msg EXCEPT ![m].tried = FALSE]
  /\ UNCHANGED <<age, est, key, vaultVars, link, bound, dialing, saveVars, asked,
                 contactVars, boxVars, env>>

-----------------------------------------------------------------------------
(* Dialling and links.                                                     *)

\* A new session l to the contact, queue flushed onto it if flush.
Open(l, out, flush) ==
  LET s == [NoSession EXCEPT !.up = "open", !.out = out, !.peer = TRUE]
      S == IF flush THEN FlushSet(msg, s, ReadableNow) ELSE {}
  IN /\ link[l].up = "free"
     /\ link' = [link EXCEPT ![l] = Carrying(s, S)]
     /\ bound' = Bind(l)
     /\ msg' = Sending(msg, S)
     /\ key' = [key EXCEPT !.pub = TRUE]
     /\ UNCHANGED <<age, est, vaultVars, disk, asked, contactVars, boxVars, env>>

\* attemptDial gets through to the pinned key: hello and the whole queue go out.
DialOk(l) ==
  /\ dialing
  /\ dialing' = FALSE
  /\ Open(l, TRUE, TRUE)
  /\ UNCHANGED dirty

\* The contact calls us (serveSecure); its public key may be news to save.
LinkIn(l) ==
  /\ Open(l, FALSE, FALSE)
  /\ dirty' \in {dirty, TRUE}
  /\ UNCHANGED dialing

\* Somebody with another key calls from the contact's address (tofuCheck).
WrongKeyIn ==
  /\ "mismatch" \in env.plan.errors /\ ~key.doubt
  /\ key' = [key EXCEPT !.doubt = TRUE]
  /\ dirty' = TRUE
  /\ UNCHANGED <<msg, age, est, vaultVars, link, bound, dialing, disk, asked,
                 contactVars, boxVars, env>>

\* connectTo's done(err): every message the dial was for is deferred, and what
\* still waits is left at the contact's mailbox; to our own daemon, all fails.
DialFail(err) ==
  LET tried   == {m \in Queued(msg) : err = "self" \/ msg[m].st = "sending" \/ msg[m].due}
      after   == IF err = "self"
                 THEN [m \in Msgs |-> IF m \in tried THEN Failed(msg[m], "self") ELSE msg[m]]
                 ELSE DeferAll(msg, tried)
      mailed  == IF err = "plain" /\ HasMailbox /\ key.pub /\ ~key.doubt
                 THEN {m \in Queued(after) \cap ReadableNow : ~after[m].held /\ ~after[m].tried}
                 ELSE {}
  IN
  /\ dialing /\ err \in env.plan.errors
  /\ dialing' = FALSE
  /\ key' = IF err = "mismatch" THEN [key EXCEPT !.doubt = TRUE] ELSE key
  /\ msg' = [m \in Msgs |-> IF m \in mailed THEN [after[m] EXCEPT !.tried = TRUE] ELSE after[m]]
  /\ outText' = KeepText(after)
  /\ deposit' = [m \in Msgs |-> IF m \in mailed THEN "put" ELSE deposit[m]]
  /\ dirty' = (dirty \/ tried # {} \/ key' # key)
  /\ UNCHANGED <<age, est, locked, link, bound, disk, asked, contactVars,
                 box, receipts, expired, env>>

\* The caller's hello: we answer with whatever waits (onPeerMessage).
HelloIn(l) ==
  LET S == FlushSet(msg, link[l], ReadableNow) IN
  /\ link[l].up # "free" /\ link[l].peer /\ ~link[l].out
  /\ msg' = Sending(msg, S)
  /\ link' = [link EXCEPT ![l] = Carrying(@, S)]
  /\ dirty' \in {dirty, TRUE}
  /\ UNCHANGED <<age, est, key, vaultVars, bound, dialing, disk, asked,
                 contactVars, boxVars, env>>

\* A message of the contact's own: the contact counts as established.
PeerWrites(l) ==
  /\ link[l].up # "free" /\ link[l].peer
  /\ est' = TRUE
  /\ dirty' = TRUE
  /\ UNCHANGED <<msg, age, key, vaultVars, link, bound, dialing, disk, asked,
                 contactVars, boxVars, env>>

\* An acknowledgement comes in on link l, open or closing.
AckIn(l, m) ==
  /\ link[l].up # "free" /\ m \in link[l].acks
  /\ link' = [link EXCEPT ![l].acks = @ \ {m}, ![l].unacked = @ \ {m}]
  /\ IF msg[m].st \notin {"none", "delivered"}
     THEN /\ msg' = [msg EXCEPT ![m] = Acknowledged(@)]
          /\ outText' = outText \ {m}
          /\ est' = TRUE /\ dirty' = TRUE
     ELSE UNCHANGED <<msg, outText, est, dirty>>
  /\ UNCHANGED <<age, key, locked, bound, dialing, disk, asked, contactVars, boxVars, env>>

\* link.close: our idle timer, or the thirty second limit of every link.
LinkClose(l) ==
  /\ link[l].up = "open"
  /\ link' = [link EXCEPT ![l].up = "closing"]
  /\ UNCHANGED <<msg, age, est, key, vaultVars, bound, dialing, saveVars, asked,
                 contactVars, boxVars, env>>

\* The socket's close event: the link leaves the books, and what it sent and
\* was not told of goes back to the queue.  Bytes already sent may still arrive.
SockClosed(l) ==
  LET after == DeferAll(msg, Unsure(l)) IN
  /\ link[l].up # "free"
  /\ link' = [link EXCEPT ![l] = NoSession]
  /\ bound' = Unbind(l)
  /\ msg' = after
  /\ outText' = KeepText(after)
  /\ dirty' = (dirty \/ Unsure(l) # {})
  /\ late' = late \cup link[l].wire
  /\ UNCHANGED <<age, est, key, locked, dialing, disk, asked, got, gotDisk, everGot,
                 boxVars, env>>

-----------------------------------------------------------------------------
(* The contact's daemon, as far as the sender depends on it.               *)

Stores(m) == got' = got \cup {m} /\ everGot' = everGot \cup {m}

\* A msg frame arrives: stored unless its id is known, and acknowledged either way.
Receive(l, m) ==
  /\ link[l].up # "free" /\ m \in link[l].wire
  /\ Stores(m)
  /\ link' = [link EXCEPT ![l].wire = @ \ {m}, ![l].acks = @ \cup {m}]
  /\ UNCHANGED <<msg, age, est, key, vaultVars, bound, dialing, saveVars, asked,
                 gotDisk, late, boxVars, env>>

\* The same on a connection we have given up: its ack reaches nobody.
ReceiveLate(m) ==
  /\ m \in late
  /\ late' = late \ {m}
  /\ Stores(m)
  /\ UNCHANGED <<msg, age, est, key, vaultVars, link, bound, dialing, saveVars, asked,
                 gotDisk, boxVars, env>>

\* Its debounced save.
ContactSaves ==
  /\ got # gotDisk
  /\ gotDisk' = got
  /\ UNCHANGED <<msg, age, est, key, vaultVars, link, bound, dialing, saveVars, asked,
                 got, everGot, late, boxVars, env>>

\* It stops and starts again from its last save; its connections are dead, which
\* we learn later (SockClosed).
ContactCrash ==
  /\ env.contact < env.plan.contact
  /\ env' = [env EXCEPT !.contact = @ + 1]
  /\ got' = gotDisk
  /\ late' = {}
  /\ link' = [l \in Links |-> [link[l] EXCEPT !.peer = FALSE, !.wire = {}, !.acks = {}]]
  /\ UNCHANGED <<msg, age, est, key, vaultVars, bound, dialing, saveVars, asked,
                 gotDisk, everGot, boxVars>>

-----------------------------------------------------------------------------
(* The contact's mailbox.                                                  *)

\* mb-put reaches the mailbox, which takes it and answers mb-put-ok.
MailStored(m) ==
  /\ deposit[m] = "put"
  /\ deposit' = [deposit EXCEPT ![m] = "ok"]
  /\ box' = box \cup {m}
  /\ UNCHANGED <<msg, age, est, key, vaultVars, link, bound, dialing, saveVars, asked,
                 contactVars, receipts, expired, env>>

\* The mailbox cannot be reached, refuses, or its answer is lost with the link.
DepositLost(m) ==
  /\ deposit[m] # "none"
  /\ deposit' = [deposit EXCEPT ![m] = "none"]
  /\ UNCHANGED <<msg, age, est, key, vaultVars, link, bound, dialing, saveVars, asked,
                 contactVars, box, receipts, expired, env>>

\* mb-put-ok: the message is held, unless it was delivered meanwhile.
HeldNow(m) == [msg EXCEPT ![m].st = "held", ![m].held = TRUE, ![m].why = "-"]
DepositOk_Unsaved(m) ==                                            \* mutant
  /\ deposit[m] = "ok"
  /\ deposit' = [deposit EXCEPT ![m] = "none"]
  /\ msg' = IF msg[m].st # "delivered" THEN HeldNow(m) ELSE msg
  /\ UNCHANGED <<age, est, key, vaultVars, link, bound, dialing, saveVars, asked,
                 contactVars, box, receipts, expired, env>>
DepositOk(m) ==
  /\ deposit[m] = "ok"
  /\ deposit' = [deposit EXCEPT ![m] = "none"]
  /\ IF msg[m].st # "delivered"
     THEN msg' = HeldNow(m) /\ dirty' = TRUE
     ELSE UNCHANGED <<msg, dirty>>
  /\ UNCHANGED <<age, est, key, vaultVars, link, bound, dialing, disk, asked,
                 contactVars, box, receipts, expired, env>>

\* The contact collects m (mb-items, onMailboxItem) and says so: in a receipt
\* left at the sender's mailbox, in an ack over a link, in both or in neither.
\* The mb-ack that clears the mailbox may be lost.
Collect(m) ==
  /\ m \in box
  /\ Stores(m)
  /\ box' \in {box, box \ {m}}
  /\ receipts' \in {receipts, receipts \cup {m}}
  /\ \/ UNCHANGED link
     \/ \E l \in Links : /\ link[l].up # "free" /\ link[l].peer
                         /\ link' = [link EXCEPT ![l].acks = @ \cup {m}]
  /\ UNCHANGED <<msg, age, est, key, vaultVars, bound, dialing, saveVars, asked,
                 gotDisk, late, deposit, expired, env>>

\* A receipt from the sender's own mailbox.
ReceiptIn(m) ==
  /\ m \in receipts
  /\ receipts' = receipts \ {m}
  /\ est' = TRUE /\ dirty' = TRUE
  /\ IF msg[m].st \notin {"none", "delivered"}
     THEN /\ msg' = [msg EXCEPT ![m] = Acknowledged(@)]
          /\ outText' = outText \ {m}
     ELSE UNCHANGED <<msg, outText>>
  /\ UNCHANGED <<age, key, locked, link, bound, dialing, disk, asked, contactVars,
                 deposit, box, expired, env>>

\* What the mailbox holds does not last: its time limit, its limits of size, a
\* crash before its throttled save.
MailExpires(m) ==
  /\ env.plan.expire /\ m \in box
  /\ box' = box \ {m}
  /\ expired' = expired \cup {m}
  /\ UNCHANGED <<msg, age, est, key, vaultVars, link, bound, dialing, saveVars, asked,
                 contactVars, deposit, receipts, env>>

-----------------------------------------------------------------------------
(* Saves and restarts of the sender.                                       *)

\* saveNow, a tenth of a second after the last change.
Save ==
  /\ dirty
  /\ disk' = [msg |-> msg, est |-> est, key |-> key]
  /\ dirty' = FALSE
  /\ UNCHANGED <<msg, age, est, key, vaultVars, link, bound, dialing, asked,
                 contactVars, boxVars, env>>

\* What was mid-delivery when the daemon stopped is queued again at boot.
Reboot(table) ==
  [m \in Msgs |-> IF table[m].st = "sending"
                  THEN [table[m] EXCEPT !.st = "pending", !.due = TRUE]
                  ELSE table[m]]

\* The daemon is killed and started: memory is the last save, links and
\* deposits are gone, frames already sent may still arrive.
Crash ==
  /\ env.sender < env.plan.restarts
  /\ env' = [env EXCEPT !.sender = @ + 1]
  /\ msg' = Reboot(disk.msg) /\ est' = disk.est /\ key' = disk.key
  /\ dirty' = FALSE
  /\ outText' = {} /\ locked' = env.plan.vault
  /\ late' = late \cup UNION {link[l].wire : l \in Links}
  /\ link' = [l \in Links |-> NoSession]
  /\ bound' = None /\ dialing' = FALSE
  /\ deposit' = [m \in Msgs |-> "none"]
  /\ \E S \in SUBSET {m \in Msgs : deposit[m] = "put"} : box' = box \cup S
  /\ UNCHANGED <<age, disk, asked, got, gotDisk, everGot, receipts, expired>>

-----------------------------------------------------------------------------
Operator == \/ \E m \in Msgs : Send(m) \/ Cancel(m)
            \/ RetryNow \/ AcceptKey \/ DismissKey \/ Unlock \/ Lock
Timers   == \/ RetryTick \/ DialForOther
            \/ \E m \in Msgs : ComesDue(m) \/ Ages(m) \/ MayDepositAgain(m)
Network  == \/ \E l \in Links : \/ DialOk(l) \/ LinkIn(l) \/ HelloIn(l) \/ PeerWrites(l)
                                \/ LinkClose(l) \/ SockClosed(l)
                                \/ \E m \in Msgs : AckIn(l, m) \/ Receive(l, m)
            \/ \E err \in Errors : DialFail(err)
            \/ WrongKeyIn
            \/ \E m \in Msgs : ReceiveLate(m)
Mail     == \E m \in Msgs : \/ MailStored(m) \/ DepositLost(m) \/ DepositOk(m)
                            \/ Collect(m) \/ ReceiptIn(m) \/ MailExpires(m)
Faults   == Save \/ Crash \/ ContactSaves \/ ContactCrash

Next == Operator \/ Timers \/ Network \/ Mail \/ Faults

Spec == Init /\ [][Next]_vars

-----------------------------------------------------------------------------
(* What the code promises.                                                 *)

\* A message the operator is told was delivered has been in the contact's
\* history: no retry, second link, late answer or restart makes it up.
DeliveredWasStored ==
  \A m \in Msgs : msg[m].st = "delivered" => m \in everGot

\* A message shown as being sent is on some session that answers for it when it
\* closes, or the next retry takes it up: none is left "sending" with nobody
\* sending it.  And the links map never keeps a session whose socket is gone: it
\* would stop every later dial to the contact (connectTo, retryTick).
SendingIsCarried ==
  /\ \A m \in Msgs : msg[m].st = "sending" =>
       \/ msg[m].due /\ ~msg[m].gaveUp
       \/ \E l \in Links : link[l].up # "free" /\ m \in link[l].unacked
  /\ bound # None => link[bound].up # "free"

\* With no save scheduled, a restart changes no outcome: every message is as
\* settled, held or waiting in state.json as in memory.
Outcome(r) == <<IF Deliverable(r) THEN "waiting" ELSE r.st, r.held, r.gaveUp>>
CleanIsSaved ==
  ~dirty => /\ \A m \in Msgs : Outcome(disk.msg[m]) = Outcome(msg[m])
            /\ disk.est = est

\* A daemon that has the plaintext of a message it may still send keeps it:
\* locking the vault stops no message typed since the start (outText).
TypedStaysReadable ==
  [][\A m \in outText : Deliverable(msg'[m]) => m \in outText' \/ env' # env]_vars

\* "cancel" gives up on that message (Troubleshooting.txt): it is not queued
\* again.  An acknowledgement under way may still mark it delivered.
CancelGivesUp ==
  [][\A m \in Msgs : msg[m].why = "cancelled" => ~Deliverable(msg'[m])]_vars

\* What is shown as held at a mailbox was taken by that mailbox.
HeldWasTaken ==
  \A m \in Msgs : msg[m].held => m \in box \cup everGot \cup expired

\* All of this is what Courier promises, and what it calls held was.
Verdict(r) ==
  CASE r.st = "none" -> "absent"
    [] r.st = "failed" -> r.why
    [] r.st = "delivered" -> "delivered"
    [] OTHER -> IF r.held THEN "held" ELSE "waiting"
Promise == INSTANCE Courier WITH verdict <- [m \in Msgs |-> Verdict(msg[m])],
                                 stored <- everGot, epoch <- env.sender
KeepsPromise == Promise!Spec /\ []HeldWasTaken

-----------------------------------------------------------------------------
(* Liveness.  Timers fire, dials end (they have a timeout), closing sockets *)
(* close.  The retry interval is not synchronised with the contact's calls, *)
(* so it does not find a link or a dial in the way every time.              *)

EndDial == (\E l \in Links : DialOk(l)) \/ (\E err \in Errors : DialFail(err))

TimerFairness ==
  /\ SF_vars(RetryTick)
  /\ WF_vars(EndDial)
  /\ \A m \in Msgs : WF_vars(ComesDue(m))
  /\ \A l \in Links : WF_vars(LinkClose(l)) /\ WF_vars(SockClosed(l))

FairSpec == Spec /\ TimerFairness

\* Every message grows old.
Aging == \A m \in Msgs : WF_vars(Ages(m))

\* The contact can be reached again and again, and either side's connections
\* last, again and again, for a hello and a frame each way.
Reachable ==
  /\ SF_vars(\E l \in Links : DialOk(l))
  /\ \A l \in Links : SF_vars(link[l].up = "open" /\ HelloIn(l))
  /\ \A l \in Links, m \in Msgs : SF_vars(Receive(l, m)) /\ SF_vars(AckIn(l, m))

\* Whatever the network does, the operator is told how it ended: delivered,
\* failed, or left at the mailbox with no more direct tries.
Settled(m) == msg[m].st \in {"delivered", "failed"} \/ msg[m].gaveUp
EventuallySettled == Aging => \A m \in Msgs : m \in asked ~> Settled(m)

\* With the contact within reach a message is delivered before it is too old,
\* unless the operator gives it up.
EventuallyDelivered ==
  Reachable => \A m \in Msgs :
    m \in asked ~> \/ msg[m].st = "delivered"
                   \/ msg[m].why \in {"cancelled", "gaveup"}
                   \/ PastLimit(m)
=============================================================================
