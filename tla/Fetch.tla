-------------------------------- MODULE Fetch --------------------------------
(***************************************************************************)
(* An operator's daemon collects the mail its mailbox holds for it: the     *)
(* frames mb-get, mb-items and mb-ack of nodesignald.js over one link, page *)
(* by page, with the mailbox of module Mailbox at the other end.  A page is *)
(* sent in frames of a few items; each frame is acknowledged for what could *)
(* be filed, and only the last one asks for more.  Links break, both        *)
(* daemons are killed and go back to what they saved.  Left out: seals, and *)
(* what cannot be opened; receipts; the caps on a conversation; failed      *)
(* writes and time limits, which are module Mailbox's.                      *)
(***************************************************************************)
EXTENDS FiniteSets, Lists

CONSTANTS
  Ids,              \* deposit ids, 1, 2, ... in the order of the deposits
  From(_),          \* who sealed a blob
  Text(_),          \* the message in it: a sender leaves one again under a new id
  Known,            \* senders with a record the operator made
  Before,           \* strangers that have a record already
  PAGE, BATCH,      \* items of an answer, and of a frame (50 and 10)
  MAX_STRANGERS,
  MaxLosses,        \* bound: links lost and daemons killed
  None

VARIABLES
  store, opened, boxFile, pending, failed, serving, leaving, now,   \* the mailbox
  link,             \* frames to the mailbox and from it; its reqs: an answer under
                    \* way, a request that waits
  home, homeFile,   \* state.contacts and state.json: the messages, the strangers
  sent, losses,
  taken, forgot     \* history: ids acknowledged; messages that a kill, or the
                    \* operator, took from the history

boxVars == <<store, opened, boxFile, pending, failed, serving, leaving, now>>
vars == <<boxVars, link, home, homeFile, sent, losses, taken, forgot>>

Me == "me"
M == INSTANCE Mailbox WITH Fps <- {Me}, Size <- [i \in Ids |-> 1], MaxBlob <- 1,
       MaxPerRecipient <- Cardinality(Ids), MaxTotal <- Cardinality(Ids), MaxRecipients <- 1,
       Ttl <- 1, EndOfTime <- 0, disk <- boxFile

Texts == {Text(i) : i \in Ids}
Frame == [t : {"poll", "get", "ack"}, ids : SUBSET Ids]
Down  == [at |-> "down", out |-> <<>>, in |-> <<>>, busy |-> FALSE, waits |-> FALSE]

TypeOK ==
  /\ M!TypeOK
  /\ link \in [at : {"down", "up", "cut"}, out : Seq(Frame),
               in : Seq([ids : Seq(Ids), more : BOOLEAN]), busy : BOOLEAN, waits : BOOLEAN]
  /\ {home, homeFile} \subseteq [msgs : Seq(Texts), strangers : SUBSET ({From(i) : i \in Ids} \cup Before)]
  /\ sent \subseteq Ids /\ losses \in 0..MaxLosses /\ taken \subseteq Ids /\ forgot \subseteq Texts

Init ==
  /\ M!Init /\ serving = TRUE
  /\ link = Down
  /\ home = [msgs |-> <<>>, strangers |-> Before] /\ homeFile = home
  /\ sent = {} /\ losses = 0 /\ taken = {} /\ forgot = {}

Ask(t) == [t |-> t, ids |-> {}]
Mail == IF M!Registered(store, Me) THEN [i \in DOMAIN store.box[Me].items |-> store.box[Me].items[i].id]
        ELSE <<>>

-----------------------------------------------------------------------------
(* The link.                                                               *)

\* syncWith, once the hello is in.
LinkUp ==
  /\ link.at = "down"
  /\ link' = [Down EXCEPT !.at = "up", !.out = <<Ask("poll")>>]
  /\ UNCHANGED <<boxVars, home, homeFile, sent, losses, taken, forgot>>

\* mailboxTick, every two minutes (bound: when nothing of the last is under way).
Poke ==
  /\ link.at = "up" /\ link.out = <<>> /\ link.in = <<>> /\ ~link.waits
  /\ link' = [link EXCEPT !.out = <<Ask("poll")>>]
  /\ UNCHANGED <<boxVars, home, homeFile, sent, losses, taken, forgot>>

\* A link breaks; what a killed daemon sent before may still be read.
LinkLost ==
  /\ link.at # "down" /\ link' = Down
  /\ losses' = IF link.at = "up" THEN losses + 1 ELSE losses
  /\ losses' <= MaxLosses
  /\ UNCHANGED <<boxVars, home, homeFile, sent, taken, forgot>>

-----------------------------------------------------------------------------
(* The mailbox.                                                            *)

\* mb-get: the oldest PAGE items, in frames of BATCH; more on the last.
Parts(all) ==
  LET page == SubSeq(all, 1, IF Len(all) < PAGE THEN Len(all) ELSE PAGE)
      n    == IF page = <<>> THEN 1 ELSE (Len(page) + BATCH - 1) \div BATCH
  IN  [k \in 1..n |-> [ids |-> SubSeq(page, (k - 1) * BATCH + 1, IF k = n THEN Len(page) ELSE k * BATCH),
                       more |-> k = n /\ Len(all) > Len(page)]]
Answer(rest) ==
  link' = [link EXCEPT !.out = rest, !.waits = FALSE, !.busy = TRUE,
                       !.in = IF link.at = "cut" THEN @ ELSE @ \o Parts(Mail)]

\* serveReq: one answer at a time, and one more request waits.
TakesGet(rest) ==
  IF link.busy THEN link' = [link EXCEPT !.out = rest, !.waits = TRUE] ELSE Answer(rest)
\* The answer has left the write buffer.
Drained ==
  /\ link.busy
  /\ IF link.waits THEN Answer(link.out) ELSE link' = [link EXCEPT !.busy = FALSE]
  /\ UNCHANGED <<boxVars, home, homeFile, sent, losses, taken, forgot>>

TakesFrame ==
  /\ link.out # <<>>
  /\ LET f == Head(link.out)   rest == Tail(link.out) IN
     \/ f.t = "get" /\ TakesGet(rest) /\ UNCHANGED boxVars
     \/ f.t = "poll" /\ TakesGet(rest) /\ M!Reg(Me)
     \/ /\ f.t = "ack" /\ link' = [link EXCEPT !.out = rest]
        /\ IF opened /\ f.ids \cap ToSet(Mail) # {} THEN M!Ack(Me, f.ids) ELSE UNCHANGED boxVars
  /\ taken' = taken \cup (ToSet(Mail) \ ToSet(Mail'))
  /\ UNCHANGED <<home, homeFile, sent, losses, forgot>>

\* mb-put: mail is left by anyone, each blob under an id of its own.
Deposits(i) ==
  /\ sent = {j \in Ids : j < i} /\ M!Takes(store, Me, i) /\ M!Put(Me, i) /\ sent' = sent \cup {i}
  /\ UNCHANGED <<link, home, homeFile, losses, taken, forgot>>

\* The timed write of mailbox.json (bound: while it may still be read again).
MailboxSaves ==
  /\ losses < MaxLosses /\ M!Write /\ ~failed'
  /\ UNCHANGED <<link, home, homeFile, sent, losses, taken, forgot>>
MailboxKilled ==
  /\ losses < MaxLosses /\ losses' = losses + 1
  /\ M!Crash /\ link' = Down
  /\ UNCHANGED <<home, homeFile, sent, taken, forgot>>
-----------------------------------------------------------------------------
(* The operator's daemon.                                                  *)

HasRecord(h, s) == s \in Known \cup h.strangers
\* onMailboxItem: a new key needs a place; a message is stored once.
Refuses(h, i) == ~HasRecord(h, From(i)) /\ Cardinality(h.strangers) >= MAX_STRANGERS
Filed(h, i) ==
  IF Refuses(h, i) THEN h
  ELSE [msgs |-> IF Contains(h.msgs, Text(i)) THEN h.msgs ELSE Append(h.msgs, Text(i)),
        strangers |-> h.strangers \cup ({From(i)} \ Known)]

\* mb-items: what was handled is acknowledged at once; the last frame asks
\* for more if it moved anything.
Done_All(h, ids) == ToSet(ids)                                        \* mutant
Done(h, ids) ==
  {ids[k] : k \in {x \in DOMAIN ids : ~Refuses(FoldLeft(Filed, h, SubSeq(ids, 1, x - 1)), ids[x])}}
TakesItems ==
  /\ link.at = "up" /\ link.in # <<>>
  /\ LET f == Head(link.in)   done == Done(home, f.ids) IN
     /\ home' = FoldLeft(Filed, home, f.ids)
     /\ link' = [link EXCEPT !.in = Tail(@),
                   !.out = @ \o (IF done = {} THEN <<>> ELSE <<[t |-> "ack", ids |-> done]>>)
                             \o (IF f.more /\ done # {} THEN <<Ask("get")>> ELSE <<>>)]
  /\ UNCHANGED <<boxVars, homeFile, sent, losses, taken, forgot>>

\* state.json is written, 100 ms after a change (the same bound).
Saves ==
  /\ losses < MaxLosses /\ homeFile' = home
  /\ UNCHANGED <<boxVars, link, home, sent, losses, taken, forgot>>
Killed ==
  /\ losses < MaxLosses /\ losses' = losses + 1
  /\ home' = homeFile /\ forgot' = forgot \cup (ToSet(home.msgs) \ ToSet(homeFile.msgs))
  /\ link' = IF link.at = "up" THEN [link EXCEPT !.at = "cut", !.in = <<>>] ELSE link
  /\ UNCHANGED <<boxVars, homeFile, sent, taken>>

\* The operator removes a stranger, which makes room.
Removes(s) ==
  /\ LET theirs == {Text(i) : i \in {x \in Ids : From(x) = s}} IN
     /\ home' = [msgs |-> Only(home.msgs, Texts \ theirs),
                 strangers |-> home.strangers \ {s}]
     /\ forgot' = forgot \cup (theirs \cap ToSet(home.msgs))
  /\ UNCHANGED <<boxVars, link, homeFile, sent, losses, taken>>

Next ==
  \/ LinkUp \/ Poke \/ LinkLost \/ Drained \/ TakesFrame
  \/ \E i \in Ids : Deposits(i)
  \/ \E s \in home.strangers : Removes(s)
  \/ MailboxSaves \/ MailboxKilled
  \/ TakesItems \/ Saves \/ Killed

\* Timers fire and both ends read what arrives.  (The bound: losses come to an end.)
Goes == LinkUp \/ Poke \/ Drained \/ TakesFrame \/ TakesItems \/ (link.at = "cut" /\ LinkLost)
Fairness == WF_vars(Goes)
Spec == Init /\ [][Next]_vars /\ Fairness

-----------------------------------------------------------------------------
(* Properties.                                                             *)

\* Mail that left the mailbox is in the history, unless the operator removed it, or
\* a kill took it before it was saved.
TakenIsKept ==
  \A i \in taken : Text(i) \in ToSet(home.msgs) \cup forgot

\* A message is in the history once, however often it was left, sent or asked for.
KeptOnce == \A i, j \in DOMAIN home.msgs : home.msgs[i] = home.msgs[j] => i = j
NoneLost == TakenIsKept /\ KeptOnce

\* The oldest page is all from strangers there is no room for.
Jammed == Len(Mail) >= PAGE /\ \A k \in 1..PAGE : Refuses(home, Mail[k])

\* Mail from a contact of the operator's is collected in the end, unless strangers
\* there is no room for fill a whole page.
Collected ==
  Fairness =>
    \A i \in Ids : From(i) \in Known /\ Contains(Mail, i) ~> ~Contains(Mail, i) \/ Jammed
=============================================================================
