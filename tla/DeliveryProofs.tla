--------------------------- MODULE DeliveryProofs ---------------------------
(***************************************************************************)
(* Proofs about Delivery, for any messages, any number of links and any    *)
(* number of restarts: its invariants, and that it implements Courier.     *)
(***************************************************************************)
EXTENDS Delivery, TLAPS

Table == [Msgs -> Record]

-----------------------------------------------------------------------------
(* The queue's operations keep records and sessions what they are.         *)

LEMMA Flags == \A p \in Plan : p.vault \in BOOLEAN /\ p.oldest \in 0..2
  BY DEF Plan

LEMMA RecordOps ==
  ASSUME NEW r \in Record, NEW m \in Msgs, NEW why \in {"cancelled", "gaveup", "self"}
  PROVE  /\ Failed(r, why) \in Record
         /\ Acknowledged(r) \in Record
         /\ Deferred(r, m) \in Record
         /\ NoRecord \in Record
         /\ \A v \in BOOLEAN : [r EXCEPT !.due = v] \in Record /\ [r EXCEPT !.tried = v] \in Record
         /\ \A s \in States : [r EXCEPT !.st = s] \in Record
<1>1. Failed(r, why) \in Record
  BY DEF Failed, Record, States
<1>2. Acknowledged(r) \in Record
  BY DEF Acknowledged, Record, States
<1>3. Deferred(r, m) \in Record
  BY DEF Deferred, PastLimit, Failed, Record, States
<1>4. QED
  BY <1>1, <1>2, <1>3 DEF NoRecord, Record, States

LEMMA Settles ==
  ASSUME NEW r \in Record, NEW why \in {"cancelled", "gaveup", "self"}
  PROVE  /\ Failed(r, why).st = "failed" /\ Failed(r, why).why = why
         /\ Acknowledged(r).st = "delivered"
         /\ Failed(r, why).held = r.held /\ Acknowledged(r).held = r.held
<1>1. Failed(r, why).st = "failed" /\ Failed(r, why).why = why /\ Failed(r, why).held = r.held
  BY DEF Failed, Record
<1>2. Acknowledged(r).st = "delivered" /\ Acknowledged(r).held = r.held
  BY DEF Acknowledged, Record
<1>3. QED
  BY <1>1, <1>2

LEMMA TableOps ==
  ASSUME NEW t \in Table, NEW S
  PROVE  /\ DueNow(t) \in Table
         /\ DeferAll(t, S) \in Table
         /\ Sending(t, S) \in Table
         /\ Reboot(t) \in Table
<1>1. \A m \in Msgs : t[m] \in Record
  BY DEF Table
<1>2. DueNow(t) \in Table
  BY <1>1, RecordOps DEF DueNow, Table
<1>3. DeferAll(t, S) \in Table
  BY <1>1, RecordOps DEF DeferAll, Table
<1>4. Sending(t, S) \in Table
  BY <1>1, RecordOps DEF Sending, Table, States
<1>5. Reboot(t) \in Table
  BY <1>1 DEF Reboot, Table, Record, States
<1>6. QED
  BY <1>2, <1>3, <1>4, <1>5

LEMMA SessionOps ==
  ASSUME NEW s \in Session, NEW S \in SUBSET Msgs
  PROVE  /\ Carrying(s, S) \in Session
         /\ Carrying(s, S).acks = s.acks
         /\ Carrying(s, S).up = s.up
         /\ Carrying(s, S).unacked = s.unacked \cup S
         /\ NoSession \in Session
  BY DEF Carrying, Session, NoSession

LEMMA SessionSets ==
  ASSUME NEW s \in Session, NEW S \in SUBSET Msgs, NEW T \in SUBSET Msgs
  PROVE  /\ [s EXCEPT !.acks = S] \in Session
         /\ [s EXCEPT !.acks = S, !.unacked = T] \in Session
         /\ [s EXCEPT !.wire = S, !.acks = T] \in Session
         /\ [s EXCEPT !.peer = FALSE, !.wire = {}, !.acks = {}] \in Session
  BY DEF Session

LEMMA BindType ==
  ASSUME bound \in Links \cup {None}, NEW l \in Links
  PROVE  Bind(l) \in Links \cup {None} /\ Bind(l) # None /\ Unbind(l) \in Links \cup {None}
  BY NoneAssumption DEF Bind, Unbind
-----------------------------------------------------------------------------
(* Types.                                                                  *)

LEMMA RetryTickType ==
  ASSUME TypeOK, NEW t \in Table, NEW R, RetryTickOn(t, R)
  PROVE  msg' \in Table /\ outText' \subseteq Msgs /\ dialing' \in BOOLEAN
<1>1. \A m \in Msgs : t[m] \in Record
  BY DEF Table
<1>2. msg' \in Table
  BY <1>1, RecordOps DEF RetryTickOn, Table
<1>3. QED
  BY <1>2 DEF RetryTickOn, TypeOK

LEMMA OpenType ==
  ASSUME TypeOK, NEW l \in Links, NEW out \in BOOLEAN, NEW flush \in BOOLEAN, Open(l, out, flush)
  PROVE  msg' \in Table /\ link' \in [Links -> Session] /\ bound' \in Links \cup {None} /\ key' \in Keys
<1> DEFINE s == [NoSession EXCEPT !.up = "open", !.out = out, !.peer = TRUE]
           S == IF flush THEN FlushSet(msg, s, ReadableNow) ELSE {}
<1>1. s \in Session /\ S \in SUBSET Msgs
  BY DEF Session, NoSession, FlushSet, Queued
<1>2. Carrying(s, S) \in Session
  BY <1>1, SessionOps
<1>3. msg' = Sending(msg, S) /\ link' = [link EXCEPT ![l] = Carrying(s, S)]
  BY DEF Open
<1> HIDE DEF s, S
<1>4. msg' \in Table
  BY <1>3, TableOps DEF TypeOK, Table
<1>5. link' \in [Links -> Session]
  BY <1>2, <1>3 DEF TypeOK
<1>6. key' \in Keys
  BY DEF Open, TypeOK, Keys
<1>7. bound' \in Links \cup {None}
  BY BindType DEF Open, TypeOK
<1>8. QED
  BY <1>4, <1>5, <1>6, <1>7

LEMMA TypeStep == TypeOK /\ [Next]_vars => TypeOK'
<1> SUFFICES ASSUME TypeOK, [Next]_vars PROVE TypeOK'
  OBVIOUS
<1> USE DEF TypeOK, contactVars, boxVars, vaultVars, saveVars
<1>0. /\ \A m \in Msgs : msg[m] \in Record
      /\ \A l \in Links : link[l] \in Session
  OBVIOUS
<1>1. ASSUME NEW m \in Msgs, Send(m) PROVE TypeOK'
  <2> DEFINE t == [msg EXCEPT ![m] = [NoRecord EXCEPT !.st = "sending"]]
             S == FlushSet(t, link[bound], ReadableNow \cup {m})
  <2>1. t \in Table /\ S \in SUBSET Msgs
    BY DEF Table, Record, States, NoRecord, FlushSet, Queued
  <2>2. \/ /\ bound \in Links
           /\ msg' = Sending(t, S) /\ link' = [link EXCEPT ![bound] = Carrying(@, S)]
        \/ msg' = t /\ link' = link
    BY <1>1 DEF Send
  <2> HIDE DEF t, S
  <2>3. Sending(t, S) \in Table
    BY <2>1, TableOps
  <2>4. msg' \in [Msgs -> Record]
    BY <2>1, <2>2, <2>3 DEF Table
  <2>5. link' \in [Links -> Session]
    BY <2>1, <2>2, <1>0, SessionOps
  <2>6. QED
    BY <1>1, <2>4, <2>5 DEF Send
<1>2. ASSUME NEW m \in Msgs, Cancel(m) PROVE TypeOK'
  BY <1>2, <1>0, RecordOps DEF Cancel
<1>3. CASE RetryNow
  BY <1>3, TableOps DEF RetryNow, Table
<1>4. CASE AcceptKey
  BY <1>4, TableOps, RetryTickType DEF AcceptKey, Table, Keys
<1>5. CASE DismissKey
  BY <1>5 DEF DismissKey, Keys
<1>6. CASE Unlock
  BY <1>6, RetryTickType DEF Unlock, Table
<1>7. CASE Lock
  BY <1>7 DEF Lock
<1>8. CASE RetryTick
  BY <1>8, RetryTickType DEF RetryTick, Table
<1>9. CASE DialForOther
  BY <1>9 DEF DialForOther
<1>10. ASSUME NEW m \in Msgs, ComesDue(m) PROVE TypeOK'
  BY <1>10, <1>0, RecordOps DEF ComesDue
<1>11. ASSUME NEW m \in Msgs, Ages(m) PROVE TypeOK'
  BY <1>11, Flags DEF Ages
<1>12. ASSUME NEW m \in Msgs, MayDepositAgain(m) PROVE TypeOK'
  BY <1>12, <1>0, RecordOps DEF MayDepositAgain
<1>13. ASSUME NEW l \in Links, DialOk(l) PROVE TypeOK'
  <2>1. Open(l, TRUE, TRUE)
    BY <1>13 DEF DialOk
  <2>2. QED
    BY <1>13, <2>1, OpenType DEF DialOk, Open, Table
<1>14. ASSUME NEW l \in Links, LinkIn(l) PROVE TypeOK'
  <2>1. Open(l, FALSE, FALSE)
    BY <1>14 DEF LinkIn
  <2>2. QED
    BY <1>14, <2>1, OpenType DEF LinkIn, Open, Table
<1>15. ASSUME NEW l \in Links, HelloIn(l) PROVE TypeOK'
  <2> DEFINE S == FlushSet(msg, link[l], ReadableNow)
  <2>1. S \in SUBSET Msgs
    BY DEF FlushSet, Queued
  <2>2. QED
    BY <1>15, <1>0, <2>1, TableOps, SessionOps DEF HelloIn, Table
<1>16. ASSUME NEW l \in Links, PeerWrites(l) PROVE TypeOK'
  BY <1>16 DEF PeerWrites
<1>17. ASSUME NEW l \in Links, LinkClose(l) PROVE TypeOK'
  BY <1>17 DEF LinkClose, Session
<1>18. ASSUME NEW l \in Links, SockClosed(l) PROVE TypeOK'
  <2>1. link' \in [Links -> Session] /\ late' \subseteq Msgs
    BY <1>18, <1>0 DEF SockClosed, Session, NoSession
  <2>2. msg' \in [Msgs -> Record]
    BY <1>18, TableOps DEF SockClosed, Table
  <2>3. QED
    BY <1>18, <2>1, <2>2, BindType DEF SockClosed, KeepText
<1>19. ASSUME NEW l \in Links, NEW m \in Msgs, AckIn(l, m) PROVE TypeOK'
  <2>1. link' \in [Links -> Session]
    <3>1. link' = [link EXCEPT ![l] = [link[l] EXCEPT !.acks = @ \ {m}, !.unacked = @ \ {m}]]
      BY <1>19 DEF AckIn
    <3>2. link[l].acks \ {m} \in SUBSET Msgs /\ link[l].unacked \ {m} \in SUBSET Msgs
      BY <1>0 DEF Session
    <3>3. QED
      BY <3>1, <3>2, <1>0, SessionSets
  <2>2. msg' \in [Msgs -> Record]
    BY <1>19, <1>0, RecordOps DEF AckIn
  <2>3. QED
    BY <1>19, <2>1, <2>2 DEF AckIn
<1>20. ASSUME NEW l \in Links, NEW m \in Msgs, Receive(l, m) PROVE TypeOK'
  <2>1. link' = [link EXCEPT ![l] = [link[l] EXCEPT !.wire = @ \ {m}, !.acks = @ \cup {m}]]
    BY <1>20 DEF Receive
  <2>2. link[l].wire \ {m} \in SUBSET Msgs /\ link[l].acks \cup {m} \in SUBSET Msgs
    BY <1>0 DEF Session
  <2>3. link' \in [Links -> Session]
    BY <2>1, <2>2, <1>0, SessionSets
  <2>4. QED
    BY <1>20, <2>3 DEF Receive, Stores
<1>21. ASSUME NEW err \in Errors, DialFail(err) PROVE TypeOK'
  <2>1. msg' \in [Msgs -> Record]
    <3> DEFINE tried == {m \in Queued(msg) : err = "self" \/ msg[m].st = "sending" \/ msg[m].due}
               after == IF err = "self"
                        THEN [m \in Msgs |-> IF m \in tried THEN Failed(msg[m], "self") ELSE msg[m]]
                        ELSE DeferAll(msg, tried)
    <3>1. after \in Table
      BY <1>0, RecordOps, TableOps DEF Table
    <3>2. \A m \in Msgs : after[m] \in Record /\ [after[m] EXCEPT !.tried = TRUE] \in Record
      BY <3>1, RecordOps DEF Table
    <3>3. QED
      BY <1>21, <3>2 DEF DialFail
  <2>2. outText' \subseteq Msgs /\ key' \in Keys /\ deposit' \in [Msgs -> {"none", "put", "ok"}]
    BY <1>21 DEF DialFail, KeepText, Keys
  <2>3. QED
    BY <1>21, <2>1, <2>2 DEF DialFail
<1>22. CASE WrongKeyIn
  BY <1>22 DEF WrongKeyIn, Keys
<1>23. ASSUME NEW m \in Msgs, ReceiveLate(m) PROVE TypeOK'
  BY <1>23 DEF ReceiveLate, Stores
<1>24. ASSUME NEW m \in Msgs, MailStored(m) \/ DepositLost(m) \/ MailExpires(m) PROVE TypeOK'
  BY <1>24 DEF MailStored, DepositLost, MailExpires
<1>25. ASSUME NEW m \in Msgs, DepositOk(m) PROVE TypeOK'
  <2>1. HeldNow(m) = [msg EXCEPT ![m] = [msg[m] EXCEPT !.st = "held", !.held = TRUE, !.why = "-"]]
    BY DEF HeldNow
  <2>2. [msg[m] EXCEPT !.st = "held", !.held = TRUE, !.why = "-"] \in Record
    <3> DEFINE r == [msg[m] EXCEPT !.st = "held"]
               q == [r EXCEPT !.held = TRUE]
    <3>1. r \in Record
      BY <1>0, RecordOps DEF States
    <3>2. q \in Record
      BY <3>1 DEF Record
    <3>3. [q EXCEPT !.why = "-"] \in Record
      BY <3>2 DEF Record
    <3>4. QED
      BY <3>3
  <2>3. HeldNow(m) \in [Msgs -> Record]
    BY <2>1, <2>2
  <2>4. QED
    BY <1>25, <2>3 DEF DepositOk
<1>26. ASSUME NEW m \in Msgs, Collect(m) PROVE TypeOK'
  <2>1. link' \in [Links -> Session]
    BY <1>26, <1>0 DEF Collect, Session
  <2>2. QED
    BY <1>26, <2>1 DEF Collect, Stores
<1>27. ASSUME NEW m \in Msgs, ReceiptIn(m) PROVE TypeOK'
  BY <1>27, <1>0, RecordOps DEF ReceiptIn
<1>28. CASE Save
  BY <1>28 DEF Save
<1>29. CASE Crash
  <2>1. msg' \in [Msgs -> Record]
    BY <1>29, TableOps DEF Crash, Table
  <2>2. link' \in [Links -> Session] /\ late' \subseteq Msgs
    BY <1>29, <1>0 DEF Crash, Session, NoSession
  <2>3. est' \in BOOLEAN /\ key' \in Keys /\ locked' \in BOOLEAN
    BY <1>29, Flags DEF Crash
  <2>4. env' \in [sender : Nat, contact : Nat, plan : Plan]
    BY <1>29 DEF Crash
  <2>5. deposit' \in [Msgs -> {"none", "put", "ok"}] /\ box' \subseteq Msgs
    BY <1>29 DEF Crash
  <2>6. QED
    BY <1>29, <2>1, <2>2, <2>3, <2>4, <2>5 DEF Crash
<1>30. CASE ContactSaves
  BY <1>30 DEF ContactSaves
<1>31. CASE ContactCrash
  <2>1. link' \in [Links -> Session]
    BY <1>31, <1>0, SessionSets DEF ContactCrash
  <2>2. env' \in [sender : Nat, contact : Nat, plan : Plan]
    <3>1. env' = [env EXCEPT !.contact = env.contact + 1]
      BY <1>31 DEF ContactCrash
    <3>2. env.contact + 1 \in Nat
      OBVIOUS
    <3>3. QED
      BY <3>1, <3>2
  <2>3. QED
    BY <1>31, <2>1, <2>2 DEF ContactCrash
<1>32. CASE UNCHANGED vars
  BY <1>32 DEF vars
<1>33. QED
  BY <1>1, <1>2, <1>3, <1>4, <1>5, <1>6, <1>7, <1>8, <1>9, <1>10, <1>11, <1>12, <1>13,
     <1>14, <1>15, <1>16, <1>17, <1>18, <1>19, <1>20, <1>21, <1>22, <1>23, <1>24, <1>25,
     <1>26, <1>27, <1>28, <1>29, <1>30, <1>31, <1>32
     DEF Next, Operator, Timers, Network, Mail, Faults

LEMMA TypeInit == Init => TypeOK
<1> SUFFICES ASSUME Init PROVE TypeOK
  OBVIOUS
<1>1. NoRecord \in Record /\ NoSession \in Session
  BY DEF NoRecord, Record, States, NoSession, Session
<1>2. msg \in [Msgs -> Record] /\ link \in [Links -> Session]
  BY <1>1 DEF Init
<1>3. key \in Keys /\ disk \in [msg : [Msgs -> Record], est : BOOLEAN, key : Keys]
  BY <1>2 DEF Init, Keys
<1>4. est \in BOOLEAN /\ locked \in BOOLEAN /\ dialing \in BOOLEAN /\ dirty \in BOOLEAN
  <2>1. env.plan \in Plan
    BY PlansAssumption DEF Init
  <2>2. QED
    BY <2>1, Flags DEF Init
<1>5. /\ age \in [Msgs -> 0..2] /\ deposit \in [Msgs -> {"none", "put", "ok"}]
      /\ env \in [sender : Nat, contact : Nat, plan : Plan] /\ bound \in Links \cup {None}
  BY PlansAssumption DEF Init
<1>6. /\ outText = {} /\ asked = {} /\ got = {} /\ gotDisk = {} /\ everGot = {} /\ late = {}
      /\ box = {} /\ receipts = {} /\ expired = {}
  BY DEF Init
<1>7. QED
  BY <1>2, <1>3, <1>4, <1>5, <1>6 DEF TypeOK

\* Every variable of the delivery engine keeps its type, in every reachable state.
THEOREM TypeCorrect == Spec => []TypeOK
<1>1. QED
  BY TypeInit, TypeStep, PTL DEF Spec

-----------------------------------------------------------------------------
(* "Delivered" is never made up.  An acknowledgement is only believed from  *)
(* a link or a receipt, so these must only carry what the contact stored;   *)
(* and the save that a restart goes back to must not claim more.            *)

StoredFirst ==
  /\ \A m \in Msgs : msg[m].st = "delivered" => m \in everGot
  /\ \A m \in Msgs : disk.msg[m].st = "delivered" => m \in everGot
  /\ \A l \in Links : link[l].acks \subseteq everGot
  /\ receipts \subseteq everGot

\* None of the queue's operations but Acknowledged makes a message delivered.
LEMMA OnlyAcksDeliver ==
  ASSUME NEW t \in Table, NEW S, NEW m \in Msgs
  PROVE  /\ DueNow(t)[m].st = t[m].st
         /\ DeferAll(t, S)[m].st = "delivered" => t[m].st = "delivered"
         /\ Sending(t, S)[m].st = "delivered" => t[m].st = "delivered"
         /\ Reboot(t)[m].st = "delivered" => t[m].st = "delivered"
<1>1. t[m] \in Record
  BY DEF Table
<1>2. DueNow(t)[m].st = t[m].st
  BY <1>1 DEF DueNow, Record
<1>3. DeferAll(t, S)[m].st = "delivered" => t[m].st = "delivered"
  BY <1>1 DEF DeferAll, Deferred, Failed, Record
<1>4. Sending(t, S)[m].st = "delivered" => t[m].st = "delivered"
  BY <1>1 DEF Sending, Record
<1>5. Reboot(t)[m].st = "delivered" => t[m].st = "delivered"
  BY <1>1 DEF Reboot, Record
<1>6. QED
  BY <1>2, <1>3, <1>4, <1>5

LEMMA RetryTickDelivers ==
  ASSUME NEW t \in Table, NEW R, RetryTickOn(t, R), NEW m \in Msgs, msg'[m].st = "delivered"
  PROVE  t[m].st = "delivered"
  BY DEF RetryTickOn, Table, Failed, Record

LEMMA StoredFirstStep == TypeOK /\ StoredFirst /\ [Next]_vars => StoredFirst'
<1> SUFFICES ASSUME TypeOK, StoredFirst, [Next]_vars PROVE StoredFirst'
  OBVIOUS
<1> USE DEF StoredFirst, contactVars, boxVars, vaultVars, saveVars
<1>0. /\ msg \in Table /\ \A m \in Msgs : msg[m] \in Record
      /\ disk.msg \in Table
      /\ \A l \in Links : link[l] \in Session
  BY DEF TypeOK, Table
\* What most actions do: nothing new delivered, nothing new acknowledged.
<1>a. ASSUME \A m \in Msgs : msg'[m].st = "delivered" => msg[m].st = "delivered",
             \A l \in Links : link'[l].acks \subseteq link[l].acks,
             UNCHANGED <<disk, receipts, everGot>>
      PROVE  StoredFirst'
  BY <1>a
<1>1. ASSUME NEW m \in Msgs, Send(m) PROVE StoredFirst'
  <2> DEFINE t == [msg EXCEPT ![m] = [NoRecord EXCEPT !.st = "sending"]]
             S == FlushSet(t, link[bound], ReadableNow \cup {m})
  <2>1. t \in Table /\ S \in SUBSET Msgs /\ \A n \in Msgs : t[n].st = "delivered" => msg[n].st = "delivered"
    BY <1>0 DEF Table, Record, States, NoRecord, FlushSet, Queued
  <2>2. \/ /\ bound \in Links
           /\ msg' = Sending(t, S) /\ link' = [link EXCEPT ![bound] = Carrying(@, S)]
        \/ msg' = t /\ link' = link
    BY <1>1 DEF Send, TypeOK
  <2> HIDE DEF t, S
  <2>3. \A n \in Msgs : msg'[n].st = "delivered" => msg[n].st = "delivered"
    BY <2>1, <2>2, OnlyAcksDeliver
  <2>4. \A l \in Links : link'[l].acks = link[l].acks
    BY <2>1, <2>2, <1>0, SessionOps DEF TypeOK
  <2>5. QED
    BY <1>1, <1>a, <2>3, <2>4 DEF Send
<1>2. ASSUME NEW m \in Msgs, Cancel(m) PROVE StoredFirst'
  BY <1>2, <1>0 DEF Cancel, Failed, Record, TypeOK
<1>3. CASE RetryNow
  BY <1>3, <1>0, OnlyAcksDeliver DEF RetryNow
<1>4. CASE AcceptKey
  <2>1. \A m \in Msgs : msg'[m].st = "delivered" => msg[m].st = "delivered"
    BY <1>4, <1>0, TableOps, OnlyAcksDeliver, RetryTickDelivers DEF AcceptKey
  <2>2. QED
    BY <1>4, <2>1 DEF AcceptKey
<1>5. CASE Unlock \/ RetryTick
  <2>1. \A m \in Msgs : msg'[m].st = "delivered" => msg[m].st = "delivered"
    BY <1>5, <1>0, RetryTickDelivers DEF Unlock, RetryTick
  <2>2. QED
    BY <1>5, <2>1 DEF Unlock, RetryTick
<1>6. CASE DismissKey \/ Lock \/ DialForOther \/ WrongKeyIn \/ ContactSaves
  BY <1>6 DEF DismissKey, Lock, DialForOther, WrongKeyIn, ContactSaves
<1>7. ASSUME NEW m \in Msgs, ComesDue(m) \/ Ages(m) \/ MayDepositAgain(m) PROVE StoredFirst'
  <2>1. \A n \in Msgs : msg'[n].st = msg[n].st
    <3>1. CASE ComesDue(m)
      BY <3>1, <1>0 DEF ComesDue, Table, Record
    <3>2. CASE Ages(m)
      BY <3>2 DEF Ages
    <3>3. CASE MayDepositAgain(m)
      BY <3>3, <1>0 DEF MayDepositAgain, Table, Record
    <3>4. QED
      BY <1>7, <3>1, <3>2, <3>3
  <2>2. QED
    BY <1>7, <2>1 DEF ComesDue, Ages, MayDepositAgain
<1>8. ASSUME NEW l \in Links, NEW out \in BOOLEAN, NEW flush \in BOOLEAN, Open(l, out, flush)
      PROVE  StoredFirst'
  <2> DEFINE s == [NoSession EXCEPT !.up = "open", !.out = out, !.peer = TRUE]
             S == IF flush THEN FlushSet(msg, s, ReadableNow) ELSE {}
  <2>1. s \in Session /\ s.acks = {} /\ S \in SUBSET Msgs
    BY DEF Session, NoSession, FlushSet, Queued
  <2>2. msg' = Sending(msg, S) /\ link' = [link EXCEPT ![l] = Carrying(s, S)]
    BY <1>8 DEF Open
  <2> HIDE DEF s, S
  <2>3. \A k \in Links : link'[k].acks \subseteq link[k].acks
    BY <2>1, <2>2, SessionOps DEF TypeOK
  <2>4. \A m \in Msgs : msg'[m].st = "delivered" => msg[m].st = "delivered"
    BY <2>2, <1>0, OnlyAcksDeliver
  <2>5. QED
    BY <1>8, <1>a, <2>3, <2>4 DEF Open
<1>9. ASSUME NEW l \in Links, DialOk(l) \/ LinkIn(l) PROVE StoredFirst'
  BY <1>8, <1>9 DEF DialOk, LinkIn
<1>10. ASSUME NEW l \in Links, HelloIn(l) PROVE StoredFirst'
  <2> DEFINE S == FlushSet(msg, link[l], ReadableNow)
  <2>1. S \in SUBSET Msgs /\ msg' = Sending(msg, S) /\ link' = [link EXCEPT ![l] = Carrying(@, S)]
    BY <1>10 DEF HelloIn, FlushSet, Queued
  <2> HIDE DEF S
  <2>2. \A k \in Links : link'[k].acks = link[k].acks
    BY <2>1, <1>0, SessionOps DEF TypeOK
  <2>3. \A m \in Msgs : msg'[m].st = "delivered" => msg[m].st = "delivered"
    BY <2>1, <1>0, OnlyAcksDeliver
  <2>4. QED
    BY <1>10, <1>a, <2>2, <2>3 DEF HelloIn
<1>11. ASSUME NEW l \in Links, PeerWrites(l) \/ LinkClose(l) PROVE StoredFirst'
  BY <1>11, <1>0 DEF PeerWrites, LinkClose, Session, TypeOK
<1>12. ASSUME NEW l \in Links, SockClosed(l) PROVE StoredFirst'
  <2>1. \A k \in Links : link'[k].acks \subseteq link[k].acks
    BY <1>12, <1>0 DEF SockClosed, NoSession, TypeOK
  <2>2. \A m \in Msgs : msg'[m].st = "delivered" => msg[m].st = "delivered"
    BY <1>12, <1>0, OnlyAcksDeliver DEF SockClosed
  <2>3. QED
    BY <1>12, <2>1, <2>2 DEF SockClosed
\* The acknowledgement was in acks, or in receipts, so the message is stored.
<1>13. ASSUME NEW l \in Links, NEW m \in Msgs, AckIn(l, m) PROVE StoredFirst'
  <2>1. m \in everGot
    BY <1>13 DEF AckIn
  <2>2. \A n \in Msgs : msg'[n].st = "delivered" => msg[n].st = "delivered" \/ n = m
    BY <1>13, <1>0 DEF AckIn, TypeOK
  <2>3. \A k \in Links : link'[k].acks \subseteq link[k].acks
    BY <1>13, <1>0 DEF AckIn, TypeOK, Session
  <2>4. QED
    BY <1>13, <2>1, <2>2, <2>3 DEF AckIn
<1>14. ASSUME NEW m \in Msgs, ReceiptIn(m) PROVE StoredFirst'
  <2>1. m \in everGot
    BY <1>14 DEF ReceiptIn
  <2>2. \A n \in Msgs : msg'[n].st = "delivered" => msg[n].st = "delivered" \/ n = m
    BY <1>14, <1>0 DEF ReceiptIn, TypeOK
  <2>3. QED
    BY <1>14, <2>1, <2>2 DEF ReceiptIn
<1>15. ASSUME NEW l \in Links, NEW m \in Msgs, Receive(l, m) PROVE StoredFirst'
  <2>1. \A k \in Links : link'[k].acks \subseteq link[k].acks \cup {m}
    BY <1>15, <1>0 DEF Receive, TypeOK, Session
  <2>2. QED
    BY <1>15, <2>1 DEF Receive, Stores
<1>16. ASSUME NEW m \in Msgs, ReceiveLate(m) PROVE StoredFirst'
  BY <1>16 DEF ReceiveLate, Stores
<1>17. ASSUME NEW m \in Msgs, Collect(m) PROVE StoredFirst'
  <2>1. \A k \in Links : link'[k].acks \subseteq link[k].acks \cup {m}
    BY <1>17, <1>0 DEF Collect, TypeOK, Session
  <2>2. QED
    BY <1>17, <2>1 DEF Collect, Stores
<1>18. ASSUME NEW err \in Errors, DialFail(err) PROVE StoredFirst'
  <2> DEFINE tried == {m \in Queued(msg) : err = "self" \/ msg[m].st = "sending" \/ msg[m].due}
             after == IF err = "self"
                      THEN [m \in Msgs |-> IF m \in tried THEN Failed(msg[m], "self") ELSE msg[m]]
                      ELSE DeferAll(msg, tried)
  <2>1. after \in Table
    BY <1>0, RecordOps, TableOps DEF Table
  <2>2. \A m \in Msgs : after[m].st = "delivered" => msg[m].st = "delivered"
    BY <1>0, OnlyAcksDeliver DEF Failed, Record
  <2>3. \A m \in Msgs : msg'[m] \in {after[m], [after[m] EXCEPT !.tried = TRUE]}
    BY <1>18 DEF DialFail
  <2> HIDE DEF tried, after
  <2>4. \A m \in Msgs : msg'[m].st = after[m].st
    BY <2>1, <2>3 DEF Table, Record
  <2>5. QED
    BY <1>18, <2>2, <2>4 DEF DialFail
<1>19. ASSUME NEW m \in Msgs, MailStored(m) \/ DepositLost(m) \/ MailExpires(m) PROVE StoredFirst'
  BY <1>19 DEF MailStored, DepositLost, MailExpires
<1>20. ASSUME NEW m \in Msgs, DepositOk(m) PROVE StoredFirst'
  BY <1>20, <1>0 DEF DepositOk, HeldNow, TypeOK, Record
<1>21. CASE Save
  BY <1>21 DEF Save
<1>22. CASE Crash
  <2>1. \A m \in Msgs : msg'[m].st = "delivered" => disk.msg[m].st = "delivered"
    BY <1>22, <1>0, OnlyAcksDeliver DEF Crash
  <2>2. \A l \in Links : link'[l].acks = {}
    BY <1>22 DEF Crash, NoSession
  <2>3. QED
    BY <1>22, <2>1, <2>2 DEF Crash
<1>23. CASE ContactCrash
  <2>1. \A l \in Links : link'[l].acks = {}
    BY <1>23, <1>0 DEF ContactCrash, Session
  <2>2. QED
    BY <1>23, <2>1 DEF ContactCrash
<1>24. CASE UNCHANGED vars
  BY <1>24 DEF vars
<1>25. QED
  BY <1>1, <1>2, <1>3, <1>4, <1>5, <1>6, <1>7, <1>9, <1>10, <1>11, <1>12, <1>13, <1>14, <1>15,
     <1>16, <1>17, <1>18, <1>19, <1>20, <1>21, <1>22, <1>23, <1>24
     DEF Next, Operator, Timers, Network, Mail, Faults

\* A message the operator is told was delivered has been in the contact's
\* history, for any messages, links and restarts of either daemon.
THEOREM DeliveredWasStoredTheorem == Spec => []DeliveredWasStored
<1>1. Init => StoredFirst
  BY DEF Init, StoredFirst, NoRecord, NoSession
<1>2. StoredFirst => DeliveredWasStored
  BY DEF StoredFirst, DeliveredWasStored
<1>3. QED
  BY <1>1, <1>2, TypeCorrect, StoredFirstStep, PTL DEF Spec
-----------------------------------------------------------------------------
(* None is left "sending" with nobody sending it.                           *)

\* On a session that is not over, or up to the next retry.
Covered(m) ==
  \/ msg[m].due /\ ~msg[m].gaveUp
  \/ \E l \in Links : link[l].up # "free" /\ m \in link[l].unacked

\* Which of the queue's operations leave a record "sending", and how.
LEMMA StaysSending ==
  ASSUME NEW t \in Table, NEW S, NEW m \in Msgs
  PROVE  /\ DueNow(t)[m].st = "sending" =>
              t[m].st = "sending" /\ DueNow(t)[m].due /\ DueNow(t)[m].gaveUp = t[m].gaveUp
         /\ DeferAll(t, S)[m].st = "sending" => m \notin S /\ DeferAll(t, S)[m] = t[m]
         /\ Sending(t, S)[m].st = "sending" => m \in S \/ Sending(t, S)[m] = t[m]
         /\ Reboot(t)[m].st # "sending"
<1>1. t[m] \in Record
  BY DEF Table
<1>2. DueNow(t)[m].st = "sending" =>
         t[m].st = "sending" /\ DueNow(t)[m].due /\ DueNow(t)[m].gaveUp = t[m].gaveUp
  BY <1>1 DEF DueNow, Record, Deliverable
<1>3. DeferAll(t, S)[m].st = "sending" => m \notin S /\ DeferAll(t, S)[m] = t[m]
  BY <1>1 DEF DeferAll, Deferred, Failed, Record
<1>4. Sending(t, S)[m].st = "sending" => m \in S \/ Sending(t, S)[m] = t[m]
  BY <1>1 DEF Sending
<1>5. Reboot(t)[m].st # "sending"
  BY <1>1 DEF Reboot, Record
<1>6. QED
  BY <1>2, <1>3, <1>4, <1>5

LEMMA RetryTickSends ==
  ASSUME NEW t \in Table, NEW R, RetryTickOn(t, R), NEW m \in Msgs, msg'[m].st = "sending"
  PROVE  msg'[m] = t[m]
  BY DEF RetryTickOn, Table, Failed, Record

\* A session that flushes keeps what it carried, and carries what is flushed.
LEMMA Carries ==
  ASSUME TypeOK, SendingIsCarried, NEW k \in Links, NEW S \in SUBSET Msgs, NEW s \in Session,
         s.up # "free", link[k].up # "free" => link[k].unacked \subseteq s.unacked,
         NEW t \in Table, msg' = Sending(t, S), link' = [link EXCEPT ![k] = Carrying(s, S)],
         NEW m \in Msgs, msg'[m].st = "sending", m \notin S => Covered(m) /\ t[m] = msg[m]
  PROVE  Covered(m)'
<1>1. link'[k].up # "free" /\ s.unacked \cup S = link'[k].unacked
  BY SessionOps DEF TypeOK
<1>2. \A l \in Links \ {k} : link'[l] = link[l]
  BY DEF TypeOK
<1>3. CASE m \in S
  BY <1>1, <1>3 DEF Covered
<1>4. CASE m \notin S
  <2>1. msg'[m] = msg[m]
    BY <1>4, StaysSending
  <2>2. CASE \E l \in Links : link[l].up # "free" /\ m \in link[l].unacked
    <3>1. PICK l \in Links : link[l].up # "free" /\ m \in link[l].unacked
      BY <2>2
    <3>2. link'[l].up # "free" /\ m \in link'[l].unacked
      BY <1>1, <1>2, <3>1
    <3>3. QED
      BY <3>2 DEF Covered
  <2>3. QED
    BY <1>4, <2>1, <2>2 DEF Covered
<1>5. QED
  BY <1>3, <1>4

LEMMA CarriedStep == TypeOK /\ TypeOK' /\ SendingIsCarried /\ [Next]_vars => SendingIsCarried'
<1> SUFFICES ASSUME TypeOK, TypeOK', SendingIsCarried, [Next]_vars PROVE SendingIsCarried'
  OBVIOUS
<1> USE DEF contactVars, boxVars, vaultVars, saveVars
<1>0. /\ msg \in Table /\ \A m \in Msgs : msg[m] \in Record
      /\ \A l \in Links : link[l] \in Session
      /\ \A m \in Msgs : msg[m].st = "sending" => Covered(m)
      /\ bound # None => bound \in Links /\ link[bound].up # "free"
  BY DEF TypeOK, Table, SendingIsCarried, Covered
\* What most actions do: no message newly "sending", no session lost.
<1>a. ASSUME \A m \in Msgs : msg'[m].st = "sending" =>
               /\ msg[m].st = "sending" /\ msg'[m].gaveUp = msg[m].gaveUp
               /\ msg[m].due => msg'[m].due,
             \A l \in Links : link[l].up # "free" =>
               link'[l].up # "free" /\ \A m \in Msgs : m \in link[l].unacked =>
                                        m \in link'[l].unacked \/ msg'[m].st # "sending",
             bound' = bound
      PROVE  SendingIsCarried'
  <2>1. ASSUME NEW m \in Msgs, msg'[m].st = "sending" PROVE Covered(m)'
    <3>1. Covered(m) /\ msg'[m].gaveUp = msg[m].gaveUp /\ (msg[m].due => msg'[m].due)
      BY <1>0, <1>a, <2>1
    <3>2. CASE \E l \in Links : link[l].up # "free" /\ m \in link[l].unacked
      BY <1>a, <2>1, <3>2 DEF Covered
    <3>3. QED
      BY <3>1, <3>2 DEF Covered
  <2>2. QED
    BY <1>0, <1>a, <2>1 DEF SendingIsCarried, Covered
<1>1. ASSUME NEW m \in Msgs, Send(m) PROVE SendingIsCarried'
  <2> DEFINE t == [msg EXCEPT ![m] = [NoRecord EXCEPT !.st = "sending"]]
             S == FlushSet(t, link[bound], ReadableNow \cup {m})
  <2>1. /\ t \in Table /\ S \in SUBSET Msgs
        /\ t[m].due /\ ~t[m].gaveUp /\ \A n \in Msgs \ {m} : t[n] = msg[n]
    BY <1>0 DEF Table, Record, States, NoRecord, FlushSet, Queued
  <2>2. bound' = bound /\ (bound # None => bound \in Links)
    BY <1>1, <1>0 DEF Send
  <2>3. CASE bound # None /\ link[bound].up = "open"
    <3>1. msg' = Sending(t, S) /\ link' = [link EXCEPT ![bound] = Carrying(link[bound], S)]
      BY <1>1, <2>3 DEF Send
    <3>2. link'[bound].up = link[bound].up /\ S \subseteq link'[bound].unacked
          /\ link[bound].unacked \subseteq link'[bound].unacked
          /\ \A l \in Links \ {bound} : link'[l] = link[l]
      <4>1. link[bound] \in Session /\ bound \in Links /\ DOMAIN link = Links
        BY <1>0, <2>2, <2>3 DEF TypeOK
      <4>2. link'[bound] = Carrying(link[bound], S) /\ \A l \in Links \ {bound} : link'[l] = link[l]
        BY <3>1, <4>1
      <4> HIDE DEF t, S
      <4>3. QED
        BY <4>1, <4>2, <2>1, SessionOps
    <3> HIDE DEF t, S
    <3>3. ASSUME NEW n \in Msgs, msg'[n].st = "sending" PROVE Covered(n)'
      <4>1. CASE n \in S
        BY <4>1, <3>2, <2>2, <2>3 DEF Covered
      <4>2. CASE n \notin S
        <5>1. msg'[n] = t[n]
          BY <4>2, <3>1, <3>3, <2>1, StaysSending
        <5>2. CASE n = m
          BY <5>1, <5>2, <2>1 DEF Covered
        <5>3. CASE n # m
          <6>1. Covered(n) /\ msg'[n] = msg[n]
            BY <5>1, <5>3, <2>1, <1>0, <3>3
          <6>2. QED
            BY <6>1, <3>2, <2>2, <2>3 DEF Covered
        <5>4. QED
          BY <5>2, <5>3
      <4>3. QED
        BY <4>1, <4>2
    <3>4. QED
      BY <3>2, <3>3, <2>2, <2>3 DEF SendingIsCarried, Covered
  <2>4. CASE ~(bound # None /\ link[bound].up = "open")
    <3>1. msg' = t /\ link' = link
      BY <1>1, <2>4 DEF Send
    <3> HIDE DEF t, S
    <3>2. QED
      BY <3>1, <2>1, <2>2, <1>0 DEF SendingIsCarried, Covered
  <2>5. QED
    BY <2>3, <2>4
<1>2. ASSUME NEW m \in Msgs, Cancel(m) PROVE SendingIsCarried'
  <2>1. \A n \in Msgs : msg'[n].st = "sending" => msg'[n] = msg[n]
    BY <1>2, <1>0 DEF Cancel, Failed, Record, TypeOK
  <2>2. QED
    BY <1>2, <1>a, <2>1 DEF Cancel
<1>3. CASE RetryNow
  BY <1>3, <1>0, <1>a, StaysSending DEF RetryNow
<1>4. CASE AcceptKey
  <2>1. \A m \in Msgs : msg'[m].st = "sending" =>
           msg[m].st = "sending" /\ msg'[m].due /\ msg'[m].gaveUp = msg[m].gaveUp
    BY <1>4, <1>0, TableOps, StaysSending, RetryTickSends DEF AcceptKey
  <2>2. QED
    BY <1>4, <1>a, <2>1 DEF AcceptKey
<1>5. CASE Unlock \/ RetryTick
  <2>1. \A m \in Msgs : msg'[m].st = "sending" => msg'[m] = msg[m]
    BY <1>5, <1>0, RetryTickSends DEF Unlock, RetryTick
  <2>2. link' = link /\ bound' = bound
    BY <1>5 DEF Unlock, RetryTick
  <2>3. QED
    BY <1>a, <2>1, <2>2
<1>6. CASE DismissKey \/ Lock \/ DialForOther \/ WrongKeyIn \/ ContactSaves \/ Save
  <2>1. msg' = msg /\ link' = link /\ bound' = bound
    BY <1>6 DEF DismissKey, Lock, DialForOther, WrongKeyIn, ContactSaves, Save
  <2>2. QED
    BY <1>a, <2>1
<1>7. ASSUME NEW m \in Msgs, ComesDue(m) \/ Ages(m) \/ MayDepositAgain(m) PROVE SendingIsCarried'
  <2>1. \A n \in Msgs : /\ msg'[n].st = msg[n].st /\ msg'[n].gaveUp = msg[n].gaveUp
                        /\ msg[n].due => msg'[n].due
    <3>1. CASE ComesDue(m)
      BY <3>1, <1>0 DEF ComesDue, Table, Record
    <3>2. CASE Ages(m)
      BY <3>2 DEF Ages
    <3>3. CASE MayDepositAgain(m)
      BY <3>3, <1>0 DEF MayDepositAgain, Table, Record
    <3>4. QED
      BY <1>7, <3>1, <3>2, <3>3
  <2>2. link' = link /\ bound' = bound
    BY <1>7 DEF ComesDue, Ages, MayDepositAgain
  <2>3. QED
    BY <1>a, <2>1, <2>2
\* A new session takes a free name, so it covers what it flushes and nothing is uncovered.
<1>8. ASSUME NEW l \in Links, NEW out \in BOOLEAN, NEW flush \in BOOLEAN, Open(l, out, flush)
      PROVE  SendingIsCarried'
  <2> DEFINE s == [NoSession EXCEPT !.up = "open", !.out = out, !.peer = TRUE]
             S == IF flush THEN FlushSet(msg, s, ReadableNow) ELSE {}
  <2>1. s \in Session /\ s.up = "open" /\ S \in SUBSET Msgs
    BY DEF Session, NoSession, FlushSet, Queued
  <2>2. link[l].up = "free" /\ msg' = Sending(msg, S) /\ link' = [link EXCEPT ![l] = Carrying(s, S)]
    BY <1>8 DEF Open
  <2> HIDE DEF s, S
  <2>3. ASSUME NEW m \in Msgs, msg'[m].st = "sending" PROVE Covered(m)'
    <3>1. m \notin S => Covered(m) /\ msg[m] = msg[m]
      BY <2>2, <2>3, <1>0, StaysSending
    <3>2. link[l].up # "free" => link[l].unacked \subseteq s.unacked
      BY <2>2
    <3>3. QED
      BY <2>1, <2>2, <2>3, <3>1, <3>2, <1>0, Carries
  <2>4. link'[l].up = "open" /\ \A k \in Links \ {l} : link'[k] = link[k]
    BY <2>1, <2>2, SessionOps DEF TypeOK
  <2>5. bound' # None => bound' \in Links /\ link'[bound'].up # "free"
    BY <1>8, <2>2, <2>4, <1>0, NoneAssumption DEF Open, Bind
  <2>6. QED
    BY <2>3, <2>5 DEF SendingIsCarried, Covered
<1>9. ASSUME NEW l \in Links, DialOk(l) \/ LinkIn(l) PROVE SendingIsCarried'
  BY <1>8, <1>9 DEF DialOk, LinkIn
<1>10. ASSUME NEW l \in Links, HelloIn(l) PROVE SendingIsCarried'
  <2> DEFINE S == FlushSet(msg, link[l], ReadableNow)
  <2>1. S \in SUBSET Msgs /\ msg' = Sending(msg, S) /\ link' = [link EXCEPT ![l] = Carrying(link[l], S)]
        /\ bound' = bound /\ link[l].up # "free"
    BY <1>10 DEF HelloIn, FlushSet, Queued
  <2> HIDE DEF S
  <2>2. ASSUME NEW m \in Msgs, msg'[m].st = "sending" PROVE Covered(m)'
    <3>1. m \notin S => Covered(m) /\ msg[m] = msg[m]
      BY <2>1, <2>2, <1>0, StaysSending
    <3>2. QED
      BY <2>1, <2>2, <3>1, <1>0, Carries
  <2>3. \A k \in Links : link'[k].up = link[k].up
    BY <2>1, <1>0, SessionOps DEF TypeOK
  <2>4. QED
    BY <2>1, <2>2, <2>3, <1>0 DEF SendingIsCarried, Covered
<1>11. ASSUME NEW l \in Links, PeerWrites(l) \/ LinkClose(l) PROVE SendingIsCarried'
  <2>1. msg' = msg /\ bound' = bound
    BY <1>11 DEF PeerWrites, LinkClose
  <2>2. \A k \in Links : link[k].up # "free" => link'[k].up # "free" /\ link'[k].unacked = link[k].unacked
    BY <1>11, <1>0 DEF PeerWrites, LinkClose, TypeOK, Session
  <2>3. QED
    BY <1>a, <2>1, <2>2
\* What the lost session carried is deferred, and the map forgets it.
<1>12. ASSUME NEW l \in Links, SockClosed(l) PROVE SendingIsCarried'
  <2>1. ASSUME NEW m \in Msgs, msg'[m].st = "sending"
        PROVE  msg'[m] = msg[m] /\ m \notin link[l].unacked
    <3>1. msg' = DeferAll(msg, Unsure(l))
      BY <1>12 DEF SockClosed
    <3>2. m \notin Unsure(l) /\ msg'[m] = msg[m]
      BY <2>1, <3>1, <1>0, StaysSending
    <3>3. QED
      BY <3>2, <2>1 DEF Unsure
  <2>2. \A k \in Links \ {l} : link'[k] = link[k]
    BY <1>12 DEF SockClosed, TypeOK
  <2>3. \A m \in Msgs : msg'[m].st = "sending" => Covered(m)'
    BY <2>1, <2>2, <1>0 DEF Covered
  <2>4. bound' # None => bound' = bound /\ bound # l
    BY <1>12, NoneAssumption DEF SockClosed, Unbind
  <2>5. QED
    BY <2>2, <2>3, <2>4, <1>0 DEF SendingIsCarried, Covered
\* An acknowledged message leaves its session, and is not "sending" any more.
<1>13. ASSUME NEW l \in Links, NEW m \in Msgs, AckIn(l, m) PROVE SendingIsCarried'
  <2>1. ASSUME NEW n \in Msgs, msg'[n].st = "sending" PROVE msg'[n] = msg[n] /\ n # m
    <3>1. CASE msg[m].st \notin {"none", "delivered"}
      <4>1. msg' = [msg EXCEPT ![m] = Acknowledged(msg[m])]
        BY <1>13, <3>1 DEF AckIn
      <4>2. QED
        BY <4>1, <1>0, <2>1, Settles DEF TypeOK
    <3>2. CASE msg[m].st \in {"none", "delivered"}
      BY <1>13, <2>1, <3>2 DEF AckIn
    <3>3. QED
      BY <3>1, <3>2
  <2>2. \A k \in Links : link'[k].up = link[k].up /\ link[k].unacked \ {m} \subseteq link'[k].unacked
    BY <1>13, <1>0 DEF AckIn, TypeOK, Session
  <2>3. QED
    BY <1>13, <1>a, <2>1, <2>2 DEF AckIn
<1>14. ASSUME NEW m \in Msgs, ReceiptIn(m) \/ DepositOk(m) PROVE SendingIsCarried'
  <2>1. ASSUME NEW n \in Msgs, msg'[n].st = "sending" PROVE msg'[n] = msg[n]
    <3>1. CASE ReceiptIn(m)
      <4>1. msg' \in {msg, [msg EXCEPT ![m] = Acknowledged(msg[m])]}
        BY <3>1 DEF ReceiptIn
      <4>2. QED
        BY <4>1, <1>0, <2>1, Settles DEF TypeOK
    <3>2. CASE DepositOk(m)
      BY <1>0, <2>1, <3>2 DEF DepositOk, HeldNow, Record, TypeOK
    <3>3. QED
      BY <1>14, <3>1, <3>2
  <2>2. link' = link /\ bound' = bound
    BY <1>14 DEF ReceiptIn, DepositOk
  <2>3. QED
    BY <1>a, <2>1, <2>2
<1>15. ASSUME NEW m \in Msgs, Collect(m) \/ ReceiveLate(m) \/ \E l \in Links : Receive(l, m)
       PROVE  SendingIsCarried'
  <2>1. msg' = msg /\ bound' = bound
    BY <1>15 DEF Collect, ReceiveLate, Receive
  <2>2. \A k \in Links : link'[k].up = link[k].up /\ link'[k].unacked = link[k].unacked
    <3>1. CASE Collect(m)
      BY <3>1, <1>0 DEF Collect, TypeOK, Session
    <3>2. CASE ReceiveLate(m)
      BY <3>2 DEF ReceiveLate
    <3>3. ASSUME NEW l \in Links, Receive(l, m)
          PROVE  \A k \in Links : link'[k].up = link[k].up /\ link'[k].unacked = link[k].unacked
      BY <3>3, <1>0 DEF Receive, TypeOK, Session
    <3>4. QED
      BY <1>15, <3>1, <3>2, <3>3
  <2>3. QED
    BY <1>a, <2>1, <2>2
\* A failed dial defers all that was "sending".
<1>16. ASSUME NEW err \in Errors, DialFail(err) PROVE SendingIsCarried'
  <2> DEFINE tried == {m \in Queued(msg) : err = "self" \/ msg[m].st = "sending" \/ msg[m].due}
             after == IF err = "self"
                      THEN [m \in Msgs |-> IF m \in tried THEN Failed(msg[m], "self") ELSE msg[m]]
                      ELSE DeferAll(msg, tried)
  <2>1. \A m \in Msgs : msg[m].st = "sending" => m \in tried
    BY DEF Queued, Deliverable
  <2>2. after \in Table
    BY <1>0, RecordOps, TableOps DEF Table
  <2>3. \A m \in Msgs : msg'[m] \in {after[m], [after[m] EXCEPT !.tried = TRUE]}
    BY <1>16 DEF DialFail
  <2>4. \A m \in Msgs : after[m].st # "sending"
    <3> SUFFICES ASSUME NEW m \in Msgs PROVE after[m].st # "sending"
      OBVIOUS
    <3>1. CASE err = "self"
      BY <3>1, <2>1, <1>0 DEF Failed, Record
    <3>2. CASE err # "self"
      <4>1. after = DeferAll(msg, tried)
        BY <3>2
      <4> HIDE DEF tried, after
      <4>2. QED
        BY <4>1, <2>1, <1>0, StaysSending
    <3>3. QED
      BY <3>1, <3>2
  <2> HIDE DEF tried, after
  <2>5. \A m \in Msgs : msg'[m].st # "sending"
    BY <2>2, <2>3, <2>4 DEF Table, Record
  <2>6. link' = link /\ bound' = bound
    BY <1>16 DEF DialFail
  <2>7. QED
    BY <2>5, <2>6, <1>0 DEF SendingIsCarried
<1>17. ASSUME NEW m \in Msgs, MailStored(m) \/ DepositLost(m) \/ MailExpires(m) PROVE SendingIsCarried'
  <2>1. msg' = msg /\ link' = link /\ bound' = bound
    BY <1>17 DEF MailStored, DepositLost, MailExpires
  <2>2. QED
    BY <1>a, <2>1
<1>18. CASE Crash
  <2>1. \A m \in Msgs : msg'[m].st # "sending"
    BY <1>18, StaysSending DEF Crash, TypeOK, Table
  <2>2. QED
    BY <1>18, <2>1 DEF Crash, SendingIsCarried
<1>19. CASE ContactCrash
  <2>1. \A k \in Links : link'[k].up = link[k].up /\ link'[k].unacked = link[k].unacked
    BY <1>19, <1>0 DEF ContactCrash, Session
  <2>2. QED
    BY <1>19, <1>a, <2>1 DEF ContactCrash
<1>20. CASE UNCHANGED vars
  BY <1>20, <1>a DEF vars
<1>21. QED
  BY <1>1, <1>2, <1>3, <1>4, <1>5, <1>6, <1>7, <1>9, <1>10, <1>11, <1>12, <1>13, <1>14, <1>15,
     <1>16, <1>17, <1>18, <1>19, <1>20
     DEF Next, Operator, Timers, Network, Mail, Faults

\* A message shown as being sent is on a session that answers for it when it
\* closes, or the next retry takes it up; and the links map keeps no session whose
\* socket is gone, for any number of messages and links.
THEOREM SendingIsCarriedTheorem == Spec => []SendingIsCarried
<1>1. Init => SendingIsCarried
  BY DEF Init, SendingIsCarried, NoRecord
<1>2. QED
  BY <1>1, TypeCorrect, CarriedStep, PTL DEF Spec

-----------------------------------------------------------------------------
(* With no save scheduled, state.json tells the same of every message as    *)
(* the memory does.                                                         *)

\* What the queue does to a message without telling more of it.
LEMMA SameOutcome ==
  ASSUME NEW t \in Table, NEW m \in Msgs
  PROVE  /\ Outcome(DueNow(t)[m]) = Outcome(t[m])
         /\ Outcome(Reboot(t)[m]) = Outcome(t[m])
         /\ Outcome(DeferAll(t, {})[m]) = Outcome(t[m])
         /\ \A S \in SUBSET Queued(t) : Outcome(Sending(t, S)[m]) = Outcome(t[m])
         /\ \A v \in BOOLEAN : /\ Outcome([t[m] EXCEPT !.due = v]) = Outcome(t[m])
                               /\ Outcome([t[m] EXCEPT !.tried = v]) = Outcome(t[m])
<1>1. t[m] \in Record
  BY DEF Table
<1>2. Outcome(DueNow(t)[m]) = Outcome(t[m])
  BY <1>1 DEF DueNow, Outcome, Deliverable, Record
<1>3. Outcome(Reboot(t)[m]) = Outcome(t[m])
  BY <1>1 DEF Reboot, Outcome, Deliverable, Record
<1>4. \A S \in SUBSET Queued(t) : Outcome(Sending(t, S)[m]) = Outcome(t[m])
  BY <1>1 DEF Sending, Queued, Outcome, Deliverable, Record
<1>5. \A v \in BOOLEAN : /\ Outcome([t[m] EXCEPT !.due = v]) = Outcome(t[m])
                         /\ Outcome([t[m] EXCEPT !.tried = v]) = Outcome(t[m])
  BY <1>1 DEF Outcome, Deliverable, Record
<1>6. QED
  BY <1>2, <1>3, <1>4, <1>5 DEF DeferAll

LEMMA CleanStep == TypeOK /\ CleanIsSaved /\ [Next]_vars => CleanIsSaved'
<1> SUFFICES ASSUME TypeOK, CleanIsSaved, [Next]_vars, ~dirty' PROVE CleanIsSaved'
  BY DEF CleanIsSaved
<1> USE DEF contactVars, boxVars, vaultVars, saveVars
<1>0. msg \in Table /\ disk.msg \in Table /\ \A m \in Msgs : msg[m] \in Record
  BY DEF TypeOK, Table
\* What every action but Save and Crash does, if it schedules no save.
<1>a. ASSUME ~dirty, \A m \in Msgs : Outcome(msg'[m]) = Outcome(msg[m]), est' = est, disk' = disk
      PROVE  CleanIsSaved'
  BY <1>a DEF CleanIsSaved
<1>2. ASSUME \/ \E m \in Msgs : Send(m) \/ Cancel(m)
             \/ AcceptKey \/ DismissKey \/ WrongKeyIn
             \/ \E l \in Links : PeerWrites(l)
             \/ \E m \in Msgs : ReceiptIn(m)
      PROVE  FALSE
  BY <1>2 DEF Send, Cancel, AcceptKey, DismissKey, WrongKeyIn, PeerWrites, ReceiptIn
<1>3. CASE RetryNow
  BY <1>3, <1>a, <1>0, SameOutcome DEF RetryNow
<1>4. CASE Unlock \/ RetryTick
  <2>1. Stale(msg) = {} /\ ~dirty /\ est' = est /\ disk' = disk
    BY <1>4 DEF Unlock, RetryTick, TypeOK
  <2>2. \A m \in Msgs : msg'[m] = msg[m]
    BY <1>4, <2>1 DEF Unlock, RetryTick, RetryTickOn
  <2>3. QED
    BY <1>a, <2>1, <2>2
<1>5. CASE Lock \/ DialForOther \/ ContactSaves \/ ContactCrash
  <2>1. ~dirty /\ msg' = msg /\ est' = est /\ disk' = disk
    BY <1>5 DEF Lock, DialForOther, ContactSaves, ContactCrash, TypeOK
  <2>2. QED
    BY <1>a, <2>1
<1>6. ASSUME NEW m \in Msgs, ComesDue(m) \/ Ages(m) \/ MayDepositAgain(m) PROVE CleanIsSaved'
  <2>1. \A n \in Msgs : msg'[n] \in {msg[n], [msg[n] EXCEPT !.due = TRUE], [msg[n] EXCEPT !.tried = FALSE]}
    BY <1>6 DEF ComesDue, Ages, MayDepositAgain, TypeOK
  <2>2. ASSUME NEW n \in Msgs PROVE Outcome(msg'[n]) = Outcome(msg[n])
    <3>1. \A v \in BOOLEAN : /\ Outcome([msg[n] EXCEPT !.due = v]) = Outcome(msg[n])
                             /\ Outcome([msg[n] EXCEPT !.tried = v]) = Outcome(msg[n])
      BY <1>0, SameOutcome
    <3>2. QED
      BY <2>1, <3>1
  <2>3. QED
    BY <1>6, <1>a, <2>2 DEF ComesDue, Ages, MayDepositAgain
\* Going out on a session: still waiting.
<1>7. ASSUME NEW l \in Links, DialOk(l) \/ LinkIn(l) \/ HelloIn(l) PROVE CleanIsSaved'
  <2>1. PICK S \in SUBSET Queued(msg) : msg' = Sending(msg, S)
    BY <1>7 DEF DialOk, LinkIn, HelloIn, Open, FlushSet
  <2>2. ~dirty /\ est' = est /\ disk' = disk
    <3>1. CASE DialOk(l)
      BY <3>1 DEF DialOk, Open
    <3>2. CASE LinkIn(l)
      BY <3>2 DEF LinkIn, Open, TypeOK
    <3>3. CASE HelloIn(l)
      <4>1. (dirty' = dirty \/ dirty' = TRUE) /\ est' = est /\ disk' = disk
        BY <3>3 DEF HelloIn
      <4>2. dirty \in BOOLEAN
        BY DEF TypeOK
      <4>3. QED
        BY <4>1, <4>2
    <3>4. QED
      BY <1>7, <3>1, <3>2, <3>3
  <2>3. QED
    BY <1>a, <1>0, <2>1, <2>2, SameOutcome
<1>8. ASSUME NEW l \in Links, LinkClose(l) PROVE CleanIsSaved'
  BY <1>8, <1>a DEF LinkClose
<1>9. ASSUME NEW l \in Links, SockClosed(l) PROVE CleanIsSaved'
  <2>1. ~dirty /\ msg' = DeferAll(msg, {}) /\ est' = est /\ disk' = disk
    BY <1>9 DEF SockClosed, TypeOK
  <2>2. QED
    BY <1>a, <1>0, <2>1, SameOutcome
<1>10. ASSUME NEW l \in Links, NEW m \in Msgs, AckIn(l, m) PROVE CleanIsSaved'
  BY <1>10, <1>a DEF AckIn
<1>11. ASSUME NEW m \in Msgs, DepositOk(m) PROVE CleanIsSaved'
  BY <1>11, <1>a DEF DepositOk
<1>12. ASSUME NEW m \in Msgs, Collect(m) \/ ReceiveLate(m) \/ \E l \in Links : Receive(l, m)
       PROVE  CleanIsSaved'
  <2>1. ~dirty /\ msg' = msg /\ est' = est /\ disk' = disk
    BY <1>12 DEF Collect, ReceiveLate, Receive, TypeOK
  <2>2. QED
    BY <1>a, <2>1
<1>13. ASSUME NEW m \in Msgs, MailStored(m) \/ DepositLost(m) \/ MailExpires(m) PROVE CleanIsSaved'
  BY <1>13, <1>a DEF MailStored, DepositLost, MailExpires
<1>14. ASSUME NEW err \in Errors, DialFail(err) PROVE CleanIsSaved'
  <2> DEFINE tried == {m \in Queued(msg) : err = "self" \/ msg[m].st = "sending" \/ msg[m].due}
             after == IF err = "self"
                      THEN [m \in Msgs |-> IF m \in tried THEN Failed(msg[m], "self") ELSE msg[m]]
                      ELSE DeferAll(msg, tried)
  <2>1. tried = {} /\ ~dirty /\ est' = est /\ disk' = disk
    BY <1>14 DEF DialFail, TypeOK
  <2>2. \A m \in Msgs : after[m] = msg[m]
    BY <2>1 DEF DeferAll
  <2>3. \A m \in Msgs : msg'[m] \in {after[m], [after[m] EXCEPT !.tried = TRUE]}
    BY <1>14 DEF DialFail
  <2> HIDE DEF tried, after
  <2>4. ASSUME NEW m \in Msgs PROVE Outcome(msg'[m]) = Outcome(msg[m])
    <3>1. Outcome([msg[m] EXCEPT !.tried = TRUE]) = Outcome(msg[m])
      BY <1>0, SameOutcome
    <3>2. QED
      BY <2>2, <2>3, <3>1
  <2>5. QED
    BY <1>a, <2>1, <2>4
<1>15. CASE Save
  BY <1>15 DEF Save, CleanIsSaved
<1>16. CASE Crash
  BY <1>16, <1>0, SameOutcome DEF Crash, CleanIsSaved
<1>17. CASE UNCHANGED vars
  BY <1>17, <1>a DEF vars
<1>18. QED
  BY <1>2, <1>3, <1>4, <1>5, <1>6, <1>7, <1>8, <1>9, <1>10, <1>11, <1>12, <1>13, <1>14, <1>15,
     <1>16, <1>17
     DEF Next, Operator, Timers, Network, Mail, Faults

\* With no save scheduled a kill changes no outcome: every message is as settled,
\* held or waiting in state.json as in memory.
THEOREM CleanIsSavedTheorem == Spec => []CleanIsSaved
<1>1. Init => CleanIsSaved
  BY DEF Init, CleanIsSaved
<1>2. QED
  BY <1>1, TypeCorrect, CleanStep, PTL DEF Spec

-----------------------------------------------------------------------------
(* What was typed in this process stays readable to it while it may go out. *)

Readable == \A m \in outText : Deliverable(msg'[m]) => m \in outText' \/ env' # env

\* Whatever a retry gives up is not deliverable any more.
LEMMA RetryTickReadable ==
  ASSUME NEW t \in Table, NEW R, RetryTickOn(t, R) PROVE Readable
<1>1. \A m \in Msgs : t[m] \in Record
  BY DEF Table
<1>2. ASSUME NEW m \in outText, m \in Stale(t) PROVE ~Deliverable(msg'[m])
  <2>1. m \in Msgs /\ msg'[m] = Failed(t[m], "gaveup")
    BY <1>2 DEF RetryTickOn, Stale, Live, Queued
  <2>2. QED
    BY <1>1, <2>1, Settles DEF Deliverable
<1>3. QED
  BY <1>2 DEF RetryTickOn, Readable

LEMMA ReadableStep == TypeOK /\ [Next]_vars => Readable \/ UNCHANGED vars
<1> SUFFICES ASSUME TypeOK, Next PROVE Readable
  BY DEF Next
<1> USE DEF contactVars, boxVars, vaultVars, saveVars
<1>0. msg \in Table /\ outText \subseteq Msgs /\ \A m \in Msgs : msg[m] \in Record
  BY DEF TypeOK, Table
<1>a. outText \subseteq outText' => Readable
  BY DEF Readable
<1>b. ASSUME NEW t, outText' = KeepText(t), \A m \in outText : msg'[m].st = t[m].st PROVE Readable
  BY <1>b DEF KeepText, Deliverable, Readable
<1>1. ASSUME NEW m \in Msgs, Send(m) PROVE Readable
  BY <1>1, <1>a DEF Send
<1>2. ASSUME NEW m \in Msgs, Cancel(m) PROVE Readable
  BY <1>2, <1>0, Settles DEF Cancel, Deliverable, Readable, TypeOK
<1>3. CASE RetryNow \/ DismissKey \/ Lock \/ DialForOther \/ WrongKeyIn \/ ContactSaves \/ ContactCrash \/ Save
  <2>1. outText' = outText
    BY <1>3 DEF RetryNow, DismissKey, Lock, DialForOther, WrongKeyIn, ContactSaves, ContactCrash, Save
  <2>2. QED
    BY <1>a, <2>1
<1>4. CASE AcceptKey \/ Unlock \/ RetryTick
  BY <1>4, <1>0, TableOps, RetryTickReadable DEF AcceptKey, Unlock, RetryTick
<1>5. ASSUME NEW m \in Msgs, ComesDue(m) \/ Ages(m) \/ MayDepositAgain(m) PROVE Readable
  BY <1>5, <1>a DEF ComesDue, Ages, MayDepositAgain
<1>6. ASSUME NEW l \in Links, DialOk(l) \/ LinkIn(l) \/ HelloIn(l) \/ PeerWrites(l) \/ LinkClose(l)
      PROVE  Readable
  BY <1>6, <1>a DEF DialOk, LinkIn, HelloIn, PeerWrites, LinkClose, Open
<1>7. ASSUME NEW l \in Links, SockClosed(l) PROVE Readable
  BY <1>7, <1>b DEF SockClosed
<1>8. ASSUME NEW l \in Links, NEW m \in Msgs, AckIn(l, m) PROVE Readable
  <2>1. \/ outText' = outText
        \/ outText' = outText \ {m} /\ msg' = [msg EXCEPT ![m] = Acknowledged(msg[m])]
    BY <1>8 DEF AckIn
  <2>2. QED
    BY <2>1, <1>0, <1>a, Settles DEF Deliverable, Readable, TypeOK
<1>9. ASSUME NEW m \in Msgs, ReceiptIn(m) PROVE Readable
  <2>1. \/ outText' = outText
        \/ outText' = outText \ {m} /\ msg' = [msg EXCEPT ![m] = Acknowledged(msg[m])]
    BY <1>9 DEF ReceiptIn
  <2>2. QED
    BY <2>1, <1>0, <1>a, Settles DEF Deliverable, Readable, TypeOK
<1>10. ASSUME NEW m \in Msgs, Collect(m) \/ ReceiveLate(m) \/ \E l \in Links : Receive(l, m)
       PROVE  Readable
  BY <1>10, <1>a DEF Collect, ReceiveLate, Receive
<1>11. ASSUME NEW m \in Msgs, MailStored(m) \/ DepositLost(m) \/ MailExpires(m) \/ DepositOk(m)
       PROVE  Readable
  BY <1>11, <1>a DEF MailStored, DepositLost, MailExpires, DepositOk
<1>12. ASSUME NEW err \in Errors, DialFail(err) PROVE Readable
  <2> DEFINE tried == {m \in Queued(msg) : err = "self" \/ msg[m].st = "sending" \/ msg[m].due}
             after == IF err = "self"
                      THEN [m \in Msgs |-> IF m \in tried THEN Failed(msg[m], "self") ELSE msg[m]]
                      ELSE DeferAll(msg, tried)
  <2>1. after \in Table
    BY <1>0, RecordOps, TableOps DEF Table
  <2>2. /\ outText' = KeepText(after)
        /\ \A m \in Msgs : msg'[m] \in {after[m], [after[m] EXCEPT !.tried = TRUE]}
    BY <1>12 DEF DialFail
  <2> HIDE DEF tried, after
  <2>3. \A m \in Msgs : msg'[m].st = after[m].st
    BY <2>1, <2>2 DEF Table, Record
  <2>4. \A m \in outText : msg'[m].st = after[m].st
    BY <1>0, <2>3
  <2>5. QED
    BY <1>b, <2>2, <2>4
<1>13. CASE Crash
  BY <1>13 DEF Crash, Readable, TypeOK
<1>14. QED
  BY <1>1, <1>2, <1>3, <1>4, <1>5, <1>6, <1>7, <1>8, <1>9, <1>10, <1>11, <1>12, <1>13
     DEF Next, Operator, Timers, Network, Mail, Faults

\* Locking the vault, or anything else short of a restart, takes from the daemon no
\* text it was given to send and may still have to send.
THEOREM TypedStaysReadableTheorem == Spec => TypedStaysReadable
<1>1. TypeOK /\ [Next]_vars => [Readable]_vars
  BY ReadableStep
<1>2. QED
  BY <1>1, TypeCorrect, PTL DEF Spec, TypedStaysReadable, Readable

-----------------------------------------------------------------------------
(* Delivery implements Courier: whatever the links, timers, mailboxes and   *)
(* restarts do, the operator is shown one verdict after the other as        *)
(* Courier allows, and "held" only of what the mailbox took.                *)

(* What the refinement rests on, beside StoredFirst.                       *)

\* What a mailbox took is there, was collected, or was lost there.
Taken == box \cup everGot \cup expired

\* Only a message that was written has a record, and only one with a record is
\* left at a mailbox; one that failed says why.
Sound(t) == \A m \in Msgs : /\ t[m].st # "none" => m \in asked
                            /\ t[m].st = "failed" => t[m].why # "-"
                            /\ t[m].held => m \in Taken
Kept ==
  /\ Sound(msg) /\ Sound(disk.msg)
  /\ \A m \in Msgs : deposit[m] # "none" => msg[m].st # "none"
  /\ \A m \in Msgs : deposit[m] = "ok" => m \in Taken

\* A change of one record that keeps it sound, if what is written stays written
\* and what is taken stays taken.
SoundChange(r, q, m) ==
  /\ q.st # "none" => r.st # "none" \/ m \in asked'
  /\ r.st # "none" => q.st # "none"
  /\ q.st = "failed" => q.why # "-" \/ (r.st = "failed" /\ q.why = r.why)
  /\ q.held => r.held \/ m \in Taken'

LEMMA SoundOps ==
  ASSUME NEW r \in Record, NEW m \in Msgs, NEW why \in {"cancelled", "gaveup", "self"}
  PROVE  /\ SoundChange(r, r, m)
         /\ r.st # "none" => SoundChange(r, Failed(r, why), m) /\ SoundChange(r, Acknowledged(r), m)
         /\ Deliverable(r) => SoundChange(r, Deferred(r, m), m)
         /\ Deliverable(r) => SoundChange(r, [r EXCEPT !.st = "sending"], m)
         /\ SoundChange(r, [r EXCEPT !.due = TRUE], m)
         /\ SoundChange(r, [r EXCEPT !.tried = TRUE], m) /\ SoundChange(r, [r EXCEPT !.tried = FALSE], m)
         /\ r.st = "sending" => SoundChange(r, [r EXCEPT !.st = "pending", !.due = TRUE], m)
<1>1. SoundChange(r, r, m)
  BY DEF SoundChange
<1>2. r.st # "none" => SoundChange(r, Failed(r, why), m) /\ SoundChange(r, Acknowledged(r), m)
  BY Settles DEF SoundChange
<1>3. Deliverable(r) => SoundChange(r, Deferred(r, m), m)
  <2> SUFFICES ASSUME Deliverable(r) PROVE SoundChange(r, Deferred(r, m), m)
    OBVIOUS
  <2>1. CASE r.held
    BY <2>1 DEF Deferred, Record, SoundChange, Deliverable
  <2>2. CASE ~r.held /\ PastLimit(m)
    <3>1. Deferred(r, m) = Failed(r, "gaveup")
      BY <2>2 DEF Deferred
    <3>2. QED
      BY <3>1, Settles DEF SoundChange, Deliverable
  <2>3. CASE ~r.held /\ ~PastLimit(m)
    BY <2>3 DEF Deferred, Record, SoundChange, Deliverable
  <2>4. QED
    BY <2>1, <2>2, <2>3
<1>4. Deliverable(r) => SoundChange(r, [r EXCEPT !.st = "sending"], m)
  BY DEF Record, SoundChange, Deliverable
<1>5. SoundChange(r, [r EXCEPT !.due = TRUE], m)
  BY DEF Record, SoundChange
<1>6. SoundChange(r, [r EXCEPT !.tried = TRUE], m) /\ SoundChange(r, [r EXCEPT !.tried = FALSE], m)
  BY DEF Record, SoundChange
<1>7. r.st = "sending" => SoundChange(r, [r EXCEPT !.st = "pending", !.due = TRUE], m)
  BY DEF Record, SoundChange
<1>8. QED
  BY <1>1, <1>2, <1>3, <1>4, <1>5, <1>6, <1>7

-----------------------------------------------------------------------------
(* Verdicts.                                                               *)

Follows(v, w) == w = v \/ w \in Promise!After(v)

LEMMA AfterIs ==
  /\ Follows("absent", "waiting")
  /\ \A w \in {"held", "delivered", "cancelled", "gaveup", "self"} : Follows("waiting", w)
  /\ \A w \in {"delivered", "cancelled", "self"} : Follows("held", w)
  /\ \A v \in {"cancelled", "gaveup", "self"}, w \in {"held", "delivered"} : Follows(v, w)
  /\ \A v : Follows(v, v)
  BY DEF Follows, Promise!After, Promise!Failures

LEMMA VerdictIs ==
  ASSUME NEW r \in Record
  PROVE  /\ r.st = "none" => Verdict(r) = "absent"
         /\ r.st = "failed" => Verdict(r) = r.why
         /\ r.st = "delivered" => Verdict(r) = "delivered"
         /\ Deliverable(r) => Verdict(r) = IF r.held THEN "held" ELSE "waiting"
         /\ \/ r.st \in {"none", "failed", "delivered"} \/ Deliverable(r)
         /\ Verdict(r) = "delivered" => r.st = "delivered"
         /\ r.st # "failed" \/ r.why # "-" => Verdict(r) \in Promise!Verdicts
  BY DEF Record, States, Verdict, Deliverable, Promise!Verdicts, Promise!Failures

-----------------------------------------------------------------------------
(* One step, seen from one message.                                        *)

Moves(r, q, m) ==
  /\ SoundChange(r, q, m)
  /\ Follows(Verdict(r), Verdict(q))
  /\ q.st = "delivered" => r.st = "delivered" \/ m \in everGot

LEMMA MoveOps ==
  ASSUME NEW r \in Record, NEW m \in Msgs
  PROVE  /\ Moves(r, r, m)
         /\ Moves(r, [r EXCEPT !.due = TRUE], m)
         /\ Moves(r, [r EXCEPT !.tried = FALSE], m)
         /\ Deliverable(r) => /\ \A why \in {"cancelled", "self"} : Moves(r, Failed(r, why), m)
                              /\ ~r.held => Moves(r, Failed(r, "gaveup"), m)
                              /\ Moves(r, Deferred(r, m), m)
                              /\ Moves(r, [r EXCEPT !.st = "sending"], m)
<1>1. Moves(r, r, m)
  BY SoundOps, AfterIs DEF Moves
<1>2. Moves(r, [r EXCEPT !.due = TRUE], m)
  BY SoundOps, AfterIs DEF Moves, Verdict, Record
<1>3. Moves(r, [r EXCEPT !.tried = FALSE], m)
  BY SoundOps, AfterIs DEF Moves, Verdict, Record
<1>4. ASSUME Deliverable(r), NEW why \in {"cancelled", "gaveup", "self"}, r.held => why # "gaveup"
      PROVE  Moves(r, Failed(r, why), m)
  <2>1. Verdict(r) = IF r.held THEN "held" ELSE "waiting"
    BY <1>4, VerdictIs
  <2>2. Verdict(Failed(r, why)) = why /\ Failed(r, why).st = "failed"
    <3>1. Failed(r, why) \in Record /\ Failed(r, why).st = "failed" /\ Failed(r, why).why = why
      BY Settles, RecordOps
    <3>2. QED
      BY <3>1, VerdictIs
  <2>3. QED
    BY <1>4, <2>1, <2>2, SoundOps, AfterIs DEF Moves, Deliverable
<1>5. ASSUME Deliverable(r) PROVE Moves(r, Deferred(r, m), m)
  <2>1. CASE ~r.held /\ PastLimit(m)
    BY <1>4, <1>5, <2>1 DEF Deferred
  <2>2. CASE r.held \/ ~PastLimit(m)
    <3>1. Deliverable(Deferred(r, m)) /\ Deferred(r, m).held = r.held /\ Deferred(r, m).st # "delivered"
      BY <2>2 DEF Deferred, Deliverable, Record
    <3>2. Verdict(Deferred(r, m)) = Verdict(r)
      BY <1>5, <3>1, RecordOps, VerdictIs
    <3>3. QED
      BY <1>5, <3>1, <3>2, SoundOps, AfterIs DEF Moves
  <2>3. QED
    BY <2>1, <2>2
<1>6. ASSUME Deliverable(r) PROVE Moves(r, [r EXCEPT !.st = "sending"], m)
  <2> DEFINE q == [r EXCEPT !.st = "sending"]
  <2>1. q \in Record /\ Deliverable(q) /\ q.held = r.held /\ q.st = "sending"
    BY DEF Record, States, Deliverable
  <2>2. Verdict(q) = Verdict(r) /\ SoundChange(r, q, m)
    BY <1>6, <2>1, VerdictIs, SoundOps
  <2> HIDE DEF q
  <2>3. Moves(r, q, m)
    BY <2>1, <2>2, AfterIs DEF Moves
  <2>4. QED
    BY <2>3 DEF q
<1>7. QED
  BY <1>1, <1>2, <1>3, <1>4, <1>5, <1>6

\* What is acknowledged has been stored; what is held was taken.
LEMMA AnswerMoves ==
  ASSUME NEW r \in Record, NEW m \in Msgs, r.st \notin {"none", "delivered"},
         r.st = "failed" => r.why # "-"
  PROVE  /\ m \in everGot => Moves(r, Acknowledged(r), m)
         /\ m \in Taken' => Moves(r, [r EXCEPT !.st = "held", !.held = TRUE, !.why = "-"], m)
<1>1. Verdict(r) \in {"waiting", "held", "cancelled", "gaveup", "self"}
  BY VerdictIs DEF Record, States
<1>2. ASSUME m \in everGot PROVE Moves(r, Acknowledged(r), m)
  <2>1. Verdict(Acknowledged(r)) = "delivered" /\ Acknowledged(r).st = "delivered"
    BY Settles, RecordOps, VerdictIs
  <2>2. Follows(Verdict(r), "delivered")
    BY <1>1, AfterIs
  <2>3. QED
    BY <1>2, <2>1, <2>2, SoundOps DEF Moves
<1>3. ASSUME m \in Taken' PROVE Moves(r, [r EXCEPT !.st = "held", !.held = TRUE, !.why = "-"], m)
  <2> DEFINE q == [r EXCEPT !.st = "held", !.held = TRUE, !.why = "-"]
  <2>1. q.st = "held" /\ q.held
    BY DEF Record
  <2>2. Verdict(q) = "held" /\ SoundChange(r, q, m)
    BY <1>3, <2>1 DEF Verdict, SoundChange
  <2> HIDE DEF q
  <2>3. Follows(Verdict(r), "held")
    BY <1>1, AfterIs
  <2>4. Moves(r, q, m)
    BY <2>1, <2>2, <2>3 DEF Moves
  <2>5. QED
    BY <2>4 DEF q
<1>4. QED
  BY <1>2, <1>3

\* The queue's operations on the whole table.
LEMMA TableMoves ==
  ASSUME NEW t \in Table, NEW m \in Msgs
  PROVE  /\ Moves(t[m], DueNow(t)[m], m)
         /\ \A S \in SUBSET Queued(t) : /\ Moves(t[m], Sending(t, S)[m], m)
                                        /\ Moves(t[m], DeferAll(t, S)[m], m)
<1>1. t[m] \in Record
  BY DEF Table
<1>2. Moves(t[m], DueNow(t)[m], m)
  BY <1>1, MoveOps DEF DueNow
<1>3. ASSUME NEW S \in SUBSET Queued(t)
      PROVE  Moves(t[m], Sending(t, S)[m], m) /\ Moves(t[m], DeferAll(t, S)[m], m)
  BY <1>1, <1>3, MoveOps DEF Sending, DeferAll, Queued
<1>4. QED
  BY <1>2, <1>3

LEMMA RetryTickMoves ==
  ASSUME NEW t \in Table, NEW R, RetryTickOn(t, R), NEW m \in Msgs
  PROVE  Moves(t[m], msg'[m], m)
<1>1. t[m] \in Record
  BY DEF Table
<1>2. m \in Stale(t) => Deliverable(t[m]) /\ ~t[m].held
  BY DEF Stale, Live, Queued
<1>3. msg'[m] = IF m \in Stale(t) THEN Failed(t[m], "gaveup") ELSE t[m]
  BY DEF RetryTickOn
<1>4. QED
  BY <1>1, <1>2, <1>3, MoveOps

\* DueNow and then a retry.
LEMMA Twice ==
  ASSUME NEW r \in Record, NEW m \in Msgs, NEW q, Moves([r EXCEPT !.due = TRUE], q, m)
  PROVE  Moves(r, q, m)
<1> DEFINE d == [r EXCEPT !.due = TRUE]
<1>1. d.st = r.st /\ d.held = r.held /\ d.why = r.why /\ Verdict(d) = Verdict(r)
  BY DEF Record, Verdict
<1>2. Moves(d, q, m)
  OBVIOUS
<1> HIDE DEF d
<1>3. QED
  BY <1>1, <1>2 DEF Moves, SoundChange

LEMMA MsgSteps ==
  TypeOK /\ StoredFirst /\ Kept /\ Next => Crash \/ \A n \in Msgs : Moves(msg[n], msg'[n], n)
<1> SUFFICES ASSUME TypeOK, StoredFirst, Kept, Next, ~Crash, NEW n \in Msgs
             PROVE  Moves(msg[n], msg'[n], n)
  OBVIOUS
<1> USE DEF contactVars, boxVars, vaultVars, saveVars
<1>0. /\ msg \in Table /\ \A m \in Msgs : msg[m] \in Record
      /\ \A m \in Msgs : msg[m].st = "failed" => msg[m].why # "-"
  BY DEF TypeOK, Table, Kept, Sound
<1>a. Moves(msg[n], msg[n], n)
  BY <1>0, MoveOps
\* Written for the first time: it had no record.
<1>1. ASSUME NEW m \in Msgs, Send(m) PROVE Moves(msg[n], msg'[n], n)
  <2> DEFINE t == [msg EXCEPT ![m] = [NoRecord EXCEPT !.st = "sending"]]
             S == FlushSet(t, link[bound], ReadableNow \cup {m})
  <2>1. t \in Table /\ S \in SUBSET Queued(t) /\ (msg' = t \/ msg' = Sending(t, S))
    BY <1>0, <1>1 DEF Table, Record, States, NoRecord, FlushSet, Send
  <2>2. IF n = m THEN t[n] = [NoRecord EXCEPT !.st = "sending"] ELSE t[n] = msg[n]
    BY <1>0 DEF Table
  <2> HIDE DEF t, S
  <2>3. CASE n # m
    BY <2>1, <2>2, <2>3, <1>a, TableMoves
  <2>4. CASE n = m
    <3> DEFINE r == [NoRecord EXCEPT !.st = "sending"]
    <3>1. r \in Record /\ r.st = "sending" /\ ~r.held /\ t[n] = r
      BY <2>2, <2>4 DEF Record, States, NoRecord
    <3>2. msg'[n] = r \/ msg'[n] = [r EXCEPT !.st = "sending"]
      BY <2>1, <3>1 DEF Sending
    <3>3. [r EXCEPT !.st = "sending"] = r
      BY <3>1 DEF Record
    <3> HIDE DEF r
    <3>4. msg'[n] = r /\ Verdict(r) = "waiting"
      BY <3>1, <3>2, <3>3 DEF Verdict
    <3>5. Verdict(msg[n]) = "absent" /\ msg[n].st = "none" /\ n \in asked'
      BY <1>1, <2>4, <1>0, VerdictIs DEF Send, Kept, Sound
    <3>6. QED
      BY <3>1, <3>4, <3>5, AfterIs DEF Moves, SoundChange
  <2>5. QED
    BY <2>3, <2>4
<1>2. ASSUME NEW m \in Msgs, Cancel(m) PROVE Moves(msg[n], msg'[n], n)
  <2>1. msg'[n] = IF n = m THEN Failed(msg[n], "cancelled") ELSE msg[n]
    BY <1>0, <1>2 DEF Cancel, Table
  <2>2. QED
    BY <1>0, <1>2, <2>1, <1>a, MoveOps DEF Cancel
<1>3. CASE RetryNow
  BY <1>3, <1>0, TableMoves DEF RetryNow
<1>4. CASE AcceptKey
  <2>1. Moves(DueNow(msg)[n], msg'[n], n)
    BY <1>4, <1>0, TableOps, RetryTickMoves DEF AcceptKey
  <2>2. DueNow(msg)[n] \in {msg[n], [msg[n] EXCEPT !.due = TRUE]}
    BY DEF DueNow
  <2>3. QED
    BY <2>1, <2>2, <1>0, Twice
<1>5. CASE Unlock \/ RetryTick
  BY <1>5, <1>0, RetryTickMoves DEF Unlock, RetryTick
<1>6. CASE DismissKey \/ Lock \/ DialForOther \/ WrongKeyIn \/ ContactSaves \/ Save \/ ContactCrash
  <2>1. msg' = msg
    BY <1>6 DEF DismissKey, Lock, DialForOther, WrongKeyIn, ContactSaves, Save, ContactCrash
  <2>2. QED
    BY <1>a, <2>1
<1>7. ASSUME NEW m \in Msgs, ComesDue(m) \/ Ages(m) \/ MayDepositAgain(m)
      PROVE  Moves(msg[n], msg'[n], n)
  <2>1. msg'[n] \in {msg[n], [msg[n] EXCEPT !.due = TRUE], [msg[n] EXCEPT !.tried = FALSE]}
    BY <1>7 DEF ComesDue, Ages, MayDepositAgain, TypeOK
  <2>2. QED
    BY <2>1, <1>0, MoveOps
<1>8. ASSUME NEW l \in Links, DialOk(l) \/ LinkIn(l) \/ HelloIn(l) PROVE Moves(msg[n], msg'[n], n)
  <2>1. PICK S \in SUBSET Queued(msg) : msg' = Sending(msg, S)
    BY <1>8 DEF DialOk, LinkIn, HelloIn, Open, FlushSet
  <2>2. QED
    BY <2>1, <1>0, TableMoves
<1>9. ASSUME NEW l \in Links, PeerWrites(l) \/ LinkClose(l) PROVE Moves(msg[n], msg'[n], n)
  BY <1>9, <1>a DEF PeerWrites, LinkClose
<1>10. ASSUME NEW l \in Links, SockClosed(l) PROVE Moves(msg[n], msg'[n], n)
  <2>1. Unsure(l) \cap Msgs \subseteq Queued(msg) /\ msg'[n] = DeferAll(msg, Unsure(l) \cap Msgs)[n]
    BY <1>10 DEF SockClosed, Unsure, Queued, Deliverable, DeferAll
  <2>2. QED
    BY <2>1, <1>0, TableMoves
<1>11. ASSUME NEW m \in Msgs, m \in everGot,
              msg' = msg \/ (msg[m].st \notin {"none", "delivered"} /\ msg' = [msg EXCEPT ![m] = Acknowledged(@)])
       PROVE  Moves(msg[n], msg'[n], n)
  <2>1. CASE n # m \/ msg' = msg
    BY <1>11, <2>1, <1>0, <1>a DEF Table
  <2>2. CASE n = m /\ msg' # msg
    <3>1. msg'[n] = Acknowledged(msg[n])
      BY <1>11, <2>2, <1>0 DEF Table
    <3>2. QED
      BY <1>11, <2>2, <3>1, <1>0, AnswerMoves
  <2>3. QED
    BY <2>1, <2>2
<1>12. ASSUME NEW l \in Links, NEW m \in Msgs, AckIn(l, m) PROVE Moves(msg[n], msg'[n], n)
  BY <1>11, <1>12 DEF AckIn, StoredFirst
<1>13. ASSUME NEW m \in Msgs, ReceiptIn(m) PROVE Moves(msg[n], msg'[n], n)
  BY <1>11, <1>13 DEF ReceiptIn, StoredFirst
<1>14. ASSUME NEW m \in Msgs, Collect(m) \/ ReceiveLate(m) \/ \E l \in Links : Receive(l, m)
       PROVE  Moves(msg[n], msg'[n], n)
  <2>1. msg' = msg
    BY <1>14 DEF Collect, ReceiveLate, Receive
  <2>2. QED
    BY <1>a, <2>1
<1>15. ASSUME NEW m \in Msgs, MailStored(m) \/ DepositLost(m) \/ MailExpires(m)
       PROVE  Moves(msg[n], msg'[n], n)
  BY <1>15, <1>a DEF MailStored, DepositLost, MailExpires
\* The mailbox took what its answer is about.
<1>16. ASSUME NEW m \in Msgs, DepositOk(m) PROVE Moves(msg[n], msg'[n], n)
  <2>1. m \in Taken' /\ msg[m].st # "none"
    BY <1>16 DEF DepositOk, Kept, Taken
  <2>2. CASE n = m /\ msg[m].st # "delivered"
    <3>1. msg'[n] = [msg[n] EXCEPT !.st = "held", !.held = TRUE, !.why = "-"]
      BY <1>16, <2>2, <1>0 DEF DepositOk, HeldNow, Table
    <3>2. /\ n \in Taken' /\ msg[n] \in Record /\ msg[n].st \notin {"none", "delivered"}
          /\ msg[n].st = "failed" => msg[n].why # "-"
      BY <2>1, <2>2, <1>0
    <3>3. n \in Taken' => Moves(msg[n], [msg[n] EXCEPT !.st = "held", !.held = TRUE, !.why = "-"], n)
      BY <3>2, AnswerMoves
    <3>4. QED
      BY <3>1, <3>2, <3>3
  <2>3. CASE n # m \/ msg[m].st = "delivered"
    BY <1>16, <2>3, <1>0, <1>a DEF DepositOk, HeldNow, Table
  <2>4. QED
    BY <2>2, <2>3
<1>17. ASSUME NEW err \in Errors, DialFail(err) PROVE Moves(msg[n], msg'[n], n)
  <2> DEFINE tried == {m \in Queued(msg) : err = "self" \/ msg[m].st = "sending" \/ msg[m].due}
             after == IF err = "self"
                      THEN [m \in Msgs |-> IF m \in tried THEN Failed(msg[m], "self") ELSE msg[m]]
                      ELSE DeferAll(msg, tried)
  <2>1. after[n] \in Record
    BY <1>0, RecordOps, TableOps DEF Table
  <2>2. Moves(msg[n], after[n], n)
    <3>1. CASE err = "self"
      BY <3>1, <1>0, <1>a, MoveOps DEF Queued
    <3>2. CASE err # "self"
      <4>1. after = DeferAll(msg, tried) /\ tried \in SUBSET Queued(msg)
        BY <3>2
      <4> HIDE DEF after, tried
      <4>2. QED
        BY <4>1, <1>0, TableMoves
    <3>3. QED
      BY <3>1, <3>2
  <2>3. msg'[n] \in {after[n], [after[n] EXCEPT !.tried = TRUE]}
    BY <1>17 DEF DialFail
  <2> HIDE DEF tried, after
  <2>4. /\ msg'[n].st = after[n].st /\ msg'[n].held = after[n].held /\ msg'[n].why = after[n].why
        /\ Verdict(msg'[n]) = Verdict(after[n])
    BY <2>1, <2>3 DEF Record, Verdict
  <2>5. QED
    BY <2>2, <2>4 DEF Moves, SoundChange
<1>18. QED
  BY <1>1, <1>2, <1>3, <1>4, <1>5, <1>6, <1>7, <1>8, <1>9, <1>10, <1>12, <1>13, <1>14, <1>15,
     <1>16, <1>17
     DEF Next, Operator, Timers, Network, Mail, Faults

-----------------------------------------------------------------------------
(* The invariant, and the refinement.                                      *)

\* What was written, and what a mailbox took, stays so.
LEMMA Grows == TypeOK /\ Next => asked \subseteq asked' /\ Taken \subseteq Taken'
<1> SUFFICES ASSUME TypeOK, Next PROVE asked \subseteq asked' /\ Taken \subseteq Taken'
  OBVIOUS
<1> USE DEF contactVars, boxVars, vaultVars, saveVars, Taken
<1>1. CASE Operator
  BY <1>1 DEF Operator, Send, Cancel, RetryNow, AcceptKey, DismissKey, Unlock, Lock
<1>2. CASE Timers
  BY <1>2 DEF Timers, RetryTick, DialForOther, ComesDue, Ages, MayDepositAgain
<1>3. CASE Network
  <2>1. ASSUME NEW l \in Links, DialOk(l) \/ LinkIn(l) \/ HelloIn(l) \/ PeerWrites(l)
        PROVE  asked' = asked /\ Taken' = Taken
    BY <2>1 DEF DialOk, LinkIn, HelloIn, PeerWrites, Open
  <2>2. ASSUME NEW l \in Links, LinkClose(l) \/ SockClosed(l) PROVE asked' = asked /\ Taken' = Taken
    BY <2>2 DEF LinkClose, SockClosed
  <2>3. ASSUME NEW l \in Links, NEW m \in Msgs, AckIn(l, m) \/ Receive(l, m)
        PROVE  asked' = asked /\ Taken \subseteq Taken'
    BY <2>3 DEF AckIn, Receive, Stores
  <2>4. ASSUME NEW err \in Errors, DialFail(err) PROVE asked' = asked /\ Taken' = Taken
    BY <2>4 DEF DialFail
  <2>5. ASSUME WrongKeyIn \/ \E m \in Msgs : ReceiveLate(m) PROVE asked' = asked /\ Taken \subseteq Taken'
    BY <2>5 DEF WrongKeyIn, ReceiveLate, Stores
  <2>6. QED
    BY <1>3, <2>1, <2>2, <2>3, <2>4, <2>5 DEF Network
<1>4. CASE Mail
  <2>1. ASSUME NEW m \in Msgs, MailStored(m) \/ DepositLost(m) \/ DepositOk(m) \/ ReceiptIn(m) \/ MailExpires(m)
        PROVE  asked' = asked /\ Taken \subseteq Taken'
    BY <2>1 DEF MailStored, DepositLost, DepositOk, ReceiptIn, MailExpires
  <2>2. ASSUME NEW m \in Msgs, Collect(m) PROVE asked' = asked /\ Taken \subseteq Taken'
    BY <2>2 DEF Collect, Stores
  <2>3. QED
    BY <1>4, <2>1, <2>2 DEF Mail
<1>5. CASE Faults
  BY <1>5 DEF Faults, Save, Crash, ContactSaves, ContactCrash
<1>6. QED
  BY <1>1, <1>2, <1>3, <1>4, <1>5 DEF Next

\* state.json changes only by a save; a deposit begins only for a message that
\* waits, and is only answered once the mailbox has it.
LEMMA Deposits ==
  ASSUME TypeOK, Kept, Next
  PROVE  /\ disk' = disk \/ disk'.msg = msg
         /\ \A m \in Msgs : deposit'[m] # "none" => deposit[m] # "none" \/ msg'[m].st # "none"
         /\ \A m \in Msgs : deposit'[m] = "ok" => m \in Taken'
<1> DEFINE Good == /\ disk' = disk \/ disk'.msg = msg
                   /\ \A m \in Msgs : deposit'[m] # "none" => deposit[m] # "none" \/ msg'[m].st # "none"
                   /\ \A m \in Msgs : deposit'[m] = "ok" => m \in Taken'
<1> USE DEF contactVars, boxVars, vaultVars, saveVars
<1>a. ASSUME disk' = disk \/ disk'.msg = msg, deposit' = deposit PROVE Good
  BY <1>a, Grows DEF Kept
<1>1. CASE Operator
  <2>1. disk' = disk /\ deposit' = deposit
    BY <1>1 DEF Operator, Send, Cancel, RetryNow, AcceptKey, DismissKey, Unlock, Lock
  <2>2. QED
    BY <1>a, <2>1
<1>2. CASE Timers
  <2>1. disk' = disk /\ deposit' = deposit
    BY <1>2 DEF Timers, RetryTick, DialForOther, ComesDue, Ages, MayDepositAgain
  <2>2. QED
    BY <1>a, <2>1
<1>3. ASSUME NEW l \in Links, DialOk(l) \/ LinkIn(l) \/ HelloIn(l) \/ PeerWrites(l) PROVE Good
  <2>1. disk' = disk /\ deposit' = deposit
    BY <1>3 DEF DialOk, LinkIn, HelloIn, PeerWrites, Open
  <2>2. QED
    BY <1>a, <2>1
<1>4. ASSUME NEW l \in Links, LinkClose(l) \/ SockClosed(l) PROVE Good
  <2>1. disk' = disk /\ deposit' = deposit
    BY <1>4 DEF LinkClose, SockClosed
  <2>2. QED
    BY <1>a, <2>1
<1>5. ASSUME NEW l \in Links, NEW m \in Msgs, AckIn(l, m) \/ Receive(l, m) PROVE Good
  <2>1. disk' = disk /\ deposit' = deposit
    BY <1>5 DEF AckIn, Receive
  <2>2. QED
    BY <1>a, <2>1
<1>6. CASE WrongKeyIn \/ \E m \in Msgs : ReceiveLate(m) \/ Collect(m) \/ ReceiptIn(m) \/ MailExpires(m)
  <2>1. disk' = disk /\ deposit' = deposit
    BY <1>6 DEF WrongKeyIn, ReceiveLate, Collect, ReceiptIn, MailExpires
  <2>2. QED
    BY <1>a, <2>1
<1>7. ASSUME NEW err \in Errors, DialFail(err) PROVE Good
  <2> DEFINE tried == {m \in Queued(msg) : err = "self" \/ msg[m].st = "sending" \/ msg[m].due}
             after == IF err = "self"
                      THEN [m \in Msgs |-> IF m \in tried THEN Failed(msg[m], "self") ELSE msg[m]]
                      ELSE DeferAll(msg, tried)
             mailed == IF err = "plain" /\ HasMailbox /\ key.pub /\ ~key.doubt
                       THEN {m \in Queued(after) \cap ReadableNow : ~after[m].held /\ ~after[m].tried}
                       ELSE {}
  <2>1. after \in Table
    BY RecordOps, TableOps DEF TypeOK, Table
  <2>2. disk' = disk
    BY <1>7 DEF DialFail
  <2>3. deposit' = [m \in Msgs |-> IF m \in mailed THEN "put" ELSE deposit[m]]
    BY <1>7 DEF DialFail
  <2>4. msg' = [m \in Msgs |-> IF m \in mailed THEN [after[m] EXCEPT !.tried = TRUE] ELSE after[m]]
    BY <1>7 DEF DialFail
  <2>5. \A m \in mailed : Deliverable(after[m])
    BY DEF Queued
  <2> HIDE DEF tried, after, mailed
  <2>6. \A m \in Msgs : deposit'[m] # "none" => deposit[m] # "none" \/ msg'[m].st # "none"
    BY <2>1, <2>3, <2>4, <2>5 DEF Table, Record, Deliverable
  <2>7. \A m \in Msgs : deposit'[m] = "ok" => m \in Taken'
    BY <2>3, Grows DEF Kept
  <2>8. QED
    BY <2>2, <2>6, <2>7
<1>8. ASSUME NEW m \in Msgs, MailStored(m) PROVE Good
  <2>1. m \in Taken' /\ disk' = disk /\ deposit' = [deposit EXCEPT ![m] = "ok"] /\ deposit[m] # "none"
    BY <1>8 DEF MailStored, Taken
  <2>2. QED
    BY <2>1, Grows DEF Kept, TypeOK
<1>9. ASSUME NEW m \in Msgs, DepositLost(m) \/ DepositOk(m) PROVE Good
  <2>1. disk' = disk /\ deposit' = [deposit EXCEPT ![m] = "none"]
    BY <1>9 DEF DepositLost, DepositOk
  <2>2. QED
    BY <2>1, Grows DEF Kept, TypeOK
<1>10. CASE Save \/ ContactSaves \/ ContactCrash
  <2>1. CASE Save
    <3>1. disk' = [msg |-> msg, est |-> est, key |-> key] /\ deposit' = deposit
      BY <2>1 DEF Save
    <3>2. disk'.msg = msg
      BY <3>1
    <3>3. QED
      BY <1>a, <3>1, <3>2
  <2>2. CASE ContactSaves \/ ContactCrash
    <3>1. disk' = disk /\ deposit' = deposit
      BY <2>2 DEF ContactSaves, ContactCrash
    <3>2. QED
      BY <1>a, <3>1
  <2>3. QED
    BY <1>10, <2>1, <2>2
<1>11. CASE Crash
  BY <1>11 DEF Crash
<1>12. QED
  BY <1>1, <1>2, <1>3, <1>4, <1>5, <1>6, <1>7, <1>8, <1>9, <1>10, <1>11
     DEF Next, Network, Mail, Faults

LEMMA KeptStep == TypeOK /\ StoredFirst /\ Kept /\ [Next]_vars => Kept'
<1> SUFFICES ASSUME TypeOK, StoredFirst, Kept, [Next]_vars PROVE Kept'
  OBVIOUS
<1>1. CASE UNCHANGED vars
  BY <1>1 DEF vars, contactVars, boxVars, vaultVars, saveVars, Kept, Sound, Taken
<1>2. CASE Next
  <2>1. asked \subseteq asked' /\ Taken \subseteq Taken'
    BY <1>2, Grows
  <2>2. Sound(msg)'
    <3>1. CASE \A m \in Msgs : Moves(msg[m], msg'[m], m)
      BY <2>1, <3>1 DEF Kept, Sound, Moves, SoundChange
    <3>2. CASE Crash
      <4>1. \A m \in Msgs : disk.msg[m] \in Record /\ msg'[m] = Reboot(disk.msg)[m]
        BY <3>2 DEF Crash, TypeOK
      <4>2. \A m \in Msgs : /\ msg'[m].st # "none" => disk.msg[m].st # "none"
                            /\ msg'[m].st = "failed" => disk.msg[m].st = "failed"
                            /\ msg'[m].why = disk.msg[m].why /\ msg'[m].held = disk.msg[m].held
        BY <4>1 DEF Reboot, Record
      <4>3. QED
        BY <2>1, <4>2 DEF Kept, Sound
    <3>3. QED
      BY <1>2, <3>1, <3>2, MsgSteps
  <2>3. Sound(disk.msg)'
    <3>1. \A m \in Msgs : disk'.msg[m] = disk.msg[m] \/ disk'.msg[m] = msg[m]
      BY <1>2, Deposits
    <3>2. QED
      BY <2>1, <3>1 DEF Kept, Sound
  <2>4. \A m \in Msgs : deposit'[m] # "none" => msg'[m].st # "none"
    <3>1. CASE \A m \in Msgs : Moves(msg[m], msg'[m], m)
      BY <1>2, <3>1, Deposits DEF Kept, Moves, SoundChange
    <3>2. CASE Crash
      BY <3>2 DEF Crash
    <3>3. QED
      BY <1>2, <3>1, <3>2, MsgSteps
  <2>5. QED
    BY <1>2, <2>2, <2>3, <2>4, Deposits DEF Kept
<1>3. QED
  BY <1>1, <1>2

\* What Courier's variables are here.
verdicts == [m \in Msgs |-> Verdict(msg[m])]

LEMMA VerdictsTyped ==
  ASSUME NEW t \in Table, \A m \in Msgs : t[m].st = "failed" => t[m].why # "-"
  PROVE  [m \in Msgs |-> Verdict(t[m])] \in [Msgs -> Promise!Verdicts]
<1>1. ASSUME NEW m \in Msgs PROVE Verdict(t[m]) \in Promise!Verdicts
  BY VerdictIs DEF Table
<1>2. QED
  BY <1>1

\* A step that stores nothing at the contact and is no restart reports.
LEMMA Reports ==
  ASSUME TypeOK, TypeOK', StoredFirst', Kept', everGot' = everGot, env'.sender = env.sender,
         \A m \in Msgs : Moves(msg[m], msg'[m], m)
  PROVE  Promise!Report
<1>1. verdicts' \in [Msgs -> Promise!Verdicts]
  BY VerdictsTyped DEF verdicts, TypeOK, Table, Kept, Sound
<1>2. ASSUME NEW m \in Msgs, Verdict(msg'[m]) # Verdict(msg[m])
      PROVE  /\ Verdict(msg'[m]) \in Promise!After(Verdict(msg[m]))
             /\ Verdict(msg'[m]) = "delivered" => m \in everGot
  <2>1. msg'[m] \in Record
    BY DEF TypeOK
  <2>2. Verdict(msg'[m]) = "delivered" => m \in everGot
    BY <2>1, VerdictIs DEF StoredFirst, DeliveredWasStored
  <2>3. QED
    BY <1>2, <2>2 DEF Moves, Follows
<1>3. QED
  BY <1>1, <1>2 DEF Promise!Report, verdicts

\* A restart shows what the last save says.
LEMMA Restarts ==
  ASSUME TypeOK, TypeOK', StoredFirst', Kept', Crash
  PROVE  Promise!Restart
<1>1. env'.sender = env.sender + 1 /\ everGot' = everGot
  BY DEF Crash, TypeOK
<1>2. verdicts' \in [Msgs -> Promise!Verdicts]
  BY VerdictsTyped DEF verdicts, TypeOK, Table, Kept, Sound
<1>3. ASSUME NEW m \in Msgs, Verdict(msg'[m]) = "delivered" PROVE m \in everGot
  <2>1. msg'[m] \in Record
    BY DEF TypeOK
  <2>2. QED
    BY <1>1, <1>3, <2>1, VerdictIs DEF StoredFirst, DeliveredWasStored
<1>4. QED
  BY <1>1, <1>2, <1>3 DEF Promise!Restart, verdicts

\* Which steps store at the contact, and which restart the daemon.
LEMMA Effects ==
  TypeOK /\ Next =>
    \/ Crash
    \/ everGot' = everGot /\ env'.sender = env.sender
    \/ /\ msg' = msg /\ env' = env
       /\ \E m \in Msgs : everGot' = everGot \cup {m}
<1> SUFFICES ASSUME TypeOK, Next
             PROVE  \/ Crash
                    \/ everGot' = everGot /\ env'.sender = env.sender
                    \/ /\ msg' = msg /\ env' = env
                       /\ \E m \in Msgs : everGot' = everGot \cup {m}
  OBVIOUS
<1> USE DEF contactVars, boxVars, vaultVars, saveVars
<1>1. CASE Operator
  BY <1>1 DEF Operator, Send, Cancel, RetryNow, AcceptKey, DismissKey, Unlock, Lock
<1>2. CASE Timers
  BY <1>2 DEF Timers, RetryTick, DialForOther, ComesDue, Ages, MayDepositAgain
<1>3. ASSUME NEW l \in Links, DialOk(l) \/ LinkIn(l) \/ HelloIn(l) \/ PeerWrites(l)
      PROVE  everGot' = everGot /\ env' = env
  BY <1>3 DEF DialOk, LinkIn, HelloIn, PeerWrites, Open
<1>4. ASSUME NEW l \in Links, NEW m \in Msgs, LinkClose(l) \/ SockClosed(l) \/ AckIn(l, m)
      PROVE  everGot' = everGot /\ env' = env
  BY <1>4 DEF LinkClose, SockClosed, AckIn
<1>5. ASSUME NEW l \in Links, LinkClose(l) \/ SockClosed(l)
      PROVE  everGot' = everGot /\ env' = env
  BY <1>5 DEF LinkClose, SockClosed
<1>6. ASSUME WrongKeyIn \/ \E err \in Errors : DialFail(err)
      PROVE  everGot' = everGot /\ env' = env
  BY <1>6 DEF WrongKeyIn, DialFail
<1>7. ASSUME NEW m \in Msgs, ReceiveLate(m) \/ Collect(m) \/ \E l \in Links : Receive(l, m)
      PROVE  msg' = msg /\ env' = env /\ everGot' = everGot \cup {m}
  BY <1>7 DEF ReceiveLate, Collect, Receive, Stores
<1>8. ASSUME NEW m \in Msgs, MailStored(m) \/ DepositLost(m) \/ DepositOk(m) \/ ReceiptIn(m) \/ MailExpires(m)
      PROVE  everGot' = everGot /\ env' = env
  BY <1>8 DEF MailStored, DepositLost, DepositOk, ReceiptIn, MailExpires
<1>9. CASE Save \/ ContactSaves \/ ContactCrash
  BY <1>9 DEF Save, ContactSaves, ContactCrash, TypeOK
<1>10. QED
  BY <1>1, <1>2, <1>3, <1>4, <1>5, <1>6, <1>7, <1>8, <1>9 DEF Next, Network, Mail, Faults

LEMMA StepSimulates ==
  TypeOK /\ TypeOK' /\ StoredFirst /\ StoredFirst' /\ Kept /\ Kept' /\ [Next]_vars
    => [Promise!Next]_(Promise!vars)
<1> SUFFICES ASSUME TypeOK, TypeOK', StoredFirst, StoredFirst', Kept, Kept', [Next]_vars
             PROVE  [Promise!Next]_(Promise!vars)
  OBVIOUS
<1>1. CASE UNCHANGED vars
  BY <1>1 DEF vars, contactVars, boxVars, vaultVars, saveVars, Promise!vars
<1>2. CASE Next /\ Crash
  BY <1>2, Restarts DEF Promise!Next
<1>3. CASE Next /\ ~Crash /\ everGot' = everGot /\ env'.sender = env.sender
  <2>1. \A m \in Msgs : Moves(msg[m], msg'[m], m)
    BY <1>3, MsgSteps
  <2>2. QED
    BY <1>3, <2>1, Reports DEF Promise!Next
<1>4. CASE Next /\ msg' = msg /\ env' = env /\ \E m \in Msgs : everGot' = everGot \cup {m}
  BY <1>4 DEF Promise!Next, Promise!Store
<1>5. QED
  BY <1>1, <1>2, <1>3, <1>4, Effects

LEMMA InitSimulates == Init => Promise!Init /\ Kept
<1> SUFFICES ASSUME Init PROVE Promise!Init /\ Kept
  OBVIOUS
<1>1. \A m \in Msgs : msg[m] = NoRecord /\ disk.msg[m] = NoRecord /\ deposit[m] = "none"
  BY DEF Init
<1>2. NoRecord.st = "none" /\ ~NoRecord.held
  BY DEF NoRecord
<1>3. Kept
  BY <1>1, <1>2 DEF Kept, Sound
<1>4. \A m \in Msgs : Verdict(msg[m]) = "absent"
  BY <1>1, <1>2 DEF Verdict
<1>5. env.sender = 0 /\ everGot = {}
  BY DEF Init
<1>6. QED
  BY <1>3, <1>4, <1>5 DEF Promise!Init

\* Whatever the links, timers, mailboxes, saves and restarts do, Delivery is an
\* implementation of Courier, and what it calls held was taken by the mailbox.
THEOREM KeepsPromiseTheorem == Spec => KeepsPromise
<1>0. Init => StoredFirst
  BY DEF Init, StoredFirst, NoRecord, NoSession
<1>1. Init => TypeOK /\ StoredFirst /\ Kept
  BY <1>0, TypeInit, InitSimulates
<1>2. TypeOK /\ StoredFirst /\ Kept /\ [Next]_vars => TypeOK' /\ StoredFirst' /\ Kept'
  BY TypeStep, StoredFirstStep, KeptStep
<1>3. Spec => [](TypeOK /\ StoredFirst /\ Kept)
  BY <1>1, <1>2, PTL DEF Spec
<1>4. Kept => HeldWasTaken
  BY DEF Kept, Sound, Taken, HeldWasTaken
<1>5. QED
  BY <1>3, <1>4, InitSimulates, StepSimulates, PTL DEF Spec, KeepsPromise, Promise!Spec
=============================================================================
