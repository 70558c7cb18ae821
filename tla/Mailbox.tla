------------------------------ MODULE Mailbox -------------------------------
(***************************************************************************)
(* A mailbox: mail held for other operators (MailboxStore of mailbox.js)    *)
(* and the frames, the timer and the file through which nodesignald.js      *)
(* drives it.  The store is opened from mailbox.json when it is first       *)
(* needed; a change is written at most every 30 s (jsonFile's "pending");   *)
(* a shutdown flushes and may go on for a while before it exits; a restart  *)
(* rebuilds the store by registering and depositing all over again, under   *)
(* the same limits.  Blobs are sizes, keys and seals are left out, and a    *)
(* frame that is refused changes nothing.                                   *)
(***************************************************************************)
EXTENDS FiniteSets, Lists

CONSTANTS
  Fps,              \* recipients, named by the fingerprint their link proved
  Ids,              \* deposit ids
  Size,             \* the size of the blob deposited as an id
  MaxBlob,          \* maxBlobBytes
  MaxPerRecipient,
  MaxTotal,         \* maxTotalBytes
  MaxRecipients,
  Ttl,              \* ttlMs
  EndOfTime,        \* bound: the clock
  None

VARIABLES
  store,            \* the boxes and the byte count of mbStore, or what opening it would read
  opened,           \* mbStore is not null
  disk,             \* the boxes in mailbox.json
  pending,          \* a write of mailbox.json is timed
  failed,           \* the last write failed
  serving,          \* the setting "mailbox"
  leaving,          \* shuttingDown
  now

vars == <<store, opened, disk, pending, failed, serving, leaving, now>>

Times  == 0..EndOfTime
Box    == [seen : Times, items : Seq([id : Ids, at : Times])]
Boxes  == [Fps -> Box \cup {None}]
Empty  == [box |-> [fp \in Fps |-> None], bytes |-> 0]

ASSUME LimitsAssumption == {MaxBlob, MaxPerRecipient, MaxTotal, MaxRecipients, Ttl, EndOfTime} \subseteq Nat
ASSUME SizeAssumption   == Size \in [Ids -> Nat]
ASSUME FpsAssumption    == IsFiniteSet(Fps)
ASSUME NoneAssumption   == None \notin Box

TypeOK ==
  /\ store.box \in Boxes /\ store.bytes \in Nat
  /\ disk \in Boxes
  /\ {opened, pending, failed, serving, leaving} \subseteq BOOLEAN
  /\ now \in Times

Init ==
  /\ store = Empty /\ opened = FALSE /\ disk = Empty.box
  /\ pending = FALSE /\ failed = FALSE
  /\ serving \in BOOLEAN /\ leaving = FALSE
  /\ now = 0

-----------------------------------------------------------------------------
(* MailboxStore.                                                           *)

Registered(s, fp) == s.box[fp] # None
Recipients(s)     == {fp \in Fps : Registered(s, fp)}
Bytes(items)      == FoldLeft(LAMBDA n, it : n + Size[it.id], 0, items)
Holds(s, fp, id)  == Registered(s, fp) /\ \E it \in ToSet(s.box[fp].items) : it.id = id

HasRoom(s, fp) == Registered(s, fp) \/ Cardinality(Recipients(s)) < MaxRecipients

\* register(): a known recipient is seen again, a new one gets a box if one is left.
Register(s, fp, t) ==
  IF Registered(s, fp) THEN [s EXCEPT !.box[fp].seen = IF t > @ THEN t ELSE @]
  ELSE IF HasRoom(s, fp) THEN [s EXCEPT !.box[fp] = [seen |-> t, items |-> <<>>]]
  ELSE s

\* unregister().
Unregister(s, fp) ==
  [box |-> [s.box EXCEPT ![fp] = None], bytes |-> s.bytes - Bytes(s.box[fp].items)]

\* deposit(): an id already held is stored once, a full mailbox takes no more.
Fits(s, fp, id) ==
  /\ Size[id] <= MaxBlob
  /\ Len(s.box[fp].items) < MaxPerRecipient
  /\ s.bytes + Size[id] <= MaxTotal
Takes(s, fp, id) == Registered(s, fp) /\ (Holds(s, fp, id) \/ Fits(s, fp, id))
Deposit(s, fp, id, t) ==
  IF Takes(s, fp, id) /\ ~Holds(s, fp, id)
  THEN [box |-> [s.box EXCEPT ![fp].items = Append(@, [id |-> id, at |-> t])],
        bytes |-> s.bytes + Size[id]]
  ELSE s

\* Items leave a box: ack(), and what prune() finds due.
Without(s, fp, ids) ==
  LET left == Only(s.box[fp].items, {it \in ToSet(s.box[fp].items) : it.id \notin ids})
  IN  [box |-> [s.box EXCEPT ![fp].items = left],
       bytes |-> s.bytes - Bytes(s.box[fp].items) + Bytes(left)]

Due(t, since) == t - since >= Ttl

PruneBox_Whole(s, fp, t) ==                                        \* mutant
  IF Registered(s, fp) /\ \E it \in ToSet(s.box[fp].items) : Due(t, it.at) THEN Unregister(s, fp) ELSE s
\* prune(): recipients that did not register again, and mail held too long.
PruneBox(s, fp, t) ==
  IF ~Registered(s, fp) THEN s
  ELSE IF Due(t, s.box[fp].seen) THEN Unregister(s, fp)
  ELSE Without(s, fp, {it.id : it \in {x \in ToSet(s.box[fp].items) : Due(t, x.at)}})
Prune(s, t) == FoldLeft(LAMBDA u, fp : PruneBox(u, fp, t), s, SetToSeq(Fps))

\* fromJSON(): the boxes registered last come first; each is registered and
\* filled again, under the limits.
Restore(image) ==
  LET there == {fp \in Fps : image[fp] # None}
      order == SortedBy(there, [fp \in there |-> 0 - image[fp].seen])
      fill(s, fp) == IF HasRoom(s, fp)
                     THEN FoldLeft(LAMBDA u, it : Deposit(u, fp, it.id, it.at),
                                   Register(s, fp, image[fp].seen), image[fp].items)
                     ELSE s
  IN  FoldLeft(fill, Empty, order)

-----------------------------------------------------------------------------
(* The frames of nodesignald.js, its timer, its file.                      *)

\* mb-reg.
Reg(fp) ==
  /\ serving /\ opened' = TRUE
  /\ store' = Register(store, fp, now)
  /\ pending' = (pending \/ HasRoom(store, fp))
  /\ UNCHANGED <<disk, failed, serving, leaving, now>>

\* mb-put, by anyone, for fp.
Put(fp, id) ==
  /\ serving /\ opened' = TRUE
  /\ store' = Deposit(store, fp, id, now)
  /\ pending' = (pending \/ Takes(store, fp, id))
  /\ UNCHANGED <<disk, failed, serving, leaving, now>>

\* mb-get: nothing leaves the box, but the recipient is seen.
Get(fp) ==
  /\ serving /\ opened' = TRUE
  /\ store' = IF Registered(store, fp) THEN Register(store, fp, now) ELSE store
  /\ UNCHANGED <<disk, pending, failed, serving, leaving, now>>

\* mb-ack, of ids in the recipient's own box, also when not serving any more.
Ack(fp, ids) ==
  /\ opened /\ \E id \in ids : Holds(store, fp, id)
  /\ store' = Without(store, fp, ids)
  /\ pending' = TRUE
  /\ UNCHANGED <<opened, disk, failed, serving, leaving, now>>

\* mailboxTick.
Tick ==
  /\ opened
  /\ store' = Prune(store, now)
  /\ pending' = (pending \/ store' # store)
  /\ UNCHANGED <<opened, disk, failed, serving, leaving, now>>

\* The setting is switched; on also opens the store.
Serve ==
  /\ serving' = ~serving
  /\ opened' = (opened \/ serving')
  /\ UNCHANGED <<store, disk, pending, failed, leaving, now>>

\* writeNow of jsonFile, which may fail: neither of its callers tries again.
Writes ==
  /\ pending' = FALSE
  /\ \/ disk' = store.box /\ failed' = FALSE
     \/ disk' = disk /\ failed' = TRUE

\* The timed write; one that fails is logged.
Write ==
  /\ pending /\ Writes
  /\ UNCHANGED <<store, opened, serving, leaving, now>>

\* shutdown() flushes (a failure is swallowed), and then waits up to three seconds for the router to
\* drop a port mapping (if there is one) with everything else still running.
Stop ==
  /\ ~leaving /\ leaving' = TRUE
  /\ IF opened THEN Writes ELSE UNCHANGED <<disk, pending, failed>>
  /\ UNCHANGED <<store, opened, serving, now>>

\* What the next start reads.
Reopened ==
  /\ store' = Restore(disk) /\ opened' = FALSE
  /\ pending' = FALSE /\ failed' = FALSE /\ leaving' = FALSE
  /\ UNCHANGED <<disk, serving, now>>

\* process.exit(0), at the end of shutdown().
Exit  == leaving /\ Reopened
\* A kill.
Crash == opened /\ ~leaving /\ Reopened

Time ==
  /\ now < EndOfTime /\ now' = now + 1
  /\ UNCHANGED <<store, opened, disk, pending, failed, serving, leaving>>

Next ==
  \/ \E fp \in Fps : Reg(fp) \/ Get(fp)
  \/ \E fp \in Fps, id \in Ids : Put(fp, id)
  \/ \E fp \in Fps, ids \in SUBSET Ids : Ack(fp, ids)
  \/ Tick \/ Serve \/ Write \/ Stop \/ Exit \/ Crash \/ Time

Spec == Init /\ [][Next]_vars

-----------------------------------------------------------------------------

\* The limits hold for what is really in the boxes, and the byte count that
\* deposit() relies on is right, after whatever expired, was unregistered,
\* acknowledged or restored.
WithinLimits ==
  LET total == SumOver(Recipients(store), [fp \in Recipients(store) |-> Bytes(store.box[fp].items)])
  IN  /\ store.bytes = total /\ total <= MaxTotal
      /\ Cardinality(Recipients(store)) <= MaxRecipients
      /\ \A fp \in Recipients(store) : Len(store.box[fp].items) <= MaxPerRecipient

\* Mail is held once, oldest first: fetch() relies on that order, the
\* recipient acknowledges a prefix and asks again.
OldestFirstOnce ==
  \A fp \in Recipients(store) :
    LET items == store.box[fp].items
    IN  \A i, j \in DOMAIN items : i < j => items[i].at <= items[j].at /\ items[i].id # items[j].id

\* Mail that was taken stays, over restarts and through a switched off
\* setting, until its recipient has it or it is due; nobody else's frames push
\* it out.  Only a kill, or what is taken after the last flush of a shutdown, may
\* be lost.
HeldUntilDue ==
  [][\A fp \in Fps, id \in Ids :
       Holds(store, fp, id) /\ ~Holds(store', fp, id) =>
         \/ \E ids \in SUBSET Ids : id \in ids /\ Ack(fp, ids)
         \/ Crash \/ (Exit /\ (pending \/ failed))
         \/ Tick /\ (\/ Due(now, store.box[fp].seen)
                     \/ \E it \in ToSet(store.box[fp].items) : it.id = id /\ Due(now, it.at))]_vars

\* With no write under way, and none failed, a kill loses no mail and brings
\* none back that its recipient has.
QuietIsSaved ==
  ~pending /\ ~failed =>
    \A fp \in Fps : (disk[fp] = None) = ~Registered(store, fp)
                    /\ (disk[fp] # None => disk[fp].items = store.box[fp].items)

\* The boxes in memory and in mailbox.json are what the limits, fetch() and a
\* restart take them for.
BoxesInOrder == WithinLimits /\ OldestFirstOnce /\ QuietIsSaved

\* A box is what its file, its limits and its recipient take it for, and mail leaves it
\* only when its recipient has it or it is due.
MailIsHeld == []BoxesInOrder /\ HeldUntilDue

\* "Shutdown flushes" (nodesignald.js, above jsonFile): a clean shutdown whose
\* last write worked loses no mail and forgets no acknowledgement.
ShutdownFlushes ==
  [][Exit /\ ~failed => \A fp \in Fps, id \in Ids :
       Holds(store, fp, id) <=> Holds([store EXCEPT !.box = disk], fp, id)]_vars
=============================================================================
