-------------------------------- MODULE Rooms --------------------------------
(***************************************************************************)
(* A topic room (social.js, and the frames room-req, room-state, room-items *)
(* and room-err of nodesignald.js).  There is no server: each member keeps  *)
(* the room, sends what it signs to every member that has an address, and   *)
(* asks for what it missed on its next link with anyone it knows as a       *)
(* member.  A word is a signed member entry (I am in, I have left), and the *)
(* newest word of a member counts.  One room is modelled, members are their *)
(* signing keys, and every signed thing has a moment of its own.            *)
(***************************************************************************)
EXTENDS Naturals, FiniteSets, Sequences, SequencesExt

CONSTANTS
  Daemons,
  Founder,          \* who made the room
  Reachable,        \* the daemons with an address: an onion or a public host
  MaxMembers, MaxRoomMsgs,
  Keep,             \* keepMs
  Overlap,          \* the hour asked for again
  ReplyLimit,       \* messages in an answer
  EndOfTime,        \* bound: the clock
  MaxLinks,         \* bound: connections made
  MaxCrashes,       \* bound: kills
  None

VARIABLES
  room,             \* the room in each store
  pending,          \* pendingJoins has the room
  roomAt,           \* contact.roomAt: when room-items last came from a contact
  up,               \* links: both hellos exchanged
  wire,             \* frames under way
  tasks,            \* linkTasks: frames to send once a link is up
  disk,             \* social.json: the room
  wants,            \* the operator's last word was to be in the room
  now, links, crashes

vars == <<room, pending, roomAt, up, wire, tasks, disk, wants, now, links, crashes>>
linkVars == <<up, wire, tasks>>

Times == 0..EndOfTime
Pairs == {s \in Daemons \X Daemons : s[1] # s[2]}
Word  == [n : Times, left : BOOLEAN]
Msg   == [by : Daemons, n : Times]
Room  == [members : [Daemons -> Word \cup {None}], msgs : SUBSET Msg]

ASSUME DaemonsAssumption == IsFiniteSet(Daemons) /\ Founder \in Daemons
ASSUME BoundsAssumption  ==
  /\ {Keep, Overlap, ReplyLimit, MaxMembers, MaxRoomMsgs, MaxLinks, MaxCrashes} \subseteq Nat
  /\ EndOfTime \in Nat \ {0}
ASSUME NoneAssumption    ==
  None \notin Word /\ None \notin Room /\ None \notin Times /\ None \notin Pairs

TypeOK ==
  /\ room \in [Daemons -> Room \cup {None}] /\ disk \in [Daemons -> Room \cup {None}]
  /\ pending \subseteq Daemons /\ wants \subseteq Daemons
  /\ roomAt \in [Pairs -> Times \cup {None}]
  /\ up \in [Pairs -> BOOLEAN]
  /\ \A x \in Pairs : /\ \A f \in ToSet(wire[x]) : f.t \in {"req", "state", "items", "err"}
                      /\ \A f \in ToSet(tasks[x]) : f.t \in {"req", "items"}
  /\ now \in Times /\ links \in 0..MaxLinks /\ crashes \in 0..MaxCrashes

-----------------------------------------------------------------------------
(* The room in a store: addMember and addRoomMsg.  Items are words and      *)
(* messages alike; those that are too old are refused.                      *)

AWord(d, n, left) == [k |-> "word", by |-> d, n |-> n, left |-> left]
AMsg(d, n)        == [k |-> "msg", by |-> d, n |-> n]
TooOld(it)        == it.n + Keep < now

Known(r)   == {d \in Daemons : r.members[d] # None}
Present(r) == {d \in Known(r) : ~r.members[d].left}
Nobody == [members |-> [d \in Daemons |-> None], msgs |-> {}]

AddMember_Last(r, w) ==                                            \* mutant
  IF TooOld(w) THEN r ELSE [r EXCEPT !.members[w.by] = [n |-> w.n, left |-> w.left]]
Rejects(r, w) ==
  TooOld(w) \/ (w.by \notin Known(r) /\ Cardinality(Known(r)) >= MaxMembers)
Takes(r, w) == ~Rejects(r, w) /\ (w.by \in Known(r) => r.members[w.by].n < w.n)
AddMember(r, w) ==
  IF Takes(r, w) THEN [r EXCEPT !.members[w.by] = [n |-> w.n, left |-> w.left]] ELSE r

\* The oldest message goes when there is one too many.
AddRoomMsg(r, m) ==
  LET msgs   == r.msgs \cup {[by |-> m.by, n |-> m.n]}
      oldest == {x \in msgs : \A y \in msgs : x.n <= y.n}
  IN  IF TooOld(m) \/ m.by \notin Present(r) THEN r
      ELSE [r EXCEPT !.msgs = IF Cardinality(msgs) > MaxRoomMsgs THEN msgs \ oldest ELSE msgs]

Add(r, it)      == IF it.k = "word" THEN AddMember(r, it) ELSE AddRoomMsg(r, it)
AddAll(r, its)  == FoldLeft(Add, r, its)

Words(r)        == SetToSeq({AWord(d, r.members[d].n, r.members[d].left) : d \in Known(r)})
\* The newest ReplyLimit of them; a store keeps the newest of what it gets, in
\* whatever order.
MsgsSince(r, t) ==
  LET young == {m \in r.msgs : m.n > t}
  IN  SetToSeq({AMsg(m.by, m.n) : m \in {x \in young :
                  Cardinality({y \in young : y.n > x.n}) < ReplyLimit}})

Init ==
  /\ now = 1 /\ links = 0 /\ crashes = 0
  /\ room = [d \in Daemons |-> IF d = Founder THEN AddMember(Nobody, AWord(d, 0, FALSE)) ELSE None]
  /\ disk = room
  /\ pending = {} /\ wants = {Founder}
  /\ roomAt = [x \in Pairs |-> None]
  /\ up = [x \in Pairs |-> FALSE]
  /\ wire = [x \in Pairs |-> <<>>] /\ tasks = [x \in Pairs |-> <<>>]

-----------------------------------------------------------------------------
(* Sending.                                                                *)

Req(since, join) == [t |-> "req", since |-> since, join |-> join]
State(r)         == [t |-> "state", words |-> Words(r)]
Items(its)       == [t |-> "items", items |-> its]
Err              == [t |-> "err"]

\* withLink, towards each of a set of contacts: at once, or when a link is up.
\* taken: the channel whose first frame this step has taken, if any.
Sends(d, to, frame, taken) ==
  LET goes(x) == x[1] = d /\ x[2] \in to
      rest(x) == IF x = taken THEN Tail(wire[x]) ELSE wire[x]
  IN  /\ wire' = [x \in Pairs |-> IF goes(x) /\ up[x] THEN Append(rest(x), frame) ELSE rest(x)]
      /\ tasks' = [x \in Pairs |-> IF goes(x) /\ ~up[x] THEN Append(tasks[x], frame) ELSE tasks[x]]

\* fanOutRoom: every other member with an address.
Others(d, r) == (Present(r) \ {d}) \cap Reachable

\* Each word and each message has its moment: the clock moves on.
Moves == now < EndOfTime /\ now' = now + 1

-----------------------------------------------------------------------------
(* The operator.                                                           *)

\* room.join, with a link made by c.
Join(d, c) ==
  /\ Moves
  /\ room[d] = None /\ c # d /\ c \in Reachable /\ room[c] # None
  /\ pending' = pending \cup {d} /\ wants' = wants \cup {d}
  /\ Sends(d, {c}, Req(0, AWord(d, now, FALSE)), None)
  /\ UNCHANGED <<room, roomAt, up, disk, links, crashes>>

\* room.send: only a member's own store must take it.
Send(d) ==
  LET m == AMsg(d, now) IN
  /\ Moves
  /\ room[d] # None /\ d \in Present(room[d])
  /\ room' = [room EXCEPT ![d] = AddRoomMsg(@, m)]
  /\ Sends(d, Others(d, room[d]), Items(<<m>>), None)
  /\ UNCHANGED <<pending, roomAt, up, disk, wants, links, crashes>>

\* room.leave: the word that one has left goes out, and the room is forgotten.
Leave(d) ==
  LET bye == AWord(d, now, TRUE) IN
  /\ Moves
  /\ room[d] # None
  /\ room' = [room EXCEPT ![d] = None]
  /\ wants' = wants \ {d}
  /\ Sends(d, Others(d, room[d]), Items(<<bye>>), None)
  /\ UNCHANGED <<pending, roomAt, up, disk, links, crashes>>

\* mailboxTick gives up a join that was not answered in two minutes; what waits
\* for a link still goes.
JoinTimesOut(d) ==
  /\ d \in pending /\ pending' = pending \ {d}
  /\ UNCHANGED <<room, roomAt, linkVars, disk, wants, now, links, crashes>>

-----------------------------------------------------------------------------
(* Links.                                                                  *)

\* A dial, or the contact's own, up to the two hellos: afterHello asks for what
\* was missed (syncWith) and sends what waited.
Asks(d, c) ==
  IF room[d] = None THEN <<>>
  ELSE IF c \notin Present(room[d]) THEN <<>>
  ELSE LET at == roomAt[<<d, c>>]
       IN  <<Req(IF at = None THEN 0 ELSE IF at > Overlap THEN at - Overlap ELSE 0, None)>>
Connects(d, c) ==
  LET sides == {<<d, c>>, <<c, d>>} IN
  /\ ~up[<<d, c>>] /\ c \in Reachable
  /\ Asks(d, c) # <<>> \/ Asks(c, d) # <<>> \/ tasks[<<d, c>>] # <<>> \/ tasks[<<c, d>>] # <<>>
  /\ links < MaxLinks /\ links' = links + 1
  /\ up' = [x \in Pairs |-> up[x] \/ x \in sides]
  /\ wire' = [x \in Pairs |-> IF x \in sides THEN Asks(x[1], x[2]) \o tasks[x] ELSE wire[x]]
  /\ tasks' = [x \in Pairs |-> IF x \in sides THEN <<>> ELSE tasks[x]]
  /\ UNCHANGED <<room, pending, roomAt, disk, wants, now, crashes>>

\* It closes, or breaks with frames under way.
Disconnects(d, c) ==
  LET sides == {<<d, c>>, <<c, d>>} IN
  /\ up[<<d, c>>]
  /\ up' = [x \in Pairs |-> up[x] /\ x \notin sides]
  /\ wire' = [x \in Pairs |-> IF x \in sides THEN <<>> ELSE wire[x]]
  /\ UNCHANGED <<room, pending, roomAt, tasks, disk, wants, now, links, crashes>>

Arrives(c, d, t) == wire[<<c, d>>] # <<>> /\ Head(wire[<<c, d>>]).t = t
First(c, d)      == Head(wire[<<c, d>>])

\* room-req, by c: with its word if it joins, which the others are told; the
\* answer is the members and what was written since.
Told(d, c, r, f) == IF f.join # None /\ Takes(r, f.join) THEN Others(d, AddMember(r, f.join)) ELSE {}
Answer(r, f) ==
  LET msgs == MsgsSince(r, f.since)
  IN  <<State(r)>> \o (IF msgs = <<>> THEN <<>> ELSE <<Items(msgs)>>)
AnswersReq(d, c) ==
  LET f      == First(c, d)
      r      == IF f.join # None THEN AddMember(room[d], f.join) ELSE room[d]
      stale  == f.join # None /\ Rejects(room[d], f.join)
      refuse == IF room[d] = None THEN TRUE ELSE stale \/ c \notin Present(r)
      told   == IF refuse /\ room[d] = None THEN {} ELSE Told(d, c, room[d], f)
      reply  == IF refuse THEN <<Err>> ELSE Answer(r, f)
      rest(x) == (IF x = <<c, d>> THEN Tail(wire[x]) ELSE wire[x])
                 \o (IF x[1] = d /\ x[2] \in told /\ up[x] THEN <<Items(<<f.join>>)>> ELSE <<>>)
  IN  /\ Arrives(c, d, "req")
      /\ room' = IF room[d] = None THEN room ELSE [room EXCEPT ![d] = r]
      /\ wire' = [x \in Pairs |-> IF x = <<d, c>> THEN rest(x) \o reply ELSE rest(x)]
      /\ tasks' = [x \in Pairs |-> IF x[1] = d /\ x[2] \in told /\ ~up[x]
                                   THEN Append(tasks[x], Items(<<f.join>>)) ELSE tasks[x]]
      /\ UNCHANGED <<pending, roomAt, up, disk, wants, now, links, crashes>>

\* room-state: taken only by one that joins, who then tells everyone, or is in.
JoinsBy_AnyState(d, c) ==                                          \* mutant
  LET r    == AddAll(Nobody, First(c, d).words)
      mine == AWord(d, now, FALSE)
  IN  /\ Moves
      /\ Arrives(c, d, "state") /\ room[d] = None
      /\ room' = [room EXCEPT ![d] = AddMember(r, mine)]
      /\ pending' = pending \ {d}
      /\ Sends(d, Others(d, AddMember(r, mine)), Items(<<mine>>), <<c, d>>)
      /\ UNCHANGED <<roomAt, up, disk, wants, links, crashes>>
JoinsBy(d, c) ==
  LET r    == AddAll(Nobody, First(c, d).words)
      mine == AWord(d, now, FALSE)
  IN  /\ Moves
      /\ Arrives(c, d, "state") /\ d \in pending
      /\ room' = [room EXCEPT ![d] = AddMember(r, mine)]
      /\ pending' = pending \ {d}
      /\ Sends(d, Others(d, AddMember(r, mine)), Items(<<mine>>), <<c, d>>)
      /\ UNCHANGED <<roomAt, up, disk, wants, links, crashes>>
TakesState(d, c) ==
  /\ Arrives(c, d, "state") /\ d \notin pending
  /\ room' = IF room[d] = None THEN room ELSE [room EXCEPT ![d] = AddAll(@, First(c, d).words)]
  /\ wire' = [wire EXCEPT ![<<c, d>>] = Tail(@)]
  /\ UNCHANGED <<pending, roomAt, up, tasks, disk, wants, now, links, crashes>>

\* room-items.
TakesItems(d, c) ==
  /\ Arrives(c, d, "items")
  /\ wire' = [wire EXCEPT ![<<c, d>>] = Tail(@)]
  /\ IF room[d] = None THEN UNCHANGED <<room, roomAt>>
     ELSE /\ room' = [room EXCEPT ![d] = AddAll(@, First(c, d).items)]
          /\ roomAt' = [roomAt EXCEPT ![<<d, c>>] = now]
  /\ UNCHANGED <<pending, up, tasks, disk, wants, now, links, crashes>>

\* room-err: the join is over, whoever says so.
TakesErr(d, c) ==
  /\ Arrives(c, d, "err")
  /\ wire' = [wire EXCEPT ![<<c, d>>] = Tail(@)]
  /\ pending' = pending \ {d}
  /\ UNCHANGED <<room, roomAt, up, tasks, disk, wants, now, links, crashes>>

-----------------------------------------------------------------------------
(* Time and the disk.                                                      *)

\* prune(): messages, not members.
Prune(d) ==
  /\ room' = IF room[d] = None THEN room
             ELSE [room EXCEPT ![d].msgs = {m \in @ : ~TooOld(m)}]
  /\ UNCHANGED <<pending, roomAt, linkVars, disk, wants, now, links, crashes>>

\* social.json, at most every five seconds.
SavesSocial(d) ==
  /\ crashes < MaxCrashes                   \* no kill, no matter
  /\ disk' = [disk EXCEPT ![d] = room[d]]
  /\ UNCHANGED <<room, pending, roomAt, linkVars, wants, now, links, crashes>>

Crash(d) ==
  /\ crashes < MaxCrashes /\ crashes' = crashes + 1
  /\ room' = [room EXCEPT ![d] = disk[d]]
  /\ pending' = pending \ {d}
  /\ up' = [x \in Pairs |-> up[x] /\ d \notin {x[1], x[2]}]
  /\ wire' = [x \in Pairs |-> IF d \in {x[1], x[2]} THEN <<>> ELSE wire[x]]
  /\ tasks' = [x \in Pairs |-> IF x[1] = d THEN <<>> ELSE tasks[x]]
  /\ UNCHANGED <<roomAt, disk, wants, now, links>>

Time ==
  /\ Moves
  /\ UNCHANGED <<room, pending, roomAt, linkVars, disk, wants, links, crashes>>

Next ==
  \/ \E d \in Daemons : \/ Send(d) \/ Leave(d) \/ JoinTimesOut(d)
                        \/ Prune(d) \/ SavesSocial(d) \/ Crash(d)
  \/ \E x \in Pairs : \/ Join(x[1], x[2]) \/ Connects(x[1], x[2]) \/ Disconnects(x[1], x[2])
                      \/ AnswersReq(x[1], x[2]) \/ JoinsBy(x[1], x[2]) \/ TakesState(x[1], x[2])
                      \/ TakesItems(x[1], x[2]) \/ TakesErr(x[1], x[2])
  \/ Time

Spec == Init /\ [][Next]_vars

-----------------------------------------------------------------------------

\* A daemon is in the room only if its operator's last word was to be in:
\* nobody's room-state, late answer or second invitation puts it in, and none
\* brings it back after it left.  (A kill may, before social.json is written.)
InOnlyIfWanted == crashes = 0 => \A d \in Daemons : room[d] # None => d \in wants

\* The newest word of a member counts, by whatever routes its words come, late,
\* twice or in the wrong order: who has left does not come back by an old word.
LatestWordKept ==
  [][\A d, m \in Daemons :
       (room[d] # None /\ room'[d] # None /\ crashes' = crashes /\ m \in Known(room[d])) =>
           /\ room'[d].members[m] # None
           /\ \/ room'[d].members[m] = room[d].members[m]
              \/ room[d].members[m].n < room'[d].members[m].n]_vars

\* "Anyone with a room link can join that room and read it from then on"
\* (CHANGELOG.md:257): a message that reaches a daemon that is in is taken,
\* if it is young and its author is in for the member it comes from.
ReadsFromThenOn ==
  [][\A x \in Pairs : TakesItems(x[1], x[2]) =>
       \A it \in ToSet(First(x[2], x[1]).items) :
         /\ it.k = "msg" /\ ~TooOld(it)
         /\ room[x[1]] # None /\ room[x[2]] # None /\ it.by \in Present(room[x[2]])
         => it.by \in Present(room'[x[1]])]_vars
=============================================================================
