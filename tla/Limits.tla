------------------------------- MODULE Limits -------------------------------
(***************************************************************************)
(* Who may connect to the peer port (onPeerSocket, rateOk of               *)
(* nodesignald.js): a number of slots, and a token bucket for every source  *)
(* block (an IPv4 address, an IPv6 /64), kept for a bounded number of       *)
(* blocks in the order they were last used.  Tor hands every onion peer     *)
(* over from one address, which gets more.                                  *)
(***************************************************************************)
EXTENDS Integers, FiniteSets, SequencesExt

CONSTANTS
  Sources, Tor,           \* source blocks; the loopback address
  Socks,                  \* sockets of the model
  MAX_CONNS, RL_BURST, RL_REFILL, RL_MAX_BLOCKS,
  TorShare,               \* how many times the others' rate Tor has (8)
  IDLE,                   \* time without a byte after which a socket is closed
  EndOfTime,              \* bound on the clock
  None

VARIABLES
  now,
  rlBuckets,    \* the Map in its insertion order
  sock,         \* open sockets: their source and their last byte
  peerActive,
  let,          \* for each source, when it was let in
  others        \* the sources that came since it last did

vars == <<now, rlBuckets, sock, peerActive, let, others>>

\* Some buckets, some tokens, and a refill that takes time.
Sensible ==
  /\ IsFiniteSet(Sources) /\ IsFiniteSet(Socks) /\ None \notin [block : Sources, last : Nat]
  /\ MAX_CONNS \in Nat /\ EndOfTime \in Nat
  /\ RL_BURST \in Nat \ {0} /\ RL_MAX_BLOCKS \in Nat \ {0}
  /\ TorShare \in Nat \ {0} /\ RL_REFILL \in Nat /\ RL_REFILL >= TorShare

Burst(b) == IF b = Tor THEN RL_BURST * TorShare ELSE RL_BURST
Every(b) == IF b = Tor THEN RL_REFILL \div TorShare ELSE RL_REFILL

TypeOK ==
  /\ now \in 0..EndOfTime
  /\ rlBuckets \in Seq([block : Sources, tokens : 0..(RL_BURST * TorShare), ts : 0..EndOfTime])
  /\ sock \in [Socks -> {None} \cup [block : Sources, last : 0..EndOfTime]]
  /\ peerActive \in 0..MAX_CONNS
  /\ others \in [Sources -> SUBSET Sources]

Init ==
  /\ now = 0 /\ rlBuckets = <<>>
  /\ sock = [s \in Socks |-> None] /\ peerActive = 0
  /\ let = [b \in Sources |-> <<>>] /\ others = [b \in Sources |-> {}]

-----------------------------------------------------------------------------
(* rateOk.                                                                  *)

Known(b) == \E i \in DOMAIN rlBuckets : rlBuckets[i].block = b
At(b) == CHOOSE i \in DOMAIN rlBuckets : rlBuckets[i].block = b
Has(b) == rlBuckets[At(b)]
Without(b) == RemoveAt(rlBuckets, At(b))

\* Room for one more: the bucket at the front goes.
Room(bs) == IF Len(bs) >= RL_MAX_BLOCKS THEN Tail(bs) ELSE bs

\* The bucket after the refill: whole tokens only, never above the burst.
Refilled(x) ==
  LET n == (now - x.ts) \div Every(x.block)
      more == IF x.tokens + n > Burst(x.block) THEN Burst(x.block) ELSE x.tokens + n
  IN  IF n > 0 THEN [block |-> x.block, tokens |-> more, ts |-> now] ELSE x
Bucket(b) == IF Known(b) THEN Refilled(Has(b)) ELSE [block |-> b, tokens |-> Burst(b), ts |-> now]

\* A bucket in use moves to the end.
Spend_InPlace(b, n) ==                                                \* mutant
  IF Known(b) THEN [i \in DOMAIN rlBuckets |-> IF rlBuckets[i].block = b
                      THEN [Bucket(b) EXCEPT !.tokens = @ - n] ELSE rlBuckets[i]]
  ELSE Append(Room(rlBuckets), [Bucket(b) EXCEPT !.tokens = @ - n])
Spend(b, n) ==
  Append(IF Known(b) THEN Without(b) ELSE Room(rlBuckets), [Bucket(b) EXCEPT !.tokens = @ - n])

Comes(b) == others' = [x \in Sources |-> IF x = b THEN {} ELSE others[x] \cup {b}]

-----------------------------------------------------------------------------
(* onPeerSocket.                                                            *)

\* All slots taken: closed at once, and it costs the source nothing.
Full(b) ==
  /\ peerActive >= MAX_CONNS
  /\ UNCHANGED vars

Refused(b) ==
  /\ peerActive < MAX_CONNS /\ Bucket(b).tokens <= 0
  /\ rlBuckets' = Spend(b, 0) /\ Comes(b)
  /\ UNCHANGED <<now, sock, peerActive, let>>

\* The times before the source was forgotten for good no longer count.
Times(b) == IF Cardinality(others[b]) >= RL_MAX_BLOCKS THEN <<>> ELSE let[b]
LetIn(s, b) ==
  /\ peerActive < MAX_CONNS /\ Bucket(b).tokens > 0 /\ sock[s] = None
  /\ rlBuckets' = Spend(b, 1) /\ Comes(b)
  /\ peerActive' = peerActive + 1
  /\ sock' = [sock EXCEPT ![s] = [block |-> b, last |-> now]]
  /\ let' = [let EXCEPT ![b] = Append(Times(b), now)]
  /\ UNCHANGED now

Bytes(s) ==
  /\ sock[s] # None
  /\ sock' = [sock EXCEPT ![s].last = now]
  /\ UNCHANGED <<now, rlBuckets, peerActive, let, others>>

\* The socket closes, by either side, or since nothing came for too long.
Closes(s) ==
  /\ sock[s] # None
  /\ sock' = [sock EXCEPT ![s] = None] /\ peerActive' = peerActive - 1
  /\ UNCHANGED <<now, rlBuckets, let, others>>

Overdue(s) == sock[s] # None /\ now - sock[s].last >= IDLE
Tick ==
  /\ now < EndOfTime /\ ~\E s \in Socks : Overdue(s)
  /\ now' = now + 1
  /\ UNCHANGED <<rlBuckets, sock, peerActive, let, others>>

Next ==
  \/ \E b \in Sources : Full(b) \/ Refused(b) \/ \E s \in Socks : LetIn(s, b)
  \/ \E s \in Socks : Bytes(s) \/ Closes(s)
  \/ Tick

Spec == Init /\ [][Next]_vars
-----------------------------------------------------------------------------
\* In any stretch of time a source gets its burst and one connection per
\* refill, however it and the others take turns, as long as fewer other sources
\* came between two of its attempts than there are buckets (the comment at
\* rateOk: the first bucket is the least recently used).  And the slots counted
\* are the sockets that are open.
LimitsHold ==
  /\ peerActive = Cardinality({s \in Socks : sock[s] # None}) /\ peerActive <= MAX_CONNS
  /\ Len(rlBuckets) <= RL_MAX_BLOCKS
  /\ \A b \in Sources : \A i \in DOMAIN let[b] :
       Len(let[b]) - i + 1 <= Burst(b) + (now - let[b][i] + Every(b) - 1) \div Every(b)

-----------------------------------------------------------------------------
(* The invariant LimitsHold rests on.                                       *)

\* The buckets stand in the order of use: behind one are those of the sources that
\* came since, and who has none came never, or before as many others as there are.
Later(i) == {rlBuckets[j].block : j \in i + 1..Len(rlBuckets)}
Ordered ==
  /\ \A i, j \in DOMAIN rlBuckets : rlBuckets[i].block = rlBuckets[j].block => i = j
  /\ \A i \in DOMAIN rlBuckets : others[rlBuckets[i].block] = Later(i)
  /\ \A b \in Sources : Known(b) \/ let[b] = <<>> \/ Cardinality(others[b]) >= RL_MAX_BLOCKS

\* What a source was let in for, with the tokens it still has, is its burst and the
\* refills up to the last one counted.
Due(b, t, u) == (u - t + Every(b) - 1) \div Every(b)
PaidBy(x) ==
  /\ x.tokens <= Burst(x.block) /\ x.ts <= now
  /\ LET times == let[x.block] IN
     \A k \in DOMAIN times :
        /\ times[k] < x.ts + Every(x.block)
        /\ Len(times) - k + 1 + x.tokens <= Burst(x.block) + Due(x.block, times[k], x.ts)
Paid ==
  /\ let \in [Sources -> Seq(0..now)]
  /\ \A i \in DOMAIN rlBuckets : PaidBy(rlBuckets[i])

LimitsInv == TypeOK /\ LimitsHold /\ Ordered /\ Paid
=============================================================================
