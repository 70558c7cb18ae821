---------------------------- MODULE LimitsProofs ----------------------------
(***************************************************************************)
(* Proofs about Limits: for any sources, slots, bursts, refills and any    *)
(* number of buckets, the slots counted are the sockets that are open and  *)
(* no source gets more than its burst and its refills.                     *)
(***************************************************************************)
EXTENDS Limits, FiniteSetTheorems, SequenceTheorems, TLAPS

-----------------------------------------------------------------------------
(* Numbers.                                                                *)

MaxTokens == RL_BURST * TorShare

LEMMA Rates ==
  ASSUME Sensible, NEW b \in Sources
  PROVE  /\ Burst(b) \in 1..MaxTokens /\ Every(b) \in Nat \ {0}
         /\ MaxTokens \in Nat
<1>1. /\ RL_BURST \in Nat \ {0} /\ TorShare \in Nat \ {0}
      /\ RL_REFILL \in Nat /\ RL_REFILL >= TorShare
  BY DEF Sensible
<1>2. RL_BURST * TorShare \in Nat /\ RL_BURST <= RL_BURST * TorShare
  BY <1>1
<1>3. RL_REFILL \div TorShare \in Nat \ {0}
  BY <1>1
<1>4. QED
  BY <1>1, <1>2, <1>3 DEF Burst, Every, MaxTokens

LEMMA Quotient ==
  ASSUME NEW e \in Nat \ {0}, NEW x \in Nat
  PROVE  x \div e \in Nat /\ e * (x \div e) <= x /\ x < e * (x \div e) + e
OBVIOUS

LEMMA QuotientLeast ==
  ASSUME NEW e \in Nat \ {0}, NEW x \in Nat, NEW n \in Nat, e * n <= x
  PROVE  n <= x \div e
BY Quotient

LEMMA QuotientSum ==
  ASSUME NEW e \in Nat \ {0}, NEW x \in Nat, NEW y \in Nat
  PROVE  (x \div e) + (y \div e) <= (x + y) \div e
<1>1. e * (x \div e) <= x /\ e * (y \div e) <= y /\ x \div e \in Nat /\ y \div e \in Nat
  BY Quotient
<1>2. e * (x \div e) + e * (y \div e) = e * ((x \div e) + (y \div e))
  BY <1>1
<1>3. QED
  BY <1>1, <1>2, QuotientLeast

\* What is due at t for a time before t + Every, and at a later moment.
LEMMA DueGrows ==
  ASSUME Sensible, NEW b \in Sources, NEW t \in Nat, NEW u \in Nat, NEW v \in Nat,
         t < u + Every(b), u <= v
  PROVE  /\ Due(b, t, u) \in Nat /\ Due(b, t, v) \in Nat
         /\ (v - u) \div Every(b) \in Nat
         /\ Due(b, t, u) + ((v - u) \div Every(b)) <= Due(b, t, v)
<1> DEFINE e == Every(b)
<1>1. e \in Nat \ {0}
  BY Rates
<1> HIDE DEF e
<1>2. u - t + e - 1 \in Nat /\ v - u \in Nat /\ v - t + e - 1 = (u - t + e - 1) + (v - u)
  BY <1>1 DEF e
<1>3. v - t + e - 1 \in Nat
  BY <1>2
<1>4. ((u - t + e - 1) \div e) + ((v - u) \div e) <= (v - t + e - 1) \div e
  BY <1>1, <1>2, QuotientSum
<1>5. /\ (u - t + e - 1) \div e \in Nat /\ (v - u) \div e \in Nat
      /\ (v - t + e - 1) \div e \in Nat
  BY <1>1, <1>2, <1>3, Quotient
<1>6. QED
  BY <1>4, <1>5 DEF Due, e

-----------------------------------------------------------------------------
(* The table of buckets.                                                   *)

Bucket_ == [block : Sources, tokens : 0..MaxTokens, ts : 0..EndOfTime]
Open == {s \in Socks : sock[s] # None}

LEMMA Sizes ==
  ASSUME Sensible
  PROVE  /\ RL_MAX_BLOCKS \in Nat \ {0} /\ MAX_CONNS \in Nat /\ EndOfTime \in Nat
         /\ IsFiniteSet(Socks) /\ IsFiniteSet(Sources) /\ None \notin [block : Sources, last : Nat]
  BY DEF Sensible

LEMMA Found ==
  ASSUME NEW b, Known(b)
  PROVE  At(b) \in DOMAIN rlBuckets /\ rlBuckets[At(b)].block = b
BY DEF Known, At

\* A bucket after its refill is paid by it, with all its times.
LEMMA RefillPaid ==
  ASSUME Sensible, LimitsInv, NEW b \in Sources
  PROVE  /\ Bucket(b) \in Bucket_ /\ Bucket(b).block = b
         /\ Bucket(b).tokens <= Burst(b) /\ Bucket(b).ts <= now
         /\ now < Bucket(b).ts + Every(b)
         /\ Known(b) => PaidBy(Bucket(b))
<1>1. now \in 0..EndOfTime /\ rlBuckets \in Seq(Bucket_) /\ EndOfTime \in Nat
  BY Sizes DEF LimitsInv, TypeOK, Bucket_, MaxTokens
<1>2. /\ Burst(b) \in 1..MaxTokens /\ Every(b) \in Nat \ {0}
      /\ MaxTokens \in Nat
  BY Rates
<1>2a. Burst(b) \in Nat /\ Every(b) \in Nat
  BY <1>2
<1>3. CASE ~Known(b)
  <2>1. Bucket(b) = [block |-> b, tokens |-> Burst(b), ts |-> now]
    BY <1>3 DEF Bucket
  <2>2. Burst(b) \in 0..MaxTokens
    BY <1>2
  <2>3. QED
    BY <1>1, <1>2, <1>3, <2>1, <2>2 DEF Bucket_
<1>4. CASE Known(b)
  <2> DEFINE x == Has(b)
             n == (now - x.ts) \div Every(b)
             times == let[b]
  <2>1. x \in Bucket_ /\ x.block = b /\ PaidBy(x) /\ Bucket(b) = Refilled(x)
    BY <1>1, <1>4, Found DEF Has, LimitsInv, Paid, Bucket
  <2>2. x.tokens \in Nat /\ x.ts \in Nat /\ x.tokens <= Burst(b) /\ x.ts <= now
    BY <2>1 DEF Bucket_, PaidBy
  <2>3. times \in Seq(0..now)
    BY DEF LimitsInv, Paid
  <2>4. n \in Nat /\ (n = 0 => now < x.ts + Every(b))
    <3>1. now - x.ts \in Nat /\ Every(b) \in Nat \ {0}
      BY <1>1, <1>2, <2>2
    <3>2. n \in Nat /\ now - x.ts < Every(b) * n + Every(b)
      BY <3>1, Quotient
    <3>3. n = 0 => Every(b) * n = 0
      BY <3>1
    <3> HIDE DEF n
    <3>4. QED
      BY <1>1, <2>2, <3>1, <3>2, <3>3
  <2>5. ASSUME NEW k \in DOMAIN times
        PROVE  /\ times[k] \in Nat /\ times[k] <= now /\ k \in Nat /\ Len(times) \in Nat /\ k <= Len(times)
               /\ times[k] < x.ts + Every(b)
               /\ Len(times) - k + 1 + x.tokens <= Burst(b) + Due(b, times[k], x.ts)
               /\ Due(b, times[k], x.ts) + n <= Due(b, times[k], now)
               /\ Due(b, times[k], x.ts) \in Nat /\ Due(b, times[k], now) \in Nat
    <3>1. times[k] \in Nat /\ times[k] <= now /\ k \in Nat /\ Len(times) \in Nat /\ k <= Len(times)
      BY <1>1, <2>3
    <3>2. /\ times[k] < x.ts + Every(b)
          /\ Len(times) - k + 1 + x.tokens <= Burst(b) + Due(b, times[k], x.ts)
      BY <2>1 DEF PaidBy
    <3>3. QED
      BY <1>1, <2>2, <3>1, <3>2, DueGrows
  <2> DEFINE full == x.tokens + n > Burst(b)
  <2>6. CASE n > 0
    <3> DEFINE p == IF x.tokens + n > Burst(b) THEN Burst(b) ELSE x.tokens + n
               y == [block |-> x.block, tokens |-> p, ts |-> now]
    <3>1. Bucket(b) = y
      BY <2>1, <2>6 DEF Refilled
    <3> HIDE DEF n, x, times
    <3>2. /\ y \in Bucket_ /\ y.block = b /\ y.ts = now /\ y.tokens \in Nat
          /\ y.tokens <= Burst(b) /\ y.tokens <= x.tokens + n
      <4>1. p \in Nat /\ p <= Burst(b) /\ p <= x.tokens + n /\ p \in 0..MaxTokens
        BY <1>2, <1>2a, <2>2, <2>4
      <4> HIDE DEF p
      <4>2. /\ y \in Bucket_ /\ y.block = x.block /\ y.tokens = p /\ y.ts = now
        BY <1>1, <2>1, <4>1 DEF Bucket_
      <4> HIDE DEF y
      <4>3. QED
        BY <2>1, <4>1, <4>2
    <3> HIDE DEF y
    <3>3. ASSUME NEW k \in DOMAIN times
          PROVE  /\ times[k] < y.ts + Every(b)
                 /\ Len(times) - k + 1 + y.tokens <= Burst(b) + Due(b, times[k], y.ts)
      <4> DEFINE d == Due(b, times[k], x.ts)
                 f == Due(b, times[k], now)
      <4>1. /\ times[k] \in Nat /\ times[k] <= now /\ k \in Nat /\ Len(times) \in Nat
            /\ Len(times) - k + 1 + x.tokens <= Burst(b) + d
            /\ d + n <= f /\ d \in Nat /\ f \in Nat
        BY <2>5
      <4> HIDE DEF d, f
      <4>2. Len(times) - k + 1 + y.tokens <= Burst(b) + f
        <5> DEFINE l == Len(times) - k + 1
        <5>1. x.tokens \in Nat /\ n \in Nat /\ y.tokens \in Nat /\ y.tokens <= x.tokens + n
          BY <2>2, <2>4, <3>2
        <5>2. l \in Int /\ l + x.tokens <= Burst(b) + d /\ d + n <= f /\ d \in Nat /\ f \in Nat
          BY <4>1
        <5> HIDE DEF l
        <5>3. l + y.tokens <= Burst(b) + f
          BY <1>2a, <5>1, <5>2
        <5>4. QED
          BY <5>3 DEF l
      <4>3. times[k] < now + Every(b)
        BY <1>1, <1>2, <4>1
      <4>4. QED
        BY <3>2, <4>2, <4>3 DEF f
    <3>4. PaidBy(y)
      BY <1>1, <3>2, <3>3 DEF PaidBy, times
    <3>5. QED
      BY <1>1, <1>2, <3>1, <3>2, <3>4
  <2>7. CASE n = 0
    <3>1. Bucket(b) = x
      BY <2>1, <2>7 DEF Refilled
    <3>2. QED
      BY <2>1, <2>2, <2>4, <2>7, <3>1
  <2>8. QED
    BY <2>4, <2>6, <2>7
<1>5. QED
  BY <1>3, <1>4

-----------------------------------------------------------------------------
(* A bucket that is used goes, or the first does, and one comes at the end. *)

After(q, i) == {q[j].block : j \in i + 1..Len(q)}
\* w is q without its k-th, if it has one.
Lacks(w, q, k) ==
  /\ Len(w) = IF k > Len(q) THEN Len(q) ELSE Len(q) - 1
  /\ \A i \in 1..Len(w) : w[i] = IF i < k THEN q[i] ELSE q[i + 1]

LEMMA Cuts ==
  ASSUME NEW S, NEW q \in Seq(S)
  PROVE  /\ \A k \in 1..Len(q) : RemoveAt(q, k) \in Seq(S) /\ Lacks(RemoveAt(q, k), q, k)
         /\ Len(q) # 0 => Tail(q) \in Seq(S) /\ Lacks(Tail(q), q, 1)
         /\ Lacks(q, q, Len(q) + 1)
<1> DEFINE n == Len(q)
<1>1. n \in Nat /\ DOMAIN q = 1..n
  OBVIOUS
<1>2. ASSUME NEW k \in 1..n
      PROVE  RemoveAt(q, k) \in Seq(S) /\ Lacks(RemoveAt(q, k), q, k)
  <2> DEFINE u == SubSeq(q, 1, k - 1)
             v == SubSeq(q, k + 1, n)
  <2>1. u \in Seq(S) /\ Len(u) = k - 1 /\ \A i \in 1..k - 1 : u[i] = q[i]
    BY <1>1
  <2>2. v \in Seq(S) /\ Len(v) = n - k
    <3>1. k + 1 \in Int /\ n \in Int /\ \A i \in k + 1..n : q[i] \in S
      BY <1>1
    <3>2. v \in Seq(S) /\ Len(v) = IF k + 1 <= n THEN n - (k + 1) + 1 ELSE 0
      BY <3>1, SubSeqProperties
    <3> HIDE DEF n
    <3>3. (IF k + 1 <= n THEN n - (k + 1) + 1 ELSE 0) = n - k
      <4>1. CASE k = n
        BY <1>1, <4>1
      <4>2. CASE k + 1 <= n
        BY <1>1, <4>2
      <4>3. QED
        BY <1>1, <4>1, <4>2
    <3>4. QED
      BY <3>2, <3>3
  <2>3. ASSUME NEW i \in 1..n - k PROVE v[i] = q[i + k]
    <3>1. k + 1 \in 1..n + 1 /\ i \in 1..n - (k + 1) + 1
      BY <1>1
    <3>2. v[i] = q[k + 1 + i - 1]
      BY <1>1, <3>1, SubSeqProperties
    <3>3. k + 1 + i - 1 = i + k
      OBVIOUS
    <3>4. QED
      BY <3>2, <3>3
  <2>4. RemoveAt(q, k) = u \o v
    BY DEF RemoveAt
  <2> HIDE DEF u, v
  <2>5. /\ u \o v \in Seq(S) /\ Len(u \o v) = n - 1
        /\ \A i \in 1..n - 1 : (u \o v)[i] = IF i < k THEN u[i] ELSE v[i - k + 1]
    <3>1. /\ u \o v \in Seq(S) /\ Len(u \o v) = Len(u) + Len(v)
          /\ \A i \in 1..Len(u) + Len(v) : (u \o v)[i] = IF i <= Len(u) THEN u[i] ELSE v[i - Len(u)]
      BY <2>1, <2>2, ConcatProperties
    <3>2. Len(u) + Len(v) = n - 1
      BY <1>1, <2>1, <2>2
    <3>3. ASSUME NEW i \in 1..n - 1
          PROVE  /\ i <= Len(u) <=> i < k
                 /\ i - Len(u) = i - k + 1
      BY <1>1, <2>1
    <3>4. QED
      BY <3>1, <3>2, <3>3
  <2>6. ASSUME NEW i \in 1..n - 1
        PROVE  (u \o v)[i] = IF i < k THEN q[i] ELSE q[i + 1]
    <3>1. CASE i < k
      BY <1>1, <2>1, <2>5, <3>1
    <3>2. CASE ~(i < k)
      <4>1. i - k + 1 \in 1..n - k /\ (i - k + 1) + k = i + 1
        BY <1>1, <3>2
      <4>2. v[i - k + 1] = q[i + 1]
        BY <2>3, <4>1
      <4>3. QED
        BY <2>5, <3>2, <4>2
    <3>3. QED
      BY <3>1, <3>2
  <2>7. QED
    <3>1. Len(RemoveAt(q, k)) = n - 1 /\ ~(k > Len(q))
      BY <1>1, <2>4, <2>5
    <3> HIDE DEF n
    <3>2. QED
      BY <2>4, <2>5, <2>6, <3>1 DEF Lacks, n
<1>3. ASSUME n # 0
      PROVE  Tail(q) \in Seq(S) /\ Lacks(Tail(q), q, 1)
  <2>1. Tail(q) \in Seq(S) /\ Len(Tail(q)) = n - 1 /\ \A i \in 1..n - 1 : Tail(q)[i] = q[i + 1]
    BY <1>1, <1>3, HeadTailProperties
  <2>2. QED
    <3>1. \A i \in 1..n - 1 : ~(i < 1)
      BY <1>1
    <3>2. ~(1 > Len(q))
      BY <1>1, <1>3
    <3> HIDE DEF n
    <3>3. QED
      BY <2>1, <3>1, <3>2 DEF Lacks, n
<1>4. Lacks(q, q, n + 1)
  <2>1. n + 1 > Len(q) /\ \A i \in 1..n : i < n + 1
    BY <1>1
  <2> HIDE DEF n
  <2>2. QED
    BY <2>1 DEF Lacks, n
<1>5. QED
  BY <1>2, <1>3, <1>4

Apart(q) == \A i, j \in DOMAIN q : q[i].block = q[j].block => i = j
\* Only the k-th makes room for y, which has its block, or it is the first.
Makes(q, k, y) ==
  /\ \A i \in DOMAIN q : i # k => q[i].block # y.block
  /\ k <= Len(q) => k = 1 \/ q[k].block = y.block
MovedTo(q, k, y, t) ==
  /\ Len(t) = IF k > Len(q) THEN Len(q) + 1 ELSE Len(q)
  /\ t[Len(t)] = y /\ After(t, Len(t)) = {}
  /\ Apart(t)
  /\ \A i \in DOMAIN t \ {Len(t)} :
       \E m \in DOMAIN q \ {k} : t[i] = q[m] /\ After(t, i) = After(q, m) \cup {y.block}
  /\ \A m \in DOMAIN q \ {k} : \E i \in DOMAIN t \ {Len(t)} : t[i] = q[m]

LEMMA Moved ==
  ASSUME NEW S, NEW q \in Seq(S), NEW k \in 1..Len(q) + 1, NEW y \in S,
         NEW w \in Seq(S), Lacks(w, q, k), NEW t, t = Append(w, y),
         Apart(q), Makes(q, k, y)
  PROVE  t \in Seq(S) /\ MovedTo(q, k, y, t)
<1> USE DEF Apart, Makes, MovedTo
<1> DEFINE n == Len(q)
           l == IF k > n THEN n ELSE n - 1
           at(i) == IF i < k THEN i ELSE i + 1
<1>1. n \in Nat /\ l \in Nat /\ k \in 1..n + 1 /\ DOMAIN q = 1..n /\ (\A i \in 1..n : q[i] \in S)
  OBVIOUS
<1>a. /\ \A i \in 1..l : at(i) \in 1..n /\ at(i) # k
      /\ l + 1 = IF k > n THEN n + 1 ELSE n
  BY <1>1
<1>b. \A i \in 1..l, j \in 1..l : i < j => at(i) < at(j)
  BY <1>1
<1>c. ASSUME NEW m \in 1..n, m # k
      PROVE  \E i \in 1..l : at(i) = m
  <2> DEFINE i == IF m < k THEN m ELSE m - 1
  <2>1. i \in 1..l /\ at(i) = m
    BY <1>1, <1>c
  <2> HIDE DEF i, at, l
  <2>2. QED
    BY <2>1
<1>3a. w \in Seq(S) /\ Len(w) = l /\ \A i \in 1..l : w[i] = q[at(i)]
  BY <1>1 DEF Lacks
<1>3b. t = Append(w, y)
  OBVIOUS
<1> HIDE DEF at, l, n
<1>3. /\ t \in Seq(S) /\ Len(t) = l + 1 /\ t[l + 1] = y /\ DOMAIN t = 1..l + 1
      /\ \A i \in 1..l : t[i] = q[at(i)] /\ t[i] \in S
  <2>1. t \in Seq(S) /\ Len(t) = l + 1 /\ t[l + 1] = y /\ DOMAIN t = 1..l + 1
    BY <1>1, <1>3a, <1>3b
  <2>2. ASSUME NEW i \in 1..l PROVE t[i] = q[at(i)] /\ t[i] \in S
    BY <1>1, <1>3a, <1>3b
  <2>3. QED
    BY <2>1, <2>2
<1>4. After(t, Len(t)) = {}
  BY <1>1, <1>3 DEF After
<1>5. ASSUME NEW i \in DOMAIN t, NEW j \in DOMAIN t, t[i].block = t[j].block
      PROVE  i = j
  <2>1. CASE i \in 1..l /\ j \in 1..l
    <3>1. at(i) \in 1..n /\ at(j) \in 1..n /\ q[at(i)].block = q[at(j)].block
      BY <1>a, <1>3, <1>5, <2>1
    <3>2. at(i) = at(j)
      BY <1>1, <3>1
    <3>3. QED
      BY <1>b, <2>1, <3>1, <3>2
  <2>2. ASSUME NEW e \in 1..l PROVE t[e].block # y.block
    BY <1>1, <1>a, <1>3
  <2>3. QED
    BY <1>1, <1>3, <1>5, <2>1, <2>2
<1>6. ASSUME NEW i \in 1..l
      PROVE  After(t, i) = After(q, at(i)) \cup {y.block}
  <2>1. ASSUME NEW j \in i + 1..l + 1
        PROVE  t[j].block \in After(q, at(i)) \cup {y.block}
    <3>1. CASE j = l + 1
      BY <1>3, <3>1
    <3>2. CASE j \in 1..l
      <4>1. at(j) \in at(i) + 1..n /\ t[j] = q[at(j)]
        <5>1. i < j /\ at(j) \in 1..n /\ at(i) \in 1..n /\ t[j] = q[at(j)]
          BY <1>1, <1>a, <1>3, <3>2
        <5>2. at(i) < at(j)
          BY <1>b, <3>2, <5>1
        <5>3. QED
          BY <1>1, <5>1, <5>2
      <4>2. QED
        BY <4>1 DEF After, n
    <3>3. j = l + 1 \/ j \in 1..l
      BY <1>1
    <3>4. QED
      BY <3>1, <3>2, <3>3
  <2>2. ASSUME NEW m \in at(i) + 1..n
        PROVE  q[m].block \in After(t, i)
    <3>1. CASE m = k
      <4>1. q[k].block = y.block
        <5>1. k \in 1..n /\ at(i) < k /\ at(i) \in 1..n
          BY <1>a, <3>1
        <5>2. k <= Len(q) /\ k # 1
          BY <1>1, <5>1 DEF n
        <5>3. QED
          BY <5>2
      <4>2. l + 1 \in i + 1..Len(t) /\ t[l + 1].block = y.block
        BY <1>1, <1>3
      <4>3. QED
        BY <3>1, <4>1, <4>2 DEF After
    <3>2. CASE m # k
      <4>1. PICK j \in 1..l : at(j) = m
        <5>1. at(i) \in 1..n /\ m \in 1..n
          BY <1>1, <1>a
        <5>2. QED
          BY <1>c, <3>2, <5>1
      <4>2. j \in i + 1..Len(t) /\ t[j] = q[m]
        <5>1. at(i) \in 1..n /\ at(i) < at(j) /\ t[j] = q[m]
          BY <1>1, <1>a, <1>3, <4>1
        <5>2. i < j
          <6>1. SUFFICES ASSUME ~(i < j) PROVE FALSE
            OBVIOUS
          <6>2. j = i \/ at(j) < at(i)
            BY <1>b, <4>1, <6>1
          <6>3. at(j) \in 1..n
            BY <1>a, <4>1
          <6>4. QED
            BY <5>1, <6>2, <6>3
        <5>3. QED
          BY <1>1, <1>3, <4>1, <5>1, <5>2
      <4>3. QED
        BY <4>2 DEF After
    <3>3. QED
      BY <3>1, <3>2
  <2>3. y.block \in After(t, i)
    BY <1>1, <1>3 DEF After
  <2>4. After(t, i) \subseteq After(q, at(i)) \cup {y.block}
    BY <1>3, <2>1 DEF After
  <2>5. After(q, at(i)) \subseteq After(t, i)
    BY <2>2 DEF After, n
  <2>6. QED
    BY <2>3, <2>4, <2>5
<1>7. ASSUME NEW m \in DOMAIN q \ {k}
      PROVE  \E i \in DOMAIN t \ {Len(t)} : t[i] = q[m]
  <2>1. PICK i \in 1..l : at(i) = m
    BY <1>1, <1>c
  <2>2. i \in DOMAIN t \ {Len(t)} /\ t[i] = q[m]
    BY <1>1, <1>3, <2>1
  <2>3. QED
    BY <2>2
<1>8. Len(t) = IF k > Len(q) THEN Len(q) + 1 ELSE Len(q)
  BY <1>a, <1>3 DEF n
<1>9. ASSUME NEW i \in DOMAIN t \ {Len(t)}
      PROVE  \E m \in DOMAIN q \ {k} : t[i] = q[m] /\ After(t, i) = After(q, m) \cup {y.block}
  <2>1. i \in 1..l
    BY <1>1, <1>3
  <2>2. at(i) \in DOMAIN q \ {k} /\ t[i] = q[at(i)] /\ After(t, i) = After(q, at(i)) \cup {y.block}
    BY <1>1, <1>a, <1>3, <1>6, <2>1
  <2>3. QED
    BY <2>2
<1>10. QED
  BY <1>3, <1>4, <1>5, <1>7, <1>8, <1>9

-----------------------------------------------------------------------------
(* The steps.                                                              *)

\* What is true of the buckets alone.
Buckets ==
  /\ rlBuckets \in Seq(Bucket_) /\ Len(rlBuckets) <= RL_MAX_BLOCKS
  /\ others \in [Sources -> SUBSET Sources]
  /\ Ordered /\ Paid
Within == \A b \in Sources : \A i \in DOMAIN let[b] :
            Len(let[b]) - i + 1 <= Burst(b) + Due(b, let[b][i], now)

LEMMA Split ==
  ASSUME Sensible
  PROVE  LimitsInv <=> /\ Buckets /\ Within
                       /\ now \in 0..EndOfTime
                       /\ sock \in [Socks -> {None} \cup [block : Sources, last : 0..EndOfTime]]
                       /\ peerActive \in 0..MAX_CONNS /\ peerActive = Cardinality(Open)
  BY Sizes DEF LimitsInv, Buckets, Within, TypeOK, LimitsHold, Open, Due, Bucket_, MaxTokens

LEMMA Joined ==
  ASSUME Sensible, Buckets', Within', now' \in 0..EndOfTime,
         sock' \in [Socks -> {None} \cup [block : Sources, last : 0..EndOfTime]],
         peerActive' \in 0..MAX_CONNS, peerActive' = Cardinality(Open')
  PROVE  LimitsInv'
BY Sizes DEF LimitsInv, Buckets, Within, TypeOK, LimitsHold, Open, Due, Bucket_, MaxTokens

\* Behind the i-th stand as many others as there are places.
LEMMA Behind ==
  ASSUME NEW S, NEW q \in Seq(S), Apart(q), NEW i \in 1..Len(q)
  PROVE  IsFiniteSet(After(q, i)) /\ Cardinality(After(q, i)) = Len(q) - i
<1> DEFINE I == i + 1..Len(q)
           f == [j \in I |-> q[j].block]
<1>1. Len(q) \in Nat /\ i \in 1..Len(q) /\ I \subseteq DOMAIN q
  OBVIOUS
<1>2. IsFiniteSet(I) /\ Cardinality(I) = Len(q) - i
  <2>1. IsFiniteSet(I) /\ Cardinality(I) = IF i + 1 > Len(q) THEN 0 ELSE Len(q) - (i + 1) + 1
    <3>1. i + 1 \in Int /\ Len(q) \in Int
      BY <1>1
    <3>2. QED
      BY <3>1, FS_Interval
  <2>2. QED
    BY <1>1, <2>1
<1>3. f \in Bijection(I, After(q, i))
  <2>1. f \in [I -> After(q, i)]
    BY DEF After
  <2>2. \A j, m \in I : f[j] = f[m] => j = m
    BY <1>1 DEF Apart
  <2>3. \A c \in After(q, i) : \E j \in I : f[j] = c
    BY DEF After
  <2>4. QED
    BY <2>1, <2>2, <2>3 DEF Bijection, Injection, Surjection, IsInjective
<1>4. QED
  BY <1>2, <1>3, FS_Bijection DEF ExistsBijection

LEMMA Spends ==
  ASSUME Sensible, Buckets, NEW b \in Sources, NEW y \in Bucket_, y.block = b,
         rlBuckets' = Append(IF Known(b) THEN Without(b) ELSE Room(rlBuckets), y),
         Comes(b), let' \in [Sources -> Seq(0..now')], now \in Nat, now' = now,
         \A c \in Sources \ {b} : let'[c] = let[c],
         PaidBy(y)'
  PROVE  Buckets'
<1> DEFINE q == rlBuckets
           t == rlBuckets'
           n == Len(q)
           k == IF Known(b) THEN At(b) ELSE IF n >= RL_MAX_BLOCKS THEN 1 ELSE n + 1
           w == IF Known(b) THEN Without(b) ELSE Room(q)
<1>1. /\ q \in Seq(Bucket_) /\ n \in Nat /\ n <= RL_MAX_BLOCKS /\ RL_MAX_BLOCKS \in Nat \ {0}
      /\ DOMAIN q = 1..n
      /\ \A i, j \in DOMAIN q : q[i].block = q[j].block => i = j
  BY Sizes DEF Buckets, Ordered
<1>1a. ASSUME NEW i \in DOMAIN q
       PROVE  q[i].block \in Sources
  <2>1. q[i] \in Bucket_
    BY <1>1
  <2>2. QED
    BY <2>1 DEF Bucket_
<1>2. Known(b) => At(b) \in 1..n /\ q[At(b)].block = b
  BY <1>1, Found
<1>3. k \in 1..n + 1 /\ (k > n => n < RL_MAX_BLOCKS) /\ (Known(b) => k = At(b))
  BY <1>1, <1>2
<1>4. w \in Seq(Bucket_) /\ Lacks(w, q, k)
  <2>1. CASE Known(b)
    BY <1>1, <1>2, <2>1, Cuts DEF Without
  <2>2. CASE ~Known(b) /\ n >= RL_MAX_BLOCKS
    <3>1. Room(q) = Tail(q) /\ k = 1 /\ n # 0
      BY <1>1, <2>2 DEF Room
    <3>2. QED
      BY <1>1, <2>2, <3>1, Cuts
  <2>3. CASE ~Known(b) /\ ~(n >= RL_MAX_BLOCKS)
    <3>1. Room(q) = q /\ k = n + 1
      BY <1>1, <2>3 DEF Room
    <3>2. QED
      BY <1>1, <2>3, <3>1, Cuts
  <2>4. QED
    BY <2>1, <2>2, <2>3
<1>4a. t = Append(w, y)
  OBVIOUS
<1> HIDE DEF w
<1>5. \A i \in DOMAIN q : i # k => q[i].block # y.block
  BY <1>1, <1>2 DEF Known
<1>6. k <= n => k = 1 \/ q[k].block = y.block
  BY <1>1, <1>2
<1> HIDE DEF k
<1>7. /\ t \in Seq(Bucket_) /\ Len(t) = IF k > n THEN n + 1 ELSE n
      /\ t[Len(t)] = y /\ After(t, Len(t)) = {}
      /\ \A i, j \in DOMAIN t : t[i].block = t[j].block => i = j
      /\ \A i \in DOMAIN t \ {Len(t)} :
           \E m \in DOMAIN q \ {k} : t[i] = q[m] /\ After(t, i) = After(q, m) \cup {y.block}
      /\ \A m \in DOMAIN q \ {k} : \E i \in DOMAIN t \ {Len(t)} : t[i] = q[m]
  <2> HIDE DEF q, t, n
  <2>1. \A i, j \in DOMAIN q : q[i].block = q[j].block => i = j
    BY <1>1
  <2>2. k \in 1..Len(q) + 1 /\ (k <= Len(q) => k = 1 \/ q[k].block = y.block)
    BY <1>3, <1>6 DEF n
  <2>3. QED
    <3>1. q \in Seq(Bucket_) /\ k \in 1..Len(q) + 1 /\ t = Append(w, y) /\ w \in Seq(Bucket_) /\ Lacks(w, q, k)
      BY <1>1, <1>4, <1>4a, <2>2
    <3>2. n = Len(q)
      BY DEF n
    <3>3. Apart(q) /\ Makes(q, k, y)
      BY <1>5, <2>1, <2>2 DEF Apart, Makes
    <3>4. t \in Seq(Bucket_) /\ MovedTo(q, k, y, t)
      BY <3>1, <3>3, Moved
    <3>5. QED
      BY <3>2, <3>4 DEF MovedTo, Apart
<1>8. Len(t) <= RL_MAX_BLOCKS /\ Len(t) \in Nat /\ DOMAIN t = 1..Len(t)
  BY <1>1, <1>3, <1>7
<1>9. /\ others' \in [Sources -> SUBSET Sources] /\ others'[b] = {}
      /\ \A c \in Sources \ {b} : others'[c] = others[c] \cup {b}
  BY DEF Comes, Buckets
<1>10. ASSUME NEW i \in DOMAIN t
       PROVE  others'[t[i].block] = After(t, i)
  <2>1. CASE i = Len(t)
    BY <1>7, <1>9, <2>1
  <2>2. CASE i # Len(t)
    <3>1. PICK m \in DOMAIN q \ {k} : t[i] = q[m] /\ After(t, i) = After(q, m) \cup {y.block}
      BY <1>7, <2>2
    <3>2. q[m].block \in Sources \ {b} /\ others[q[m].block] = After(q, m)
      BY <1>1a, <1>5 DEF Buckets, Ordered, Later, After
    <3>3. QED
      BY <1>9, <3>1, <3>2
  <2>3. QED
    BY <2>1, <2>2
<1>11. ASSUME NEW c \in Sources
       PROVE  Known(c)' \/ let'[c] = <<>> \/ Cardinality(others'[c]) >= RL_MAX_BLOCKS
  <2>1. CASE c = b
    <3>1. Len(t) \in DOMAIN t /\ t[Len(t)].block = c
      BY <1>1, <1>3, <1>7, <1>8, <2>1
    <3>2. QED
      BY <3>1 DEF Known
  <2>2. CASE c # b /\ ~Known(c)
    <3>1. let[c] = <<>> \/ Cardinality(others[c]) >= RL_MAX_BLOCKS
      BY <2>2 DEF Buckets, Ordered
    <3>2. others[c] \subseteq others'[c] /\ IsFiniteSet(others'[c])
      BY <1>9, <2>2, Sizes, FS_Subset
    <3>3. Cardinality(others[c]) <= Cardinality(others'[c]) /\ Cardinality(others'[c]) \in Nat /\ Cardinality(others[c]) \in Nat
      BY <3>2, FS_Subset, FS_CardinalityType
    <3>4. QED
      BY <1>1, <2>2, <3>1, <3>3
  <2>3. CASE c # b /\ Known(c)
    <3>1. PICK m \in DOMAIN q : q[m].block = c
      BY <2>3 DEF Known
    <3>2. CASE m # k
      <4>1. PICK i \in DOMAIN t \ {Len(t)} : t[i] = q[m]
        BY <1>7, <3>2
      <4>2. QED
        BY <3>1, <4>1 DEF Known
    <3>3. CASE m = k
      <4>1. m = 1 /\ ~Known(b) /\ n >= RL_MAX_BLOCKS
        BY <1>1, <1>2, <2>3, <3>1, <3>3 DEF k
      <4>2. others[c] = After(q, 1) /\ IsFiniteSet(others[c]) /\ Cardinality(others[c]) = n - 1
        <5>1. others[c] = After(q, 1)
          BY <1>1, <3>1, <4>1 DEF Buckets, Ordered, Later, After
        <5>2. QED
          <6>1. 1 \in 1..Len(q) /\ Apart(q)
            BY <1>1, <4>1 DEF Apart
          <6> HIDE DEF q
          <6>2. IsFiniteSet(After(q, 1)) /\ Cardinality(After(q, 1)) = Len(q) - 1
            BY <1>1, <6>1, Behind, Zenon
          <6>3. QED
            BY <5>1, <6>2 DEF n
      <4>3. b \notin others[c]
        <5>0. \A i \in DOMAIN q : q[i].block # b
          BY <4>1 DEF Known
        <5>1. \A i \in 2..n : q[i].block # b
          BY <1>1, <5>0
        <5>2. QED
          BY <4>2, <5>1 DEF After
      <4>4. Cardinality(others'[c]) = n
        <5>1. others'[c] = others[c] \cup {b}
          BY <1>9, <2>3
        <5>2. Cardinality(others[c] \cup {b}) = Cardinality(others[c]) + 1
          BY <4>2, <4>3, FS_AddElement
        <5>3. QED
          BY <1>1, <4>2, <5>1, <5>2
      <4>5. QED
        BY <4>1, <4>4
    <3>4. QED
      BY <3>2, <3>3
  <2>4. QED
    BY <2>1, <2>2, <2>3
<1>12. ASSUME NEW i \in DOMAIN t
       PROVE  (PaidBy(rlBuckets[i]))'
  <2>1. CASE i = Len(t)
    <3>1. rlBuckets'[i] = y
      BY <1>7, <2>1
    <3>2. QED
      BY <3>1 DEF PaidBy
  <2>2. CASE i # Len(t)
    <3>1. i \in DOMAIN t \ {Len(t)}
      BY <2>2
    <3>2. PICK m \in DOMAIN q \ {k} : t[i] = q[m]
      BY <1>7, <3>1, Zenon
    <3>3. PaidBy(q[m])
      BY DEF Buckets, Paid
    <3>4. let'[q[m].block] = let[q[m].block]
      BY <1>1a, <1>5
    <3>5. QED
      BY <3>2, <3>3, <3>4 DEF PaidBy
  <2>3. QED
    BY <2>1, <2>2
<1>13. Ordered'
  BY <1>7, <1>10, <1>11 DEF Ordered, Later, After
<1>14. Paid'
  BY <1>12 DEF Paid
<1>15. QED
  BY <1>7, <1>8, <1>9, <1>13, <1>14 DEF Buckets

\* A source that has a bucket is not forgotten, one that has none is.
LEMMA Remembered ==
  ASSUME Sensible, LimitsInv, NEW b \in Sources
  PROVE  Times(b) = IF Known(b) THEN let[b] ELSE <<>>
<1>1. Buckets
  BY Split
<1>2. CASE Known(b)
  <2>1. At(b) \in DOMAIN rlBuckets /\ rlBuckets[At(b)].block = b
    BY <1>2, Found
  <2>2. others[b] = After(rlBuckets, At(b))
    BY <1>1, <2>1 DEF Buckets, Ordered, Later, After
  <2>3. /\ rlBuckets \in Seq(Bucket_) /\ Apart(rlBuckets) /\ At(b) \in 1..Len(rlBuckets)
        /\ Len(rlBuckets) <= RL_MAX_BLOCKS /\ RL_MAX_BLOCKS \in Nat
    BY <1>1, <2>1, Sizes DEF Buckets, Ordered, Apart
  <2>4. Cardinality(others[b]) = Len(rlBuckets) - At(b)
    BY <2>2, <2>3, Behind
  <2>5. ~(Cardinality(others[b]) >= RL_MAX_BLOCKS)
    BY <2>3, <2>4
  <2>6. QED
    BY <1>2, <2>5 DEF Times
<1>3. CASE ~Known(b)
  BY <1>1, <1>3 DEF Times, Buckets, Ordered
<1>4. QED
  BY <1>2, <1>3

LEMMA SameOrder ==
  ASSUME Ordered, UNCHANGED <<rlBuckets, let, others>>
  PROVE  Ordered'
<1>1. /\ rlBuckets' = rlBuckets /\ let' = let /\ others' = others
      /\ \A b \in Sources : Known(b)' = Known(b)
      /\ \A i \in DOMAIN rlBuckets : Later(i)' = Later(i)
  BY DEF Known, Later
<1>2. QED
  BY <1>1 DEF Ordered

LEMMA Same ==
  ASSUME Buckets, Within, UNCHANGED <<now, rlBuckets, let, others>>
  PROVE  Buckets' /\ Within'
<1>1. Ordered'
  BY SameOrder DEF Buckets
<1>2. Paid'
  <2>1. ASSUME NEW i \in DOMAIN rlBuckets PROVE (PaidBy(rlBuckets[i]))'
    <3>1. PaidBy(rlBuckets[i])
      BY DEF Buckets, Paid
    <3>2. QED
      BY <3>1 DEF PaidBy
  <2>2. QED
    BY <2>1 DEF Paid, Buckets
<1>3. QED
  BY <1>1, <1>2 DEF Buckets, Within

LEMMA RefusedStep ==
  ASSUME Sensible, LimitsInv, NEW b \in Sources, Refused(b)
  PROVE  LimitsInv'
<1>0. PICK x, y : x = Bucket(b) /\ y = [x EXCEPT !.tokens = @ - 0]
  OBVIOUS
<1>1. Buckets /\ Within /\ now \in 0..EndOfTime /\ EndOfTime \in Nat
  BY Split, Sizes
<1>2. /\ x \in Bucket_ /\ x.block = b /\ x.tokens <= 0
      /\ Known(b) => PaidBy(x)
  BY <1>0, RefillPaid DEF Refused
<1>3. Known(b)
  <2>1. Burst(b) \in Nat \ {0}
    BY Rates
  <2>2. SUFFICES ASSUME ~Known(b) PROVE FALSE
    OBVIOUS
  <2>3. x.tokens = Burst(b)
    BY <1>0, <2>2 DEF Bucket
  <2>4. QED
    BY <1>2, <2>1, <2>3
<1>4. /\ rlBuckets' = Append(IF Known(b) THEN Without(b) ELSE Room(rlBuckets), y)
      /\ Comes(b) /\ let' = let /\ now' = now /\ sock' = sock /\ peerActive' = peerActive
  BY <1>0 DEF Refused, Spend
<1>5. x.tokens \in Nat /\ x.tokens - 0 = x.tokens /\ y = x
  BY <1>0, <1>2, Rates DEF Bucket_
<1>6. PaidBy(y)'
  BY <1>2, <1>3, <1>4, <1>5 DEF PaidBy
<1>7. Buckets'
  <2>1. let' \in [Sources -> Seq(0..now')] /\ (\A c \in Sources \ {b} : let'[c] = let[c])
    BY <1>1, <1>4 DEF Buckets, Paid
  <2>2. y \in Bucket_ /\ y.block = b /\ now \in Nat
    BY <1>1, <1>2, <1>5
  <2>3. QED
    BY <1>1, <1>4, <1>6, <2>1, <2>2, Spends
<1>8. Within'
  BY <1>1, <1>4 DEF Within
<1>9. QED
  BY <1>1, <1>4, <1>7, <1>8, Split, Joined DEF Open

LEMMA ElementOf == ASSUME NEW T, NEW q \in Seq(T), NEW k \in DOMAIN q PROVE q[k] \in T
OBVIOUS

LEMMA LetInStep ==
  ASSUME Sensible, LimitsInv, NEW s \in Socks, NEW b \in Sources, LetIn(s, b)
  PROVE  LimitsInv'
<1>0. PICK x, y, times : /\ x = Bucket(b) /\ y = [x EXCEPT !.tokens = @ - 1]
                         /\ times = Append(Times(b), now)
  OBVIOUS
<1>1. Buckets /\ Within /\ now \in 0..EndOfTime /\ EndOfTime \in Nat /\ now \in Nat
  BY Split, Sizes
<1>2. /\ x \in Bucket_ /\ x.block = b /\ x.tokens > 0 /\ x.tokens <= Burst(b)
      /\ x.ts <= now /\ now < x.ts + Every(b)
      /\ Known(b) => PaidBy(x)
  BY <1>0, RefillPaid DEF LetIn
<1>3. Burst(b) \in Nat /\ Every(b) \in Nat \ {0} /\ MaxTokens \in Nat
  BY Rates
<1>4. /\ rlBuckets' = Append(IF Known(b) THEN Without(b) ELSE Room(rlBuckets), y)
      /\ Comes(b) /\ let' = [let EXCEPT ![b] = times] /\ now' = now
      /\ sock' = [sock EXCEPT ![s] = [block |-> b, last |-> now]] /\ sock[s] = None
      /\ peerActive < MAX_CONNS /\ peerActive' = peerActive + 1
  BY <1>0 DEF LetIn, Spend
<1>5. /\ y \in Bucket_ /\ y.block = b /\ y.tokens = x.tokens - 1 /\ y.ts = x.ts
      /\ x.tokens \in Nat /\ y.tokens \in Nat /\ x.ts \in Nat
  <2>1. x.tokens \in 0..MaxTokens /\ x.ts \in Nat
    BY <1>2 DEF Bucket_
  <2>2. x.tokens \in Nat /\ x.tokens - 1 \in 0..MaxTokens
    BY <1>2, <1>3, <2>1
  <2>3. y \in Bucket_ /\ y.block = b /\ y.tokens = x.tokens - 1 /\ y.ts = x.ts
    BY <1>0, <1>2, <2>2 DEF Bucket_
  <2>4. QED
    BY <2>1, <2>2, <2>3
<1>6. /\ let \in [Sources -> Seq(0..now)] /\ let[b] \in Seq(0..now)
      /\ Times(b) = IF Known(b) THEN let[b] ELSE <<>>
  BY <1>1, Remembered DEF Buckets, Paid
<1>7. /\ Times(b) \in Seq(0..now) /\ times \in Seq(0..now)
      /\ let' \in [Sources -> Seq(0..now')] /\ let'[b] = times
      /\ \A c \in Sources \ {b} : let'[c] = let[c]
  <2>1. Times(b) \in Seq(0..now)
    <3>1. <<>> \in Seq(0..now)
      OBVIOUS
    <3>2. QED
      BY <1>6, <3>1, Zenon
  <2>2. times \in Seq(0..now)
    BY <1>0, <1>1, <2>1
  <2>3. QED
    BY <1>4, <1>6, <2>1, <2>2
<1>8. ASSUME NEW k \in DOMAIN times
      PROVE  /\ times[k] < y.ts + Every(b) /\ times[k] \in 0..now
             /\ Due(b, times[k], y.ts) \in Nat
             /\ k \in Nat /\ Len(times) \in Nat
             /\ Len(times) - k + 1 + y.tokens <= Burst(b) + Due(b, times[k], y.ts)
  <2> DEFINE n == Len(Times(b))
  <2>1. /\ n \in Nat /\ Len(times) = n + 1 /\ k \in 1..n + 1 /\ times[n + 1] = now
        /\ \A j \in 1..n : times[j] = Times(b)[j]
    BY <1>0, <1>1, <1>7
  <2>2. times[k] \in 0..now
    <3>1. times \in Seq(0..now)
      BY <1>7
    <3>2. QED
      BY <3>1, ElementOf
  <2>3. CASE k = n + 1
    <3>1. Due(b, now, x.ts) \in Nat
      BY <1>1, <1>2, <1>5, DueGrows
    <3> HIDE DEF n
    <3>2. Len(times) - k + 1 + y.tokens = x.tokens
      BY <1>5, <2>1, <2>3
    <3>3. x.tokens <= Burst(b) + Due(b, now, x.ts)
      BY <1>2, <1>3, <1>5, <3>1
    <3>4. times[k] = now
      BY <2>1, <2>3
    <3>5. QED
      BY <1>2, <1>5, <2>1, <2>2, <3>1, <3>2, <3>3, <3>4
  <2>4. CASE k # n + 1
    <3>1. k \in 1..n
      BY <2>1, <2>4
    <3>2. Known(b) /\ Times(b) = let[b]
      BY <1>6, <3>1
    <3>3. /\ let[b][k] < x.ts + Every(b)
          /\ n - k + 1 + x.tokens <= Burst(b) + Due(b, let[b][k], x.ts)
          /\ times[k] = let[b][k]
      BY <1>2, <2>1, <3>1, <3>2 DEF PaidBy
    <3>4. Due(b, times[k], x.ts) \in Nat
      BY <1>1, <1>5, <2>2, <3>3, DueGrows
    <3> HIDE DEF n
    <3>5. Len(times) - k + 1 + y.tokens = n - k + 1 + x.tokens
      <4>1. n \in Int /\ k \in Int /\ x.tokens \in Int /\ Len(times) = n + 1 /\ y.tokens = x.tokens - 1
        BY <1>5, <2>1, <3>1
      <4>2. QED
        BY <4>1
    <3>6. QED
      BY <1>5, <2>1, <2>2, <3>3, <3>4, <3>5
  <2>5. QED
    BY <2>3, <2>4
<1>9. PaidBy(y)'
  BY <1>1, <1>2, <1>3, <1>4, <1>5, <1>7, <1>8 DEF PaidBy
<1>10. Buckets'
  BY <1>1, <1>4, <1>5, <1>7, <1>9, Spends
<1>11. Within'
  <2>1. ASSUME NEW k \in DOMAIN times
        PROVE  Len(times) - k + 1 <= Burst(b) + Due(b, times[k], now)
    <3>0. times[k] \in Nat /\ times[k] < y.ts + Every(b) /\ y.ts \in Nat /\ y.ts <= now
      BY <1>1, <1>2, <1>5, <1>8
    <3>1. Due(b, times[k], y.ts) + ((now - y.ts) \div Every(b)) <= Due(b, times[k], now)
          /\ Due(b, times[k], now) \in Nat /\ (now - y.ts) \div Every(b) \in Nat
      BY <1>1, <3>0, DueGrows
    <3>2. Due(b, times[k], y.ts) <= Due(b, times[k], now)
      BY <1>8, <3>1
    <3> DEFINE d == Due(b, times[k], y.ts)
               f == Due(b, times[k], now)
               l == Len(times) - k + 1
    <3>3. d \in Nat /\ f \in Nat /\ d <= f /\ l \in Int /\ l + y.tokens <= Burst(b) + d
      BY <1>8, <3>1, <3>2
    <3> HIDE DEF d, f, l
    <3>4. l <= Burst(b) + f
      BY <1>3, <1>5, <3>3
    <3>5. QED
      BY <3>4 DEF l, f
  <2>2. ASSUME NEW c \in Sources, c # b
        PROVE  \A i \in DOMAIN let[c] : Len(let[c]) - i + 1 <= Burst(c) + Due(c, let[c][i], now)
    BY <1>1 DEF Within
  <2>3. QED
    BY <1>4, <1>7, <2>1, <2>2 DEF Within
<1>12. /\ peerActive' \in 0..MAX_CONNS /\ peerActive' = Cardinality(Open')
       /\ sock' \in [Socks -> {None} \cup [block : Sources, last : 0..EndOfTime]]
  <2>1. /\ sock \in [Socks -> {None} \cup [block : Sources, last : 0..EndOfTime]]
        /\ peerActive \in 0..MAX_CONNS /\ peerActive = Cardinality(Open)
    BY Split
  <2>2. /\ [block |-> b, last |-> now] \in [block : Sources, last : 0..EndOfTime]
        /\ [block |-> b, last |-> now] # None
    BY <1>1, Sizes
  <2>3. sock' \in [Socks -> {None} \cup [block : Sources, last : 0..EndOfTime]]
    BY <1>4, <2>1, <2>2
  <2>4. Open' = Open \cup {s} /\ s \notin Open /\ IsFiniteSet(Open)
    BY <1>4, <2>1, <2>2, Sizes, FS_Subset DEF Open
  <2>5. Cardinality(Open') = Cardinality(Open) + 1
    BY <2>4, FS_AddElement
  <2>6. QED
    BY <1>4, <2>1, <2>3, <2>5, Sizes
<1>13. QED
  BY <1>1, <1>4, <1>10, <1>11, <1>12, Joined

LEMMA ClosesStep ==
  ASSUME Sensible, LimitsInv, NEW s \in Socks, Closes(s)
  PROVE  LimitsInv'
<1>1. /\ Buckets /\ Within /\ now \in 0..EndOfTime
      /\ sock \in [Socks -> {None} \cup [block : Sources, last : 0..EndOfTime]]
      /\ peerActive \in 0..MAX_CONNS /\ peerActive = Cardinality(Open)
  BY Split
<1>2. /\ sock[s] # None /\ sock' = [sock EXCEPT ![s] = None] /\ peerActive' = peerActive - 1
      /\ UNCHANGED <<now, rlBuckets, let, others>>
  BY DEF Closes
<1>3. Open' = Open \ {s} /\ s \in Open /\ IsFiniteSet(Open)
  BY <1>1, <1>2, Sizes, FS_Subset DEF Open
<1>4. Cardinality(Open') = Cardinality(Open) - 1 /\ Cardinality(Open') \in Nat
  BY <1>3, FS_RemoveElement, FS_CardinalityType, FS_Subset
<1>5. peerActive' \in 0..MAX_CONNS /\ peerActive' = Cardinality(Open')
  BY <1>1, <1>2, <1>4, Sizes
<1>6. Buckets' /\ Within'
  BY <1>1, <1>2, Same
<1>7. QED
  BY <1>1, <1>2, <1>5, <1>6, Joined

LEMMA BytesStep ==
  ASSUME Sensible, LimitsInv, NEW s \in Socks, Bytes(s)
  PROVE  LimitsInv'
<1>1. /\ Buckets /\ Within /\ now \in 0..EndOfTime
      /\ sock \in [Socks -> {None} \cup [block : Sources, last : 0..EndOfTime]]
      /\ peerActive \in 0..MAX_CONNS /\ peerActive = Cardinality(Open)
  BY Split
<1>2. PICK r : r = [sock[s] EXCEPT !.last = now]
  OBVIOUS
<1>3. /\ sock[s] # None /\ sock' = [sock EXCEPT ![s] = r]
      /\ UNCHANGED <<now, rlBuckets, peerActive, let, others>>
  BY <1>2 DEF Bytes
<1>4. r \in [block : Sources, last : 0..EndOfTime] /\ r # None
  BY <1>1, <1>2, <1>3, Sizes
<1>5. sock' \in [Socks -> {None} \cup [block : Sources, last : 0..EndOfTime]] /\ Open' = Open
  BY <1>1, <1>3, <1>4 DEF Open
<1>6. Buckets' /\ Within'
  BY <1>1, <1>3, Same
<1>7. QED
  BY <1>1, <1>3, <1>5, <1>6, Joined

LEMMA TickStep ==
  ASSUME Sensible, LimitsInv, Tick
  PROVE  LimitsInv'
<1>1. /\ Buckets /\ Within /\ now \in 0..EndOfTime /\ now \in Nat
      /\ sock \in [Socks -> {None} \cup [block : Sources, last : 0..EndOfTime]]
      /\ peerActive \in 0..MAX_CONNS /\ peerActive = Cardinality(Open)
  BY Split
<1>2. /\ now < EndOfTime /\ now' = now + 1
      /\ UNCHANGED <<rlBuckets, sock, peerActive, let, others>>
  BY DEF Tick
<1>3. now' \in 0..EndOfTime /\ now' \in Nat /\ now <= now'
  BY <1>1, <1>2, Sizes
<1>4. let' \in [Sources -> Seq(0..now')]
  BY <1>1, <1>2, <1>3 DEF Buckets, Paid
<1>5. Ordered'
  BY <1>1, <1>2, SameOrder DEF Buckets
<1>6. \A i \in DOMAIN rlBuckets : PaidBy(rlBuckets[i])'
  <2> SUFFICES ASSUME NEW i \in DOMAIN rlBuckets
               PROVE  PaidBy(rlBuckets[i])'
    OBVIOUS
  <2>1. PaidBy(rlBuckets[i]) /\ rlBuckets[i] \in Bucket_
    BY <1>1 DEF Buckets, Paid
  <2>2. rlBuckets[i].ts <= now'
    BY <1>1, <1>2, <2>1 DEF PaidBy, Bucket_
  <2>3. QED
    BY <1>2, <2>1, <2>2 DEF PaidBy
<1>7. Within'
  <2> SUFFICES ASSUME NEW b \in Sources, NEW i \in DOMAIN let[b]
               PROVE  Len(let[b]) - i + 1 <= Burst(b) + Due(b, let[b][i], now')
    BY <1>2 DEF Within
  <2> DEFINE t == let[b][i]
  <2>1. let[b] \in Seq(0..now) /\ t \in 0..now /\ Every(b) \in Nat \ {0} /\ Burst(b) \in Nat
    BY <1>1, Rates DEF Buckets, Paid
  <2>2. /\ Due(b, t, now) \in Nat /\ Due(b, t, now') \in Nat /\ (now' - now) \div Every(b) \in Nat
        /\ Due(b, t, now) + ((now' - now) \div Every(b)) <= Due(b, t, now')
    BY <1>1, <1>3, <2>1, DueGrows
  <2>3. Len(let[b]) - i + 1 <= Burst(b) + Due(b, t, now) /\ Len(let[b]) - i + 1 \in Int
    BY <1>1, <2>1 DEF Within
  <2> HIDE DEF t
  <2>4. Len(let[b]) - i + 1 <= Burst(b) + Due(b, t, now')
    <3> DEFINE d == Due(b, t, now)
               f == Due(b, t, now')
               l == Len(let[b]) - i + 1
    <3>1. d \in Nat /\ f \in Nat /\ d <= f /\ l \in Int /\ l <= Burst(b) + d
      BY <2>2, <2>3
    <3> HIDE DEF d, f, l
    <3>2. l <= Burst(b) + f
      BY <2>1, <3>1
    <3>3. QED
      BY <3>2 DEF l, f
  <2>5. QED
    BY <2>4 DEF t
<1>8. Buckets'
  BY <1>1, <1>2, <1>4, <1>5, <1>6 DEF Buckets, Paid
<1>9. QED
  BY <1>1, <1>2, <1>3, <1>7, <1>8, Joined DEF Open

LEMMA InvInit == Sensible /\ Init => LimitsInv
<1> SUFFICES ASSUME Sensible, Init PROVE LimitsInv
  OBVIOUS
<1>1. Open = {} /\ Cardinality(Open) = 0
  BY FS_EmptySet DEF Init, Open
<1>2. Buckets /\ Within
  BY Sizes DEF Init, Buckets, Within, Ordered, Paid, Later, Known
<1>3. QED
  BY <1>1, <1>2, Split, Sizes DEF Init

LEMMA InvStep == Sensible /\ LimitsInv /\ [Next]_vars => LimitsInv'
<1> SUFFICES ASSUME Sensible, LimitsInv, [Next]_vars PROVE LimitsInv'
  OBVIOUS
<1>0. ASSUME UNCHANGED vars
      PROVE  LimitsInv'
  BY <1>0, Same, Split, Joined DEF vars, Open
<1>1. ASSUME NEW b \in Sources, Full(b) \/ Refused(b) \/ \E s \in Socks : LetIn(s, b)
      PROVE  LimitsInv'
  BY <1>0, <1>1, RefusedStep, LetInStep DEF Full
<1>2. QED
  BY <1>0, <1>1, BytesStep, ClosesStep, TickStep DEF Next

LEMMA Always == Sensible /\ Spec => []LimitsInv
<1> SUFFICES ASSUME Sensible PROVE Spec => []LimitsInv
  OBVIOUS
<1> QED
  BY InvInit, InvStep, PTL DEF Spec

-----------------------------------------------------------------------------

\* Every variable keeps its type (onPeerSocket, rateOk).
THEOREM TypeCorrect == Sensible /\ Spec => []TypeOK
<1>1. LimitsInv => TypeOK
  BY DEF LimitsInv
<1>2. QED
  BY <1>1, Always, PTL

\* peerActive counts the sockets that are open; a source that is not pushed out by as
\* many others as there are buckets gets its burst and one connection a refill
\* (rateOk), at any rates and however the sources take turns.
THEOREM LimitsHoldTheorem == Sensible /\ Spec => []LimitsHold
<1>1. LimitsInv => LimitsHold
  BY DEF LimitsInv
<1>2. QED
  BY <1>1, Always, PTL
=============================================================================
