---------------------------- MODULE SocialProofs ----------------------------
(***************************************************************************)
(* Proofs about the components that MCSocial checks side by side, for every *)
(* value of their constants: a room and its words (Rooms), the history and  *)
(* its passphrase (Vault), and posts (Feed).  While which names a component *)
(* the steps are that component's.                                         *)
(***************************************************************************)
EXTENDS MCSocial, FiniteSetTheorems, WellFoundedInduction, TLAPS

LEMMA SocialSteps ==
  ASSUME [SocialNext]_<<which, vars, feedVars, vaultVars>>
  PROVE  /\ which' = which
         /\ [Next]_vars
         /\ [H!Next]_(H!vars)
         /\ [F!Next]_(F!vars)
  BY DEF SocialNext, feedVars, vaultVars, H!vars, F!vars

-----------------------------------------------------------------------------
(* Posts: for any daemons, posts, limits and ways the frames go round, one's *)
(* own posts stay and no post travels twice, as long as the ids of all that *)
(* is dropped are remembered.                                              *)

FdStamps == (0..PostsEnd) \X (1..F!Cardinality(Posts))
FdStamped(w) == w \in [Posts -> FdStamps \cup {None}]
FdStoreType == [held : [Posts -> F!Entry \cup {None}], evicted : Seq(Posts)]
FdIds(q) == {q[i] : i \in DOMAIN q}

\* What daemon d may hold of post p: its own as its own, and what came over one hop
\* from its author.
FdIs(d, w, p, e) ==
  /\ e \in F!Entry /\ w[p] # None
  /\ e.via = None <=> e.hops = 0
  /\ e.via = None => Author[p] = d
  /\ e.hops = 1 => e.via = Author[p]

\* A store of d: what it dropped it does not hold, and dropped once.
FdStore(d, w, s) ==
  /\ s \in FdStoreType
  /\ \A p \in Posts : s.held[p] # None => FdIs(d, w, p, s.held[p])
  /\ \A i \in DOMAIN s.evicted : w[s.evicted[i]] # None /\ s.held[s.evicted[i]] = None
  /\ \A i, j \in DOMAIN s.evicted : s.evicted[i] = s.evicted[j] => i = j

\* The ids of all posts fit in what is remembered of dropped ones.
FdFits == EvictedCap >= Cardinality(Posts)

\* t is s without some of S, which it remembers.
FdLess(s, t, S) ==
  /\ \A p \in Posts : \/ t.held[p] = s.held[p]
                      \/ t.held[p] = None /\ p \in S /\ (FdFits => p \in FdIds(t.evicted))
  /\ FdFits => FdIds(s.evicted) \subseteq FdIds(t.evicted)

LEMMA FdCardIs == ASSUME NEW S PROVE F!Cardinality(S) = Cardinality(S)
  BY DEF F!Cardinality, Cardinality

LEMMA FdNumbers ==
  /\ {MaxPosts, TrimTo, EvictedCap, LinkMaxPosts, Minute, PostsOverlap, Day, Week, PostsKeep, PostsEnd} \subseteq Nat
  /\ MaxPerAuthor \in Nat \ {0} /\ PerFrame \in Nat \ {0} /\ Cardinality(Posts) \in Nat
  BY FeedAssumption, FS_CardinalityType

LEMMA FdUpTo == ASSUME NEW n \in Nat PROVE Cardinality(1..n) = n
<1>1. 1 \in Int /\ n \in Int
  OBVIOUS
<1>2. QED
  BY <1>1, FS_Interval

LEMMA FdRepeats ==
  ASSUME NEW q \in Seq(Posts), \A i, j \in DOMAIN q : q[i] = q[j] => i = j
  PROVE  Len(q) <= Cardinality(Posts)
<1>1. q \in Injection(1..Len(q), Posts)
  BY DEF Injection, IsInjective
<1>2. Cardinality(1..Len(q)) <= Cardinality(Posts)
  BY <1>1, FeedAssumption, FS_Injection
<1>3. Len(q) \in Nat
  OBVIOUS
<1>4. Cardinality(1..Len(q)) = Len(q)
  BY <1>3, FdUpTo
<1>5. QED
  BY <1>2, <1>4

\* drop().
LEMMA FdDropped ==
  ASSUME NEW d, NEW w, NEW s, FdStore(d, w, s), NEW p \in Posts, s.held[p] # None,
         NEW t, t = F!Drop(s, p)
  PROVE  /\ FdStore(d, w, t)
         /\ \A q \in Posts : t.held[q] = IF q = p THEN None ELSE s.held[q]
         /\ FdFits => FdIds(t.evicted) = FdIds(s.evicted) \cup {p}
<1> DEFINE e == Append(s.evicted, p)
           n == Len(s.evicted)
<1>1. s.evicted \in Seq(Posts) /\ s.held \in [Posts -> F!Entry \cup {None}] /\ n \in Nat /\ DOMAIN s.evicted = 1..n
  BY DEF FdStore, FdStoreType
<1>2. e \in Seq(Posts) /\ Len(e) = n + 1 /\ DOMAIN e = 1..(n + 1)
      /\ e[n + 1] = p /\ \A i \in 1..n : e[i] = s.evicted[i]
  BY <1>1
<1>3. \A i, j \in DOMAIN e : e[i] = e[j] => i = j
  <2> SUFFICES ASSUME NEW i \in 1..(n + 1), NEW j \in 1..(n + 1), e[i] = e[j] PROVE i = j
    BY <1>2
  <2>1. \A k \in 1..n : s.evicted[k] # p
    BY <1>1 DEF FdStore
  <2>2. CASE i \in 1..n /\ j \in 1..n
    BY <1>1, <1>2, <2>2 DEF FdStore
  <2>3. CASE ~(i \in 1..n /\ j \in 1..n)
    <3>1. (i = n + 1 \/ i \in 1..n) /\ (j = n + 1 \/ j \in 1..n)
      BY <1>1
    <3>2. QED
      BY <1>2, <2>1, <2>3, <3>1
  <2>4. QED
    BY <2>2, <2>3
<1> HIDE DEF e, n
<1>4. t.held = [s.held EXCEPT ![p] = None] /\ t = [held |-> t.held, evicted |-> t.evicted]
      /\ t.evicted = IF Len(e) > EvictedCap THEN Tail(e) ELSE e
  BY DEF F!Drop, e
<1>5. t.held \in [Posts -> F!Entry \cup {None}] /\ \A q \in Posts : t.held[q] = IF q = p THEN None ELSE s.held[q]
  BY <1>1, <1>4
<1>6. \A i \in DOMAIN e : w[e[i]] # None /\ t.held[e[i]] = None
  <2> SUFFICES ASSUME NEW i \in 1..(n + 1) PROVE w[e[i]] # None /\ t.held[e[i]] = None
    BY <1>2
  <2>1. CASE i = n + 1
    BY <1>2, <1>5, <2>1 DEF FdStore, FdIs
  <2>2. CASE i \in 1..n
    <3>1. e[i] = s.evicted[i] /\ e[i] \in Posts
      BY <1>1, <1>2, <2>2
    <3>2. w[e[i]] # None /\ s.held[e[i]] = None
      BY <1>1, <2>2, <3>1 DEF FdStore
    <3>3. QED
      BY <1>5, <3>1, <3>2
  <2>3. QED
    BY <1>1, <2>1, <2>2
<1>7. /\ t.evicted \in Seq(Posts)
      /\ \A i \in DOMAIN t.evicted : w[t.evicted[i]] # None /\ t.held[t.evicted[i]] = None
      /\ \A i, j \in DOMAIN t.evicted : t.evicted[i] = t.evicted[j] => i = j
  <2>1. CASE t.evicted = e
    BY <1>2, <1>3, <1>6, <2>1
  <2>2. CASE t.evicted = Tail(e)
    <3> DEFINE r == Tail(e)
    <3>1. r \in Seq(Posts) /\ DOMAIN r = 1..n /\ \A i \in 1..n : r[i] = e[i + 1] /\ i + 1 \in DOMAIN e /\ i \in Int
      BY <1>1, <1>2
    <3>1a. t.evicted = r
      BY <2>2
    <3> HIDE DEF r
    <3>2. \A i \in 1..n : w[r[i]] # None /\ t.held[r[i]] = None
      BY <1>6, <3>1
    <3>3. ASSUME NEW i \in 1..n, NEW j \in 1..n, r[i] = r[j] PROVE i = j
      <4>1. i + 1 = j + 1
        BY <1>3, <3>1, <3>3
      <4>2. QED
        BY <3>1, <4>1
    <3>4. QED
      BY <3>1, <3>1a, <3>2, <3>3
  <2>3. QED
    BY <1>4, <2>1, <2>2
<1>8. FdStore(d, w, t)
  <2>1. t \in FdStoreType
    BY <1>4, <1>5, <1>7 DEF FdStoreType
  <2>2. \A q \in Posts : t.held[q] # None => FdIs(d, w, q, t.held[q])
    BY <1>5 DEF FdStore
  <2>3. QED
    BY <1>7, <2>1, <2>2 DEF FdStore
<1>9. ASSUME FdFits PROVE FdIds(t.evicted) = FdIds(s.evicted) \cup {p}
  <2>1. Len(e) <= Cardinality(Posts)
    BY <1>2, <1>3, FdRepeats
  <2>2. Len(e) \in Nat /\ Cardinality(Posts) \in Nat /\ EvictedCap \in Nat
    BY <1>1, <1>2, FdNumbers
  <2>3. t.evicted = e
    BY <1>4, <1>9, <2>1, <2>2 DEF FdFits
  <2>4. DOMAIN e = DOMAIN s.evicted \cup {n + 1}
    BY <1>1, <1>2
  <2>5. QED
    BY <1>1, <1>2, <2>3, <2>4 DEF FdIds
<1>10. QED
  BY <1>5, <1>8, <1>9

GT == INSTANCE Folding WITH Op <- F!TrimOther
GA == INSTANCE Folding WITH Op <- LAMBDA k, u, p : F!TrimAny(u, p)
GC == INSTANCE Folding WITH Op <- F!TakeItem

\* sort(): all of ps, the oldest first.
LEMMA FdOldest ==
  ASSUME NEW w, FdStamped(w), NEW ps \in SUBSET Posts, \A p \in ps : w[p] # None
  PROVE  LET q == F!OldestFirst(w, ps)   n == Cardinality(ps)
         IN  /\ n \in Nat /\ q \in [1..n -> ps]
             /\ \A i, j \in 1..n : i # j => q[i] # q[j]
             /\ \A p \in ps : \E i \in 1..n : q[i] = p
<1> DEFINE rank == [p \in ps |-> w[p][2]]
<1>1. GT!IsFiniteSet(ps) /\ IsFiniteSet(ps)
  <2>1. IsFiniteSet(ps)
    BY FeedAssumption, FS_Subset
  <2>2. QED
    BY <2>1 DEF IsFiniteSet, GT!IsFiniteSet
<1>2. \A p \in ps : rank[p] \in Int
  <2>1. F!Cardinality(Posts) \in Nat
    BY FdNumbers, FdCardIs
  <2>2. QED
    BY <2>1 DEF FdStamped, FdStamps
<1>3. F!OldestFirst(w, ps) = GT!SortedBy(ps, rank)
  BY DEF F!OldestFirst, F!SortedBy, GT!SortedBy, F!SetToSeqs, GT!SetToSeqs, F!Cardinality, GT!Cardinality
<1>4. GT!Cardinality(ps) = Cardinality(ps)
  BY DEF GT!Cardinality, Cardinality
<1> HIDE DEF rank
<1>5. QED
  BY <1>1, <1>2, <1>3, <1>4, GT!Sorted

\* One item of trimPosts().
LEMMA FdLessMore ==
  ASSUME NEW d, NEW w, NEW s, NEW u, FdStore(d, w, u), NEW S, FdLess(s, u, S),
         NEW p \in Posts, u.held[p] # None, NEW v, v = F!Drop(u, p)
  PROVE  FdStore(d, w, v) /\ FdLess(s, v, S \cup {p})
<1>1. /\ FdStore(d, w, v)
      /\ \A q \in Posts : v.held[q] = IF q = p THEN None ELSE u.held[q]
      /\ FdFits => FdIds(v.evicted) = FdIds(u.evicted) \cup {p}
  BY FdDropped
<1>2. \A q \in Posts : \/ u.held[q] = s.held[q]
                       \/ u.held[q] = None /\ q \in S /\ (FdFits => q \in FdIds(u.evicted))
  BY DEF FdLess
<1>3. FdFits => FdIds(s.evicted) \subseteq FdIds(u.evicted)
  BY DEF FdLess
<1>4. \A q \in Posts : \/ v.held[q] = s.held[q]
                       \/ v.held[q] = None /\ q \in S \cup {p} /\ (FdFits => q \in FdIds(v.evicted))
  BY <1>1, <1>2
<1>5. QED
  BY <1>1, <1>3, <1>4 DEF FdLess

\* trimPosts().
LEMMA FdTrimmed ==
  ASSUME NEW d, NEW w, FdStamped(w), NEW s, FdStore(d, w, s), NEW keep, NEW t, t = F!Trim(w, s, keep)
  PROVE  FdStore(d, w, t) /\ FdLess(s, t, F!Forwarded(s))
<1> DEFINE all == F!OldestFirst(w, F!Forwarded(s))
           n == Cardinality(F!Forwarded(s))
           first == GT!Value(keep, s, all)
           A(m) == GT!After(keep, s, all, m)
           Done(m) == {all[i] : i \in 1..m}
           Fine(m) == FdStore(d, w, A(m)) /\ FdLess(s, A(m), Done(m))
           Ms == {m \in 0..n : Fine(m)}
           D == {u \in FdStoreType : FdStore(d, w, u) /\ FdLess(s, u, F!Forwarded(s))}
<1>1. F!Forwarded(s) \in SUBSET Posts /\ \A p \in F!Forwarded(s) : s.held[p] # None /\ w[p] # None
  BY DEF F!Forwarded, F!Held, FdStore, FdIs
<1>2. /\ n \in Nat /\ all \in [1..n -> F!Forwarded(s)] /\ DOMAIN all = 1..n
      /\ \A i, j \in 1..n : i # j => all[i] # all[j]
  BY <1>1, FdOldest
<1>3. t = s \/ t = GA!Value(0, first, all)
  <2>1. F!FoldLeft(LAMBDA u, p : F!TrimOther(keep, u, p), s, all) = first
    <3> HIDE DEF all
    <3>1. QED
      BY DEF F!FoldLeft, F!MapThenFoldSet, GT!Value, GT!FoldOf, GT!Folds, GT!Max, F!Max
  <2> HIDE DEF first, all
  <2>2. F!FoldLeft(F!TrimAny, first, all) = GA!Value(0, first, all)
    BY DEF F!FoldLeft, F!MapThenFoldSet, GA!Value, GA!FoldOf, GA!Folds, GA!Max, F!Max
  <2>3. t = s \/ t = F!FoldLeft(F!TrimAny, F!FoldLeft(LAMBDA u, p : F!TrimOther(keep, u, p), s, all), all)
    BY DEF F!Trim, all
  <2>4. QED
    BY <2>1, <2>2, <2>3
<1> HIDE DEF all, n
<1>4. FdStore(d, w, s) /\ FdLess(s, s, {})
  BY DEF FdLess
<1>5. A(0) = s /\ first = A(n)
  BY <1>2, GT!Start, GT!Whole
<1>5a. ASSUME NEW l \in 1..n PROVE A(l) = F!TrimOther(keep, A(l - 1), all[l])
  BY <1>2, GT!Steps
<1>6. 0 \in Ms
  <2>1. Done(0) = {}
    OBVIOUS
  <2>2. Fine(0)
    BY <1>4, <1>5, <2>1
  <2>3. QED
    BY <1>2, <2>2
<1>7. ASSUME NEW m \in 0..(n - 1), m \in Ms PROVE m + 1 \in Ms
  <2>1. m + 1 \in 1..n /\ m \in Nat
    BY <1>2
  <2>2. A(m + 1) = F!TrimOther(keep, A(m), all[m + 1])
    <3>1. A(m + 1) = F!TrimOther(keep, A(m + 1 - 1), all[m + 1])
      <4> HIDE DEF A
      <4>1. QED
        BY <1>2, <1>5a, <2>1
    <3>2. m + 1 - 1 = m
      BY <2>1
    <3>3. QED
      BY <3>1, <3>2
  <2>3. Fine(m)
    BY <1>7
  <2>4. Done(m + 1) = Done(m) \cup {all[m + 1]}
    BY <2>1
  <2>5. all[m + 1] \in F!Forwarded(s) /\ all[m + 1] \in Posts /\ all[m + 1] \notin Done(m)
    BY <1>1, <1>2, <2>1
  <2> DEFINE u == A(m)   p == all[m + 1]
  <2>6. u.held[p] # None
    <3>1. u.held[p] = s.held[p] \/ p \in Done(m)
      BY <2>3, <2>5 DEF FdLess
    <3>2. QED
      BY <1>1, <2>5, <3>1
  <2>7. A(m + 1) = u \/ A(m + 1) = F!Drop(u, p)
    BY <2>2 DEF F!TrimOther
  <2> HIDE DEF A, Done
  <2>8. CASE A(m + 1) = u
    <3>1. FdLess(s, u, Done(m) \cup {p})
      BY <2>3 DEF FdLess
    <3>2. Fine(m + 1)
      BY <2>3, <2>4, <2>8, <3>1
    <3>3. QED
      BY <2>1, <3>2
  <2>9. CASE A(m + 1) = F!Drop(u, p)
    <3>1. FdStore(d, w, A(m + 1)) /\ FdLess(s, A(m + 1), Done(m) \cup {p})
      BY <2>3, <2>5, <2>6, <2>9, FdLessMore
    <3>2. Fine(m + 1)
      BY <2>4, <3>1
    <3>3. QED
      BY <2>1, <3>2
  <2>10. QED
    BY <2>7, <2>8, <2>9
<1>8. n \in Ms
  <2> HIDE DEF Ms
  <2>1. 0..n \subseteq Ms
    BY <1>2, <1>6, <1>7, GT!UpTo
  <2>2. QED
    BY <1>2, <2>1
<1>9. first \in D
  <2>1. FdStore(d, w, first) /\ FdLess(s, first, Done(n))
    BY <1>5, <1>8
  <2>2. Done(n) \subseteq F!Forwarded(s)
    BY <1>2
  <2>3. FdLess(s, first, F!Forwarded(s))
    BY <2>1, <2>2 DEF FdLess
  <2>4. first \in FdStoreType
    BY <2>1 DEF FdStore
  <2>5. QED
    BY <2>1, <2>3, <2>4
<1> HIDE DEF first
<1>10. ASSUME NEW u \in D, NEW i \in 1..n PROVE F!TrimAny(u, all[i]) \in D
  <2> DEFINE p == all[i]   v == F!TrimAny(u, p)
  <2>1. p \in F!Forwarded(s) /\ p \in Posts
    BY <1>1, <1>2
  <2>2. v = u \/ (v = F!Drop(u, p) /\ u.held[p] # None)
    BY <2>1 DEF F!TrimAny, F!Held
  <2> HIDE DEF p, v
  <2>3. CASE v = F!Drop(u, p) /\ u.held[p] # None
    <3>1. FdStore(d, w, v) /\ FdLess(s, v, F!Forwarded(s) \cup {p})
      BY <2>1, <2>3, FdLessMore
    <3>2. F!Forwarded(s) \cup {p} = F!Forwarded(s)
      BY <2>1
    <3>3. v \in FdStoreType
      BY <3>1 DEF FdStore
    <3>4. QED
      BY <3>1, <3>2, <3>3 DEF v, p
  <2>4. QED
    BY <2>2, <2>3 DEF v, p
<1>11. GA!Value(0, first, all) \in D
  <2> HIDE DEF D
  <2>1. QED
    BY <1>2, <1>9, <1>10, GA!Run
<1>12. CASE t = s
  BY <1>4, <1>12 DEF FdLess
<1>13. QED
  BY <1>3, <1>11, <1>12

\* t is s with p in it, as e, but for what that drops.
FdPut(s, t, p, e) ==
  /\ s.held[p] = None /\ p \notin FdIds(s.evicted)
  /\ \A q \in Posts : q # p =>
       \/ t.held[q] = s.held[q]
       \/ /\ t.held[q] = None /\ (FdFits => q \in FdIds(t.evicted)) /\ s.held[q] # None
          /\ s.held[q].via # None \/ Author[q] = Author[p]
  /\ t.held[p] = e \/ (t.held[p] = None /\ (FdFits => p \in FdIds(t.evicted)))
  /\ FdFits => FdIds(s.evicted) \subseteq FdIds(t.evicted)

LEMMA FdKnown ==
  ASSUME NEW s, NEW p \in Posts
  PROVE  F!Knows(s, p) <=> s.held[p] # None \/ p \in FdIds(s.evicted)
  BY DEF F!Knows, F!Held, F!ToSet, FdIds

\* addPost().
LEMMA FdAdded ==
  ASSUME NEW d, NEW w, FdStamped(w), NEW s, FdStore(d, w, s), NEW p \in Posts,
         NEW e, FdIs(d, w, p, e), NEW mine, NEW keep, F!Accepts(w, s, p, mine),
         NEW t, t = F!AddPost(w, s, p, e, mine, keep)
  PROVE  FdStore(d, w, t) /\ FdPut(s, t, p, e)
<1> DEFINE theirs == F!ByAuthor(s, Author[p])
           put == [s EXCEPT !.held[p] = e]
           goes == F!OldestFirst(w, theirs)[1]
           limited == IF F!Cardinality(theirs) + 1 > MaxPerAuthor THEN F!Drop(put, goes) ELSE put
<1>1. /\ s.evicted \in Seq(Posts) /\ s.held \in [Posts -> F!Entry \cup {None}]
      /\ s = [held |-> s.held, evicted |-> s.evicted]
  BY DEF FdStore, FdStoreType
<1>2. s.held[p] = None /\ p \notin FdIds(s.evicted)
  BY FdKnown DEF F!Accepts
<1>3. /\ put.evicted = s.evicted /\ put.held \in [Posts -> F!Entry \cup {None}]
      /\ put = [held |-> put.held, evicted |-> put.evicted]
      /\ \A q \in Posts : put.held[q] = IF q = p THEN e ELSE s.held[q]
  BY <1>1 DEF FdIs
<1>4. e # None /\ e \in F!Entry
  BY FeedAssumption DEF FdIs
<1> HIDE DEF put
<1>5. FdStore(d, w, put)
  <2>1. put \in FdStoreType
    BY <1>1, <1>3 DEF FdStoreType
  <2>2. \A q \in Posts : put.held[q] # None => FdIs(d, w, q, put.held[q])
    BY <1>3 DEF FdStore
  <2>3. \A i \in DOMAIN put.evicted : w[put.evicted[i]] # None /\ put.held[put.evicted[i]] = None
    <3> SUFFICES ASSUME NEW i \in DOMAIN s.evicted PROVE w[s.evicted[i]] # None /\ put.held[s.evicted[i]] = None
      BY <1>3
    <3>1. s.evicted[i] \in Posts /\ s.evicted[i] # p
      BY <1>1, <1>2 DEF FdIds
    <3>2. QED
      BY <1>3, <3>1 DEF FdStore
  <2>4. QED
    BY <1>3, <2>1, <2>2, <2>3 DEF FdStore
<1>6. theirs \in SUBSET Posts /\ \A q \in theirs : s.held[q] # None /\ w[q] # None /\ Author[q] = Author[p]
  BY DEF F!ByAuthor, F!Held, FdStore, FdIs
<1> HIDE DEF theirs
<1>7. \/ limited = put
      \/ limited = F!Drop(put, goes) /\ goes \in theirs
  <2>1. CASE F!Cardinality(theirs) + 1 > MaxPerAuthor
    <3>1. Cardinality(theirs) \in Nat /\ F!OldestFirst(w, theirs) \in [1..Cardinality(theirs) -> theirs]
      BY <1>6, FdOldest
    <3>2. Cardinality(theirs) + 1 > MaxPerAuthor
      BY <2>1, FdCardIs
    <3>3. 1 \in 1..Cardinality(theirs)
      BY <3>1, <3>2, FdNumbers
    <3>4. goes \in theirs
      BY <3>1, <3>3
    <3>5. QED
      BY <2>1, <3>4
  <2>2. CASE ~(F!Cardinality(theirs) + 1 > MaxPerAuthor)
    BY <2>2
  <2>3. QED
    BY <2>1, <2>2
<1> HIDE DEF goes, limited
<1>8. FdStore(d, w, limited) /\ FdLess(put, limited, theirs)
  <2>1. CASE limited = put
    BY <1>5, <2>1 DEF FdLess
  <2>2. CASE limited = F!Drop(put, goes) /\ goes \in theirs
    <3>1. goes \in Posts /\ put.held[goes] # None
      BY <1>3, <1>4, <1>6, <2>2
    <3>2. /\ FdStore(d, w, limited)
          /\ \A q \in Posts : limited.held[q] = IF q = goes THEN None ELSE put.held[q]
          /\ FdFits => FdIds(limited.evicted) = FdIds(put.evicted) \cup {goes}
      BY <1>5, <2>2, <3>1, FdDropped
    <3>3. QED
      BY <2>2, <3>2 DEF FdLess
  <2>3. QED
    BY <1>7, <2>1, <2>2
<1>9. t = F!Trim(w, limited, keep)
  BY DEF F!AddPost, limited, goes, put, theirs
<1>10. FdStore(d, w, t) /\ FdLess(limited, t, F!Forwarded(limited))
  BY <1>8, <1>9, FdTrimmed
<1>11. FdFits => FdIds(s.evicted) \subseteq FdIds(limited.evicted) /\ FdIds(limited.evicted) \subseteq FdIds(t.evicted)
  BY <1>3, <1>8, <1>10 DEF FdLess
<1>12. ASSUME NEW q \in Posts
       PROVE  \/ t.held[q] = put.held[q]
              \/ /\ t.held[q] = None /\ (FdFits => q \in FdIds(t.evicted)) /\ put.held[q] # None
                 /\ put.held[q].via # None \/ Author[q] = Author[p]
  <2>1. CASE limited.held[q] = put.held[q]
    <3>1. \/ t.held[q] = put.held[q]
          \/ t.held[q] = None /\ q \in F!Forwarded(limited) /\ (FdFits => q \in FdIds(t.evicted))
      BY <1>10, <2>1 DEF FdLess
    <3>2. q \in F!Forwarded(limited) => put.held[q] # None /\ put.held[q].via # None
      BY <2>1 DEF F!Forwarded, F!Held
    <3>3. QED
      BY <3>1, <3>2
  <2>2. CASE limited.held[q] # put.held[q]
    <3>1. limited.held[q] = None /\ q \in theirs /\ (FdFits => q \in FdIds(limited.evicted))
      BY <1>8, <2>2 DEF FdLess
    <3>2. t.held[q] = None
      <4>1. t.held[q] = limited.held[q] \/ t.held[q] = None
        BY <1>10 DEF FdLess
      <4>2. QED
        BY <3>1, <4>1
    <3>3. put.held[q] # None
      BY <2>2, <3>1
    <3>4. QED
      BY <1>6, <1>11, <3>1, <3>2, <3>3
  <2>3. QED
    BY <2>1, <2>2
<1>13. FdPut(s, t, p, e)
  <2>1. \A q \in Posts : q # p =>
          \/ t.held[q] = s.held[q]
          \/ /\ t.held[q] = None /\ (FdFits => q \in FdIds(t.evicted)) /\ s.held[q] # None
             /\ s.held[q].via # None \/ Author[q] = Author[p]
    BY <1>3, <1>12
  <2>2. t.held[p] = e \/ (t.held[p] = None /\ (FdFits => p \in FdIds(t.evicted)))
    BY <1>3, <1>12
  <2>3. QED
    BY <1>2, <1>11, <2>1, <2>2 DEF FdPut
<1>14. QED
  BY <1>10, <1>13

\* All that d wrote it holds as its own, or remembers.
FdAll(d, w, s) ==
  \A p \in Posts : Author[p] = d /\ w[p] # None =>
    (s.held[p] # None /\ s.held[p].via = None) \/ p \in FdIds(s.evicted)

FdItem(a, w, it) == it \in F!Item /\ w[it.p] # None /\ (it.h = 0 => Author[it.p] = a)

\* From the store b of d to s: what b knows s knows; what is new was unknown and is young;
\* and one's own stays.
FdTook(d, w, b, s) ==
  /\ \A q \in Posts : b.held[q] # None \/ q \in FdIds(b.evicted) => s.held[q] # None \/ q \in FdIds(s.evicted)
  /\ \A q \in Posts : b.held[q] = None /\ s.held[q] # None => q \notin FdIds(b.evicted) /\ w[q][1] + PostsKeep >= feedNow
  /\ FdAll(d, w, b) => \A q \in Posts : b.held[q] # None /\ b.held[q].via = None => s.held[q] = b.held[q]

\* One item more.
LEMMA FdTookMore ==
  ASSUME FdFits, NEW d, NEW w, NEW b, FdStore(d, w, b), NEW s, FdStore(d, w, s), FdTook(d, w, b, s),
         NEW p \in Posts, NEW e, FdIs(d, w, p, e), e.via # None, w[p][1] + PostsKeep >= feedNow,
         NEW t, FdStore(d, w, t), FdPut(s, t, p, e)
  PROVE  FdTook(d, w, b, t)
<1>1. \A q \in Posts : s.held[q] # None \/ q \in FdIds(s.evicted) => t.held[q] # None \/ q \in FdIds(t.evicted)
  BY FeedAssumption DEF FdPut, FdIs
<1>2. \A q \in Posts : b.held[q] # None \/ q \in FdIds(b.evicted) => t.held[q] # None \/ q \in FdIds(t.evicted)
  BY <1>1 DEF FdTook
<1>3. b.held[p] = None /\ p \notin FdIds(b.evicted)
  BY DEF FdTook, FdPut
<1>4. \A q \in Posts : q # p /\ t.held[q] # None => s.held[q] # None
  BY DEF FdPut
<1>5. \A q \in Posts : b.held[q] = None /\ t.held[q] # None => q \notin FdIds(b.evicted) /\ w[q][1] + PostsKeep >= feedNow
  BY <1>3, <1>4 DEF FdTook
<1>6. ASSUME FdAll(d, w, b), NEW q \in Posts, b.held[q] # None, b.held[q].via = None PROVE t.held[q] = b.held[q]
  <2>1. q # p
    BY <1>3, <1>6
  <2>2. s.held[q] = b.held[q]
    BY <1>6 DEF FdTook
  <2>3. Author[q] = d
    BY <1>6 DEF FdStore, FdIs
  <2>4. Author[p] # d
    BY <1>3, <1>6 DEF FdAll, FdIs
  <2>5. QED
    BY <1>6, <2>1, <2>2, <2>3, <2>4 DEF FdPut
<1>7. QED
  BY <1>2, <1>5, <1>6 DEF FdTook

LEMMA FdTakes ==
  ASSUME NEW d \in Daemons, NEW c \in Daemons, FdStamped(written), FdStore(d, written, F!StoreOf(d)),
         NEW items \in Seq(F!Item), \A i \in DOMAIN items : FdItem(c, written, items[i]),
         NEW t, t = F!Taking(d, c, items)
  PROVE  FdStore(d, written, t) /\ (FdFits => FdTook(d, written, F!StoreOf(d), t))
<1> DEFINE b == F!StoreOf(d)
           n == Len(items)
           D == {s \in FdStoreType : FdStore(d, written, s) /\ (FdFits => FdTook(d, written, b, s))}
<1>1. n \in Nat /\ DOMAIN items = 1..n
  OBVIOUS
<1>2. t = GC!Value(<<d, c>>, b, items)
  BY DEF F!Taking, F!FoldLeft, F!MapThenFoldSet, GC!Value, GC!FoldOf, GC!Folds, GC!Max, F!Max
<1> HIDE DEF b, n
<1>3. FdStore(d, written, b)
  BY DEF b
<1>4. b \in D
  <2>1. b \in FdStoreType
    BY <1>3 DEF FdStore
  <2>2. FdTook(d, written, b, b)
    BY DEF FdTook
  <2>3. QED
    BY <1>3, <2>1, <2>2
<1>5. ASSUME NEW s \in D, NEW i \in 1..n PROVE F!TakeItem(<<d, c>>, s, items[i]) \in D
  <2> DEFINE it == items[i]
             u == F!TakeItem(<<d, c>>, s, it)
             e == [via |-> c, hops |-> it.h + 1]
  <2>1. FdItem(c, written, it) /\ it.p \in Posts /\ it.h \in 0..2
    BY <1>1 DEF FdItem, F!Item
  <2>2. \/ u = s
        \/ F!TakesItem(d, c, it) /\ u = F!AddPost(written, s, it.p, e, FALSE, F!FollowSet(d))
    BY DEF F!TakeItem
  <2> HIDE DEF it, u
  <2>3. CASE F!TakesItem(d, c, it) /\ u = F!AddPost(written, s, it.p, e, FALSE, F!FollowSet(d))
    <3>1. CASE ~F!Accepts(written, s, it.p, FALSE)
      BY <2>3, <3>1 DEF F!AddPost, u, it
    <3>2. CASE F!Accepts(written, s, it.p, FALSE)
      <4>1. it.h + 1 \in 0..2 /\ c # None
        BY <2>1, <2>3, FeedAssumption DEF F!TakesItem
      <4>2. FdIs(d, written, it.p, e) /\ e.via # None
        <5>1. e \in F!Entry /\ e.via = c /\ e.hops = it.h + 1
          BY <4>1 DEF F!Entry
        <5>2. e.hops # 0
          BY <2>1, <5>1
        <5>3. e.hops = 1 => e.via = Author[it.p]
          BY <2>1, <5>1 DEF FdItem
        <5> HIDE DEF e
        <5>4. QED
          BY <2>1, <4>1, <5>1, <5>2, <5>3 DEF FdIs, FdItem
      <4> HIDE DEF e
      <4>3. FdStore(d, written, u) /\ FdPut(s, u, it.p, e)
        BY <2>1, <2>3, <3>2, <4>2, FdAdded
      <4>4. written[it.p][1] + PostsKeep >= feedNow
        BY <3>2 DEF F!Accepts
      <4>5. FdFits => FdTook(d, written, b, u)
        BY <1>3, <2>1, <4>2, <4>3, <4>4, FdTookMore
      <4>6. u \in FdStoreType
        BY <4>3 DEF FdStore
      <4>7. QED
        BY <4>3, <4>5, <4>6 DEF u, it
    <3>3. QED
      BY <3>1, <3>2
  <2>4. QED
    BY <2>2, <2>3 DEF u, it
<1>6. GC!Value(<<d, c>>, b, items) \in D
  <2> HIDE DEF D
  <2>1. QED
    BY <1>1, <1>4, <1>5, GC!Run
<1>7. QED
  BY <1>2, <1>6 DEF b

\* sendPosts(): the frames hold the items.
FdHolds(f, T, items) ==
  f \in [t : {"posts"}, items : Seq(T)] /\ \A j \in DOMAIN f.items : \E i \in DOMAIN items : f.items[j] = items[i]

LEMMA FdPart ==
  ASSUME NEW T, NEW q \in Seq(T), NEW lo \in Nat, NEW hi \in Int, hi <= Len(q)
  PROVE  /\ SubSeq(q, lo + 1, hi) \in Seq(T)
         /\ \A j \in DOMAIN SubSeq(q, lo + 1, hi) : \E i \in DOMAIN q : SubSeq(q, lo + 1, hi)[j] = q[i]
<1> DEFINE s == SubSeq(q, lo + 1, hi)
           n == IF lo <= hi THEN hi - lo ELSE 0
<1>1. Len(q) \in Nat /\ DOMAIN q = 1..Len(q) /\ n \in Nat
  OBVIOUS
<1>2. \A i \in lo + 1..hi : q[i] \in T
  OBVIOUS
<1>3. s \in Seq(T) /\ Len(s) = n /\ \A j \in 1..n : s[j] = q[lo + j]
  <2>1. CASE lo <= hi
    <3>1. lo + 1 \in 1..Len(q) + 1 /\ hi \in lo..Len(q)
      BY <2>1
    <3>2. QED
      BY <1>2, <2>1, <3>1
  <2>2. CASE ~(lo <= hi)
    BY <2>2
  <2>3. QED
    BY <2>1, <2>2
<1> HIDE DEF s, n
<1>4. DOMAIN s = 1..n
  BY <1>1, <1>3
<1>5. \A j \in 1..n : lo + j \in 1..Len(q)
  BY <1>1 DEF n
<1>6. QED
  BY <1>1, <1>3, <1>4, <1>5 DEF s

LEMMA FdFrames ==
  ASSUME NEW T, NEW items \in Seq(T)
  PROVE  /\ F!Frames(items) \in Seq([t : {"posts"}, items : Seq(T)])
         /\ \A i \in DOMAIN F!Frames(items) : FdHolds(F!Frames(items)[i], T, items)
<1> DEFINE l == Len(items)
           n == (l + PerFrame - 1) \div PerFrame
           lo(i) == (i - 1) * PerFrame
           hi(i) == IF i * PerFrame < l THEN i * PerFrame ELSE l
           part(i) == SubSeq(items, lo(i) + 1, hi(i))
           frame(i) == [t |-> "posts", items |-> part(i)]
<1>1. l \in Nat /\ DOMAIN items = 1..l /\ PerFrame \in Nat \ {0}
  BY FdNumbers
<1>2. n \in Int
  BY <1>1
<1>3. ASSUME NEW i \in 1..n PROVE FdHolds(frame(i), T, items)
  <2>1. lo(i) \in Nat
    BY <1>1, <1>2
  <2>2. hi(i) \in Int /\ hi(i) <= Len(items)
    BY <1>1, <1>2
  <2> HIDE DEF lo, hi
  <2>3. /\ part(i) \in Seq(T)
        /\ \A j \in DOMAIN part(i) : \E k \in DOMAIN items : part(i)[j] = items[k]
    BY <2>1, <2>2, FdPart
  <2> HIDE DEF part
  <2>4. QED
    BY <2>3 DEF FdHolds
<1>4. F!Frames(items) = [i \in 1..n |-> frame(i)]
  BY DEF F!Frames
<1> HIDE DEF frame, n
<1>5. \A i \in 1..n : frame(i) \in [t : {"posts"}, items : Seq(T)]
  BY <1>3 DEF FdHolds
<1>6. n = 0 \/ n \in Nat \/ 1..n = {}
  BY <1>2
<1>7. [i \in 1..n |-> frame(i)] \in Seq([t : {"posts"}, items : Seq(T)])
  <2>1. CASE n \in Nat
    BY <1>5, <2>1
  <2>2. CASE ~(n \in Nat)
    <3>1. 1..n = 1..0
      BY <1>2, <2>2
    <3>2. [i \in 1..n |-> frame(i)] = [i \in 1..0 |-> frame(i)]
      BY <3>1
    <3>3. [i \in 1..0 |-> frame(i)] \in Seq([t : {"posts"}, items : Seq(T)])
      OBVIOUS
    <3>4. QED
      BY <3>2, <3>3
  <2>3. QED
    BY <2>1, <2>2
<1>8. QED
  BY <1>3, <1>4, <1>7

-----------------------------------------------------------------------------
FdFrame == [t : {"feed-req"}, since : Int] \cup [t : {"posts"}, items : Seq(F!Item)]

\* A frame of daemon a; and one it may send to x[2] now, its store being h.
FdGood(a, w, f) == f \in FdFrame /\ (f.t = "posts" => \A j \in DOMAIN f.items : FdItem(a, w, f.items[j]))
FdTells(a, h, p) == Author[p] = a \/ (Author[p] \in F!FollowSet(a) /\ h[p].via = Author[p])
FdMay(a, h, f)   == f.t = "posts" => \A j \in DOMAIN f.items : FdTells(a, h, f.items[j].p)

FdTypes ==
  /\ FdStamped(written) /\ held \in [Daemons -> [Posts -> F!Entry \cup {None}]]
  /\ evicted \in [Daemons -> Seq(Posts)] /\ feedFile \in [Daemons -> [Posts -> F!Entry \cup {None}]]
  /\ had \in [Daemons -> SUBSET Posts] /\ feedNow \in 0..PostsEnd /\ feedKills \in Nat
  /\ postsIn \in [F!Pairs -> Nat] /\ feedAt \in [F!Pairs -> 0..PostsEnd \cup {None}]
FdStores == \A d \in Daemons : FdStore(d, written, F!StoreOf(d))
FdFiles  == \A d \in Daemons : \A p \in Posts : feedFile[d][p] # None => FdIs(d, written, p, feedFile[d][p])

\* What a process held it knows, or it is old.
FdKnew(s, p) == s.held[p] # None \/ p \in FdIds(s.evicted)
FdHad == \A d \in Daemons : \A p \in had[d] :
           written[p] # None /\ (FdFits => FdKnew(F!StoreOf(d), p) \/ written[p][1] + PostsKeep < feedNow)
FdOwns == FdFits /\ feedKills = 0 => \A d \in Daemons : FdAll(d, written, F!StoreOf(d))
FdTasks ==
  /\ feedTasks \in [F!Pairs -> Seq(Posts)]
  /\ \A x \in F!Pairs : \A i \in DOMAIN feedTasks[x] :
       Author[feedTasks[x][i]] = x[1] /\ written[feedTasks[x][i]] # None
FdWires ==
  /\ feedWire \in [F!Pairs -> Seq(FdFrame)]
  /\ \A x \in F!Pairs : \A i \in DOMAIN feedWire[x] : FdGood(x[1], written, feedWire[x][i])

FdInv == FdTypes /\ FdStores /\ FdFiles /\ FdHad /\ FdOwns /\ FdTasks /\ FdWires

\* What OwnStays, NewOnce and PassedOnOnce say of a step.
FdKept ==
  \A d \in Daemons, p \in Posts :
    held[d][p] # None /\ held[d][p].via = None /\ held'[d][p] # held[d][p]
      => feedKills' > 0 \/ \E q \in Posts : Author[q] = d /\ written'[q] # written[q]
FdNews == \A d \in Daemons : \A p \in had[d] : held[d][p] = None /\ held'[d][p] # None => feedKills' # feedKills
FdSent == \A x \in F!Pairs : \A i \in DOMAIN feedWire'[x] \ DOMAIN feedWire[x] : FdMay(x[1], held'[x[1]], feedWire'[x][i])
FdStep == FdInv' /\ (FdFits => FdKept /\ FdNews) /\ FdSent

\* Posts stay written.
FdGrows(w, v) == \A p \in Posts : w[p] # None => v[p] = w[p]

LEMMA FdStoreGrows ==
  ASSUME NEW d, NEW w, NEW v, FdGrows(w, v), NEW s, FdStore(d, w, s)
  PROVE  FdStore(d, v, s)
<1>1. s \in FdStoreType
  BY DEF FdStore
<1>2. \A p \in Posts : s.held[p] # None => FdIs(d, v, p, s.held[p])
  BY DEF FdStore, FdIs, FdGrows
<1>3. \A i \in DOMAIN s.evicted : s.evicted[i] \in Posts
  BY <1>1 DEF FdStoreType
<1>4. \A i \in DOMAIN s.evicted : v[s.evicted[i]] # None /\ s.held[s.evicted[i]] = None
  BY <1>3 DEF FdStore, FdGrows
<1>5. QED
  BY <1>1, <1>2, <1>4 DEF FdStore

LEMMA FdGoodGrows ==
  ASSUME NEW a, NEW w, NEW v, FdGrows(w, v), NEW f, FdGood(a, w, f)
  PROVE  FdGood(a, v, f)
<1>1. ASSUME NEW it, FdItem(a, w, it) PROVE FdItem(a, v, it)
  <2>1. it.p \in Posts
    BY <1>1 DEF FdItem, F!Item
  <2>2. QED
    BY <1>1, <2>1 DEF FdItem, FdGrows
<1>2. QED
  BY <1>1 DEF FdGood

\* The frames under way: some more, one less, or others.
LEMMA FdWiresStep ==
  ASSUME FdWires, FdGrows(written, written'), feedWire' \in [F!Pairs -> Seq(FdFrame)],
         \A x \in F!Pairs : \E g \in Seq(FdFrame) :
           /\ feedWire'[x] = feedWire[x] \o g \/ feedWire'[x] = g
              \/ (feedWire[x] # <<>> /\ feedWire'[x] = Tail(feedWire[x]))
           /\ \A i \in DOMAIN g : FdGood(x[1], written', g[i]) /\ FdMay(x[1], held'[x[1]], g[i])
  PROVE  FdWires' /\ FdSent
<1>1. ASSUME NEW x \in F!Pairs
      PROVE  \A i \in DOMAIN feedWire'[x] :
               /\ FdGood(x[1], written', feedWire'[x][i])
               /\ i \in DOMAIN feedWire[x] \/ FdMay(x[1], held'[x[1]], feedWire'[x][i])
  <2> DEFINE q == feedWire[x]   r == feedWire'[x]   n == Len(q)
  <2>1. PICK g \in Seq(FdFrame) :
           /\ r = q \o g \/ r = g \/ (q # <<>> /\ r = Tail(q))
           /\ \A i \in DOMAIN g : FdGood(x[1], written', g[i]) /\ FdMay(x[1], held'[x[1]], g[i])
    OBVIOUS
  <2>2. q \in Seq(FdFrame) /\ n \in Nat /\ DOMAIN q = 1..n /\ \A i \in 1..n : FdGood(x[1], written', q[i])
    <3>1. \A i \in DOMAIN q : FdGood(x[1], written, q[i])
      BY DEF FdWires
    <3>2. q \in Seq(FdFrame)
      BY DEF FdWires
    <3> HIDE DEF q
    <3>3. QED
      BY <3>1, <3>2, FdGoodGrows
  <2> HIDE DEF q, r
  <2>3. CASE r = g
    BY <2>1, <2>3 DEF r, q
  <2>4. CASE r = q \o g
    <3>1. /\ DOMAIN r = 1..(n + Len(g)) /\ Len(g) \in Nat /\ DOMAIN g = 1..Len(g)
          /\ \A i \in 1..(n + Len(g)) : r[i] = IF i <= n THEN q[i] ELSE g[i - n]
      BY <2>1, <2>2, <2>4
    <3>2. ASSUME NEW i \in 1..(n + Len(g)) PROVE FdGood(x[1], written', r[i]) /\ (i \in 1..n \/ FdMay(x[1], held'[x[1]], r[i]))
      <4>1. CASE i <= n
        <5>1. i \in 1..n /\ r[i] = q[i]
          BY <2>2, <3>1, <3>2, <4>1
        <5>2. QED
          BY <2>2, <5>1
      <4>2. CASE ~(i <= n)
        <5>1. i - n \in DOMAIN g /\ r[i] = g[i - n]
          BY <2>2, <3>1, <3>2, <4>2
        <5>2. QED
          BY <2>1, <5>1
      <4>3. QED
        BY <4>1, <4>2
    <3>3. QED
      BY <2>2, <3>1, <3>2 DEF r, q
  <2>5. CASE q # <<>> /\ r = Tail(q)
    <3>1. DOMAIN r = 1..(n - 1) /\ \A i \in 1..(n - 1) : r[i] = q[i + 1] /\ i + 1 \in 1..n /\ i \in 1..n
      BY <2>2, <2>5
    <3>2. \A i \in 1..(n - 1) : FdGood(x[1], written', r[i])
      BY <2>2, <3>1
    <3>3. QED
      BY <2>2, <3>1, <3>2 DEF r, q
  <2>6. QED
    BY <2>1, <2>3, <2>4, <2>5
<1>2. FdWires'
  BY <1>1 DEF FdWires
<1>3. FdSent
  BY <1>1 DEF FdSent
<1>4. QED
  BY <1>2, <1>3

\* The frames are the same.
LEMMA FdWiresSame ==
  ASSUME FdWires, FdGrows(written, written'), feedWire' = feedWire
  PROVE  FdWires' /\ FdSent
<1>1. \A x \in F!Pairs : \A i \in DOMAIN feedWire[x] : FdGood(x[1], written', feedWire[x][i])
  BY FdGoodGrows DEF FdWires
<1>2. QED
  BY <1>1 DEF FdWires, FdSent

LEMMA FdSeqIn ==
  ASSUME NEW S, NEW T, S \subseteq T, NEW q \in Seq(S)
  PROVE  q \in Seq(T)
<1>1. Len(q) \in Nat /\ q \in [1..Len(q) -> S]
  OBVIOUS
<1>2. q \in [1..Len(q) -> T]
  BY <1>1
<1>3. QED
  BY <1>1, <1>2

LEMMA FdStoreIs ==
  ASSUME NEW d
  PROVE  F!StoreOf(d) = [held |-> held[d], evicted |-> evicted[d]]
  BY DEF F!StoreOf

LEMMA FdStoreHas ==
  ASSUME FdInv, NEW d \in Daemons
  PROVE  /\ FdStore(d, written, F!StoreOf(d)) /\ F!StoreOf(d).held = held[d] /\ F!StoreOf(d).evicted = evicted[d]
         /\ held[d] \in [Posts -> F!Entry \cup {None}] /\ evicted[d] \in Seq(Posts)
  BY FdStoreIs DEF FdInv, FdStores, FdTypes

\* The store of d becomes s; of posts written before, all else is as it was.
LEMMA FdStoresStep ==
  ASSUME FdInv, NEW d \in Daemons, NEW s, F!Stores(d, s), FdStamped(written'), FdGrows(written, written'),
         \A p \in Posts : written'[p] # written[p] => Author[p] = d,
         FdStore(d, written', s), FdFits => \A p \in Posts : FdKnew(F!StoreOf(d), p) => FdKnew(s, p),
         FdFits /\ FdAll(d, written, F!StoreOf(d)) => FdAll(d, written', s),
         UNCHANGED <<feedFile, feedNow, feedKills>>
  PROVE  /\ held' \in [Daemons -> [Posts -> F!Entry \cup {None}]] /\ evicted' \in [Daemons -> Seq(Posts)]
         /\ had' \in [Daemons -> SUBSET Posts]
         /\ FdStores' /\ FdFiles' /\ FdHad' /\ FdOwns'
         /\ held'[d] = s.held /\ \A c \in Daemons : c # d => held'[c] = held[c]
<1> DEFINE more == F!Held(s) \cup F!ToSet(s.evicted)
<1>1. s \in FdStoreType /\ s.held \in [Posts -> F!Entry \cup {None}] /\ s.evicted \in Seq(Posts)
      /\ s = [held |-> s.held, evicted |-> s.evicted]
  BY DEF FdStore, FdStoreType
<1>2. /\ held \in [Daemons -> [Posts -> F!Entry \cup {None}]] /\ evicted \in [Daemons -> Seq(Posts)]
      /\ had \in [Daemons -> SUBSET Posts]
  BY DEF FdInv, FdTypes
<1>3. more \in SUBSET Posts /\ \A p \in Posts : p \in more <=> FdKnew(s, p)
  <2>1. \A i \in DOMAIN s.evicted : s.evicted[i] \in Posts
    BY <1>1
  <2>2. QED
    BY <2>1 DEF F!Held, F!ToSet, FdKnew, FdIds
<1>4. /\ held' \in [Daemons -> [Posts -> F!Entry \cup {None}]] /\ evicted' \in [Daemons -> Seq(Posts)]
      /\ held'[d] = s.held /\ evicted'[d] = s.evicted
      /\ \A c \in Daemons : c # d => held'[c] = held[c] /\ evicted'[c] = evicted[c]
  BY <1>1, <1>2 DEF F!Stores
<1> HIDE DEF more
<1>5. had' = [had EXCEPT ![d] = @ \cup more]
  BY DEF F!Stores, more
<1>6. had' \in [Daemons -> SUBSET Posts] /\ had'[d] = had[d] \cup more /\ \A c \in Daemons : c # d => had'[c] = had[c]
  BY <1>2, <1>3, <1>5
<1>7. (F!StoreOf(d))' = s /\ \A c \in Daemons : c # d => (F!StoreOf(c))' = F!StoreOf(c)
  BY <1>1, <1>4 DEF F!StoreOf
<1>8. FdStores'
  <2>1. ASSUME NEW c \in Daemons PROVE FdStore(c, written', (F!StoreOf(c))')
    <3>1. CASE c = d
      BY <1>7, <3>1
    <3>2. CASE c # d
      BY <1>7, <3>2, FdStoreHas, FdStoreGrows
    <3>3. QED
      BY <3>1, <3>2
  <2>2. QED
    BY <2>1 DEF FdStores
<1>9. FdFiles'
  BY DEF FdInv, FdFiles, FdIs, FdGrows
<1>10. FdHad'
  <2>1. ASSUME NEW c \in Daemons, NEW p \in had'[c]
        PROVE  written'[p] # None /\ (FdFits => FdKnew((F!StoreOf(c))', p) \/ written'[p][1] + PostsKeep < feedNow)
    <3>1. p \in Posts
      BY <1>6, <2>1
    <3>2. CASE p \in had[c]
      <4>1. written[p] # None /\ written'[p] = written[p] /\ (FdFits => FdKnew(F!StoreOf(c), p) \/ written[p][1] + PostsKeep < feedNow)
        BY <3>1, <3>2 DEF FdInv, FdHad, FdGrows
      <4>2. FdFits /\ FdKnew(F!StoreOf(c), p) => FdKnew((F!StoreOf(c))', p)
        BY <1>7, <3>1
      <4>3. QED
        BY <4>1, <4>2
    <3>3. CASE p \notin had[c]
      <4>1. c = d /\ FdKnew(s, p)
        BY <1>3, <1>6, <2>1, <3>1, <3>3
      <4>2. written'[p] # None
        BY <3>1, <4>1 DEF FdKnew, FdIds, FdStore, FdIs
      <4>3. QED
        BY <1>7, <4>1, <4>2
    <3>4. QED
      BY <3>2, <3>3
  <2>2. QED
    BY <2>1 DEF FdHad
<1>11. FdOwns'
  <2>1. ASSUME FdFits, feedKills = 0, NEW c \in Daemons PROVE FdAll(c, written', (F!StoreOf(c))')
    <3>1. FdAll(c, written, F!StoreOf(c))
      BY <2>1 DEF FdInv, FdOwns
    <3>2. CASE c = d
      BY <1>7, <2>1, <3>1, <3>2
    <3>3. CASE c # d
      BY <1>7, <3>1, <3>3 DEF FdAll
    <3>4. QED
      BY <3>2, <3>3
  <2>2. QED
    BY <2>1 DEF FdOwns
<1>12. QED
  BY <1>4, <1>6, <1>8, <1>9, <1>10, <1>11

\* createPost().
LEMMA FdWrites ==
  ASSUME FdInv, NEW d \in Daemons, NEW p \in Posts, F!WritePost(d, p)
  PROVE  FdStep
<1> DEFINE w == [written EXCEPT ![p] = <<feedNow, F!Cardinality({q \in Posts : written[q] # None}) + 1>>]
           b == F!StoreOf(d)
           e == [via |-> None, hops |-> 0]
           s == F!AddPost(w, b, p, e, TRUE, {})
           f == F!Frames(<<[p |-> p, h |-> 0]>>)
<1>1. /\ written[p] = None /\ Author[p] = d /\ written' = w /\ F!Stores(d, s)
      /\ UNCHANGED <<unfollows, feedAt, feedUp, postsIn, feedFile, feedNow, feedLinks, feedKills>>
      /\ feedWire' = [x \in F!Pairs |-> IF x[1] = d /\ <<d, x[2]>> \in Trusts /\ feedUp[x] THEN feedWire[x] \o f ELSE feedWire[x]]
      /\ feedTasks' = [x \in F!Pairs |-> IF x[1] = d /\ <<d, x[2]>> \in Trusts /\ ~feedUp[x]
                                         THEN Append(feedTasks[x], p) ELSE feedTasks[x]]
  BY DEF F!WritePost
<1>2. FdStamped(written) /\ feedNow \in 0..PostsEnd /\ PostsKeep \in Nat /\ PostsEnd \in Nat
  BY FdNumbers DEF FdInv, FdTypes
<1>3. F!Cardinality({q \in Posts : written[q] # None}) + 1 \in 1..F!Cardinality(Posts)
  <2> DEFINE T == {q \in Posts : written[q] # None}
  <2>1. IsFiniteSet(T) /\ IsFiniteSet(T \cup {p}) /\ T \cup {p} \subseteq Posts /\ p \notin T
    BY <1>1, FeedAssumption, FS_Subset
  <2>2. Cardinality(T) \in Nat /\ Cardinality(T \cup {p}) = Cardinality(T) + 1
    BY <2>1, FS_AddElement, FS_CardinalityType
  <2>3. Cardinality(T \cup {p}) <= Cardinality(Posts) /\ Cardinality(Posts) \in Nat
    BY <2>1, FeedAssumption, FS_Subset, FS_CardinalityType
  <2>4. QED
    BY <2>2, <2>3, FdCardIs
<1>4. <<feedNow, F!Cardinality({q \in Posts : written[q] # None}) + 1>> \in FdStamps
  BY <1>2, <1>3 DEF FdStamps
<1>5. FdStamped(w) /\ \A q \in Posts : w[q] = IF q = p THEN <<feedNow, F!Cardinality({r \in Posts : written[r] # None}) + 1>> ELSE written[q]
  BY <1>2, <1>4 DEF FdStamped
<1>6. w[p] # None /\ w[p][1] = feedNow
  <2>1. None \notin FdStamps
    BY FeedAssumption, FdCardIs DEF FdStamps
  <2>2. QED
    BY <1>4, <1>5, <2>1
<1> HIDE DEF w
<1>7. FdGrows(written, w)
  BY <1>1, <1>5 DEF FdGrows
<1>8. FdStore(d, written, b) /\ b.held = held[d] /\ b.evicted = evicted[d]
  BY FdStoreHas
<1>9. FdStore(d, w, b)
  BY <1>7, <1>8, FdStoreGrows
<1>10. ~FdKnew(b, p)
  BY <1>1, <1>8 DEF FdKnew, FdStore, FdIs, FdIds
<1>11. F!Accepts(w, b, p, TRUE)
  BY <1>2, <1>6, <1>10, FdKnown DEF F!Accepts, FdKnew
<1>12. FdIs(d, w, p, e)
  BY <1>1, <1>6, FeedAssumption DEF FdIs, F!Entry
<1> HIDE DEF b, e, f
<1>13. FdStore(d, w, s) /\ FdPut(b, s, p, e)
  BY <1>5, <1>9, <1>11, <1>12, FdAdded
<1>13a. e.via = None /\ e # None
  BY FeedAssumption, <1>12 DEF e, FdIs
<1> HIDE DEF s
<1>14. FdFits => \A q \in Posts : FdKnew(b, q) => FdKnew(s, q)
  BY <1>10, <1>13 DEF FdKnew, FdPut
<1>15. FdFits /\ FdAll(d, written, b) => FdAll(d, w, s)
  <2>1. ASSUME FdFits, FdAll(d, written, b), NEW q \in Posts, Author[q] = d, w[q] # None
        PROVE  (s.held[q] # None /\ s.held[q].via = None) \/ q \in FdIds(s.evicted)
    <3>1. CASE q = p
      BY <1>13, <1>13a, <2>1, <3>1 DEF FdPut
    <3>2. CASE q # p
      BY <1>5, <1>13, <2>1, <3>2 DEF FdPut, FdAll
    <3>3. QED
      BY <3>1, <3>2
  <2>2. QED
    BY <2>1 DEF FdAll
<1>16. /\ held' \in [Daemons -> [Posts -> F!Entry \cup {None}]] /\ evicted' \in [Daemons -> Seq(Posts)]
       /\ had' \in [Daemons -> SUBSET Posts]
       /\ FdStores' /\ FdFiles' /\ FdHad' /\ FdOwns'
       /\ held'[d] = s.held /\ \A c \in Daemons : c # d => held'[c] = held[c]
  <2>1. \A q \in Posts : w[q] # written[q] => Author[q] = d
    BY <1>1, <1>5
  <2>2. FdFits => \A q \in Posts : FdKnew(F!StoreOf(d), q) => FdKnew(s, q)
    BY <1>14 DEF b
  <2>3. FdFits /\ FdAll(d, written, F!StoreOf(d)) => FdAll(d, w, s)
    BY <1>15 DEF b
  <2>4. UNCHANGED <<feedFile, feedNow, feedKills>> /\ written' = w /\ F!Stores(d, s)
    BY <1>1
  <2>5. QED
    BY <1>5, <1>7, <1>13, <2>1, <2>2, <2>3, <2>4, FdStoresStep
<1>17. FdTypes'
  BY <1>1, <1>5, <1>16 DEF FdInv, FdTypes
<1>18. FdTasks'
  <2>1. feedTasks \in [F!Pairs -> Seq(Posts)] /\ \A x \in F!Pairs : \A i \in DOMAIN feedTasks[x] :
          Author[feedTasks[x][i]] = x[1] /\ w[feedTasks[x][i]] # None
    BY <1>7 DEF FdInv, FdTasks, FdGrows
  <2>2. ASSUME NEW x \in F!Pairs
        PROVE  /\ feedTasks'[x] \in Seq(Posts)
               /\ \A i \in DOMAIN feedTasks'[x] : Author[feedTasks'[x][i]] = x[1] /\ w[feedTasks'[x][i]] # None
    <3>1. CASE feedTasks'[x] = feedTasks[x]
      BY <2>1, <3>1
    <3>2. CASE x[1] = d /\ feedTasks'[x] = Append(feedTasks[x], p)
      <4> DEFINE q == feedTasks[x]   r == Append(q, p)
      <4>1. q \in Seq(Posts) /\ Len(q) \in Nat /\ DOMAIN q = 1..Len(q)
        BY <2>1
      <4> HIDE DEF q
      <4>2. r \in Seq(Posts) /\ DOMAIN r = 1..(Len(q) + 1) /\ r[Len(q) + 1] = p /\ \A i \in 1..Len(q) : r[i] = q[i]
        BY <4>1
      <4> HIDE DEF r
      <4>3. \A i \in 1..Len(q) : Author[q[i]] = x[1] /\ w[q[i]] # None
        BY <2>1, <4>1 DEF q
      <4>4. \A i \in DOMAIN r : Author[r[i]] = x[1] /\ w[r[i]] # None
        <5> TAKE i \in DOMAIN r
        <5>1. i = Len(q) + 1 \/ i \in 1..Len(q)
          BY <4>1, <4>2
        <5>2. QED
          BY <1>1, <1>6, <3>2, <4>2, <4>3, <5>1
      <4>5. feedTasks'[x] = r
        BY <3>2 DEF q, r
      <4>6. QED
        BY <4>2, <4>4, <4>5
    <3>3. QED
      BY <1>1, <3>1, <3>2
  <2>3. feedTasks' = [x \in F!Pairs |-> feedTasks'[x]]
    BY <1>1
  <2>4. QED
    BY <1>1, <2>2, <2>3 DEF FdTasks
<1>19. FdWires' /\ FdSent
  <2>1. <<[p |-> p, h |-> 0]>> \in Seq(F!Item) /\ DOMAIN <<[p |-> p, h |-> 0]>> = {1}
    BY DEF F!Item
  <2>2. /\ f \in Seq([t : {"posts"}, items : Seq(F!Item)])
        /\ \A i \in DOMAIN f : FdHolds(f[i], F!Item, <<[p |-> p, h |-> 0]>>)
    BY <2>1, FdFrames DEF f
  <2>3. f \in Seq(FdFrame)
    BY <2>2, FdSeqIn DEF FdFrame
  <2>4. ASSUME NEW i \in DOMAIN f PROVE FdGood(d, w, f[i]) /\ FdMay(d, held'[d], f[i])
    <3>1. FdHolds(f[i], F!Item, <<[p |-> p, h |-> 0]>>)
      BY <2>2
    <3>2. f[i] \in FdFrame /\ \A j \in DOMAIN f[i].items : f[i].items[j] = [p |-> p, h |-> 0]
      BY <2>1, <3>1 DEF FdHolds, FdFrame
    <3>3. FdItem(d, w, [p |-> p, h |-> 0])
      BY <1>1, <1>6 DEF FdItem, F!Item
    <3>4. QED
      BY <1>1, <3>2, <3>3 DEF FdGood, FdMay, FdTells
  <2>5. \A x \in F!Pairs : feedWire[x] \in Seq(FdFrame)
    BY DEF FdInv, FdWires
  <2>6. ASSUME NEW x \in F!Pairs
        PROVE  \E g \in Seq(FdFrame) :
           /\ feedWire'[x] = feedWire[x] \o g \/ feedWire'[x] = g
              \/ (feedWire[x] # <<>> /\ feedWire'[x] = Tail(feedWire[x]))
           /\ \A i \in DOMAIN g : FdGood(x[1], written', g[i]) /\ FdMay(x[1], held'[x[1]], g[i])
    <3>1. CASE x[1] = d /\ feedWire'[x] = feedWire[x] \o f
      BY <1>1, <2>3, <2>4, <3>1
    <3>2. CASE feedWire'[x] = feedWire[x]
      <4>1. <<>> \in Seq(FdFrame) /\ DOMAIN <<>> = {} /\ feedWire[x] \o <<>> = feedWire[x]
        BY <2>5
      <4>2. QED
        BY <3>2, <4>1
    <3>3. QED
      BY <1>1, <3>1, <3>2
  <2>7. feedWire' \in [F!Pairs -> Seq(FdFrame)]
    <3>1. \A x \in F!Pairs : feedWire[x] \o f \in Seq(FdFrame)
      BY <2>3, <2>5
    <3>2. QED
      BY <1>1, <2>5, <3>1
  <2>8. QED
    BY <1>1, <1>7, <2>6, <2>7, FdWiresStep DEF FdInv
<1>20. FdKept
  BY <1>1, <1>5, <1>6, <1>16 DEF FdKept
<1>21. FdNews
  <2>1. ASSUME NEW c \in Daemons, NEW q \in had[c], held[c][q] = None, held'[c][q] # None PROVE FALSE
    <3>1. c = d /\ q \in Posts /\ written[q] # None
      BY <1>16, <2>1 DEF FdInv, FdHad, FdTypes
    <3>2. QED
      BY <1>1, <1>8, <1>13, <1>16, <2>1, <3>1 DEF FdPut
  <2>2. QED
    BY <2>1 DEF FdNews
<1>22. QED
  BY <1>16, <1>17, <1>18, <1>19, <1>20, <1>21 DEF FdStep, FdInv

\* Frames of items that d may send.
LEMMA FdPosts ==
  ASSUME NEW d, NEW w, NEW h, NEW items \in Seq(F!Item), \A i \in DOMAIN items : FdItem(d, w, items[i]),
         \A i \in DOMAIN items : FdTells(d, h, items[i].p)
  PROVE  /\ F!Frames(items) \in Seq(FdFrame)
         /\ \A i \in DOMAIN F!Frames(items) : FdGood(d, w, F!Frames(items)[i]) /\ FdMay(d, h, F!Frames(items)[i])
<1> DEFINE f == F!Frames(items)
<1>1. f \in Seq([t : {"posts"}, items : Seq(F!Item)]) /\ \A i \in DOMAIN f : FdHolds(f[i], F!Item, items)
  BY FdFrames
<1> HIDE DEF f
<1>2. f \in Seq(FdFrame)
  BY <1>1, FdSeqIn DEF FdFrame
<1>3. ASSUME NEW i \in DOMAIN f PROVE FdGood(d, w, f[i]) /\ FdMay(d, h, f[i])
  <2>1. FdHolds(f[i], F!Item, items)
    BY <1>1
  <2>2. f[i] \in FdFrame
    BY <2>1 DEF FdHolds, FdFrame
  <2>3. ASSUME NEW j \in DOMAIN f[i].items
        PROVE  /\ FdItem(d, w, f[i].items[j])
               /\ FdTells(d, h, f[i].items[j].p)
    BY <2>1 DEF FdHolds
  <2>4. FdGood(d, w, f[i])
    BY <2>2, <2>3 DEF FdGood
  <2>5. FdMay(d, h, f[i])
    BY <2>3 DEF FdMay
  <2>6. QED
    BY <2>4, <2>5
<1>4. QED
  BY <1>2, <1>3 DEF f

\* The newest of some posts.
LEMMA FdNewest ==
  ASSUME NEW w, FdStamped(w), NEW ps \in SUBSET Posts, \A p \in ps : w[p] # None, NEW n \in Nat
  PROVE  F!Newest(w, ps, n) \in Seq(ps)
<1> DEFINE all == F!OldestFirst(w, ps)   l == Len(all)
           lo == IF l > n THEN l - n ELSE 0
<1>1. all \in Seq(ps) /\ l \in Nat
  <2>1. Cardinality(ps) \in Nat /\ all \in [1..Cardinality(ps) -> ps]
    BY FdOldest
  <2> HIDE DEF all
  <2>2. QED
    BY <2>1
<1>2. lo \in Nat /\ F!Newest(w, ps, n) = SubSeq(all, lo + 1, l)
  <2>1. F!Newest(w, ps, n) = SubSeq(all, IF l > n THEN l - n + 1 ELSE 1, l)
    BY DEF F!Newest
  <2> HIDE DEF all
  <2>2. (IF l > n THEN l - n + 1 ELSE 1) = lo + 1 /\ lo \in Nat
    BY <1>1
  <2> HIDE DEF lo
  <2>3. QED
    BY <2>1, <2>2
<1> HIDE DEF all, lo
<1>3. QED
  BY <1>1, <1>2, FdPart

\* Posts that a store h of d has, as items.
LEMMA FdItemsOf ==
  ASSUME NEW d, NEW w, NEW h, h \in [Posts -> F!Entry \cup {None}], NEW S \in SUBSET Posts, NEW q \in Seq(S),
         \A p \in S : h[p] # None /\ FdIs(d, w, p, h[p]),
         \A p \in S : h[p].via = None \/ (h[p].hops <= 1 /\ Author[p] \in F!FollowSet(d))
  PROVE  /\ F!Frames(F!ItemsOf(h, q)) \in Seq(FdFrame)
         /\ \A i \in DOMAIN F!Frames(F!ItemsOf(h, q)) :
              FdGood(d, w, F!Frames(F!ItemsOf(h, q))[i]) /\ FdMay(d, h, F!Frames(F!ItemsOf(h, q))[i])
<1> DEFINE n == Len(q)
           it(i) == [p |-> q[i], h |-> h[q[i]].hops]
           items == [i \in 1..n |-> it(i)]
<1>1. n \in Nat /\ DOMAIN q = 1..n /\ \A i \in 1..n : q[i] \in S /\ q[i] \in Posts
  OBVIOUS
<1>2. ASSUME NEW i \in 1..n
      PROVE  /\ it(i) \in F!Item /\ FdItem(d, w, it(i))
             /\ FdTells(d, h, it(i).p)
  <2> DEFINE p == q[i]
  <2>1. p \in S /\ p \in Posts /\ FdIs(d, w, p, h[p])
    BY <1>1
  <2>2. it(i) = [p |-> p, h |-> h[p].hops]
    OBVIOUS
  <2> HIDE DEF p, it
  <2>3. h[p].hops \in 0..2
    BY <2>1 DEF FdIs, F!Entry
  <2>4. it(i) \in F!Item
    BY <2>1, <2>2, <2>3 DEF F!Item
  <2>5. it(i).p = p /\ it(i).h = h[p].hops
    BY <2>2
  <2>6. FdItem(d, w, it(i))
    BY <2>1, <2>4, <2>5 DEF FdItem, FdIs
  <2>7. FdTells(d, h, p)
    <3>1. CASE h[p].via = None
      BY <2>1, <3>1 DEF FdIs, FdTells
    <3>2. CASE h[p].via # None
      <4>1. h[p].hops = 1 /\ Author[p] \in F!FollowSet(d)
        BY <2>1, <2>3, <3>2 DEF FdIs
      <4>2. QED
        BY <2>1, <4>1 DEF FdIs, FdTells
    <3>3. QED
      BY <3>1, <3>2
  <2>8. QED
    BY <2>4, <2>5, <2>6, <2>7
<1>3. F!ItemsOf(h, q) = items
  BY <1>1 DEF F!ItemsOf
<1> HIDE DEF it
<1>4. items \in Seq(F!Item) /\ DOMAIN items = 1..n /\ \A i \in 1..n : items[i] = it(i)
  BY <1>1, <1>2
<1> HIDE DEF items
<1>5. QED
  BY <1>2, <1>3, <1>4, FdPosts

\* Nothing of a store, a file or the clock changes.
FdQuiet == UNCHANGED <<written, held, evicted, feedFile, had, feedNow, feedKills>>

LEMMA FdQuietStep ==
  ASSUME FdInv, FdQuiet, postsIn' \in [F!Pairs -> Nat], feedAt' \in [F!Pairs -> 0..PostsEnd \cup {None}],
         FdTasks', FdWires', FdSent
  PROVE  FdStep
<1>1. FdTypes' /\ FdFiles' /\ FdOwns' /\ FdStores' /\ FdHad'
  BY DEF FdQuiet, FdInv, FdTypes, FdFiles, FdOwns, FdStores, FdHad, FdAll, F!StoreOf, FdKnew
<1>2. FdKept /\ FdNews
  BY DEF FdQuiet, FdKept, FdNews
<1>3. QED
  BY <1>1, <1>2 DEF FdStep, FdInv

LEMMA FdSame == FdGrows(written, written)
  BY DEF FdGrows

\* Frames under way that some daemons drop, or get others for.
LEMMA FdOthers ==
  ASSUME FdInv, written' = written, NEW G \in [F!Pairs -> Seq(FdFrame)],
         \A x \in F!Pairs : \A i \in DOMAIN G[x] : FdGood(x[1], written, G[x][i]) /\ FdMay(x[1], held'[x[1]], G[x][i]),
         feedWire' \in [F!Pairs -> Seq(FdFrame)],
         \A x \in F!Pairs : \/ feedWire'[x] = feedWire[x] \o G[x] \/ feedWire'[x] = G[x] \/ feedWire'[x] = feedWire[x]
                            \/ feedWire[x] # <<>> /\ feedWire'[x] = Tail(feedWire[x])
  PROVE  FdWires' /\ FdSent
<1>1. ASSUME NEW x \in F!Pairs
      PROVE  \E g \in Seq(FdFrame) :
           /\ feedWire'[x] = feedWire[x] \o g \/ feedWire'[x] = g
              \/ (feedWire[x] # <<>> /\ feedWire'[x] = Tail(feedWire[x]))
           /\ \A i \in DOMAIN g : FdGood(x[1], written', g[i]) /\ FdMay(x[1], held'[x[1]], g[i])
  <2>1. CASE feedWire'[x] = feedWire[x]
    <3>1. feedWire[x] \in Seq(FdFrame)
      BY DEF FdInv, FdWires
    <3>2. <<>> \in Seq(FdFrame) /\ DOMAIN <<>> = {} /\ feedWire[x] \o <<>> = feedWire[x]
      BY <3>1
    <3>3. QED
      BY <2>1, <3>2
  <2>2. CASE feedWire'[x] # feedWire[x]
    <3>1. G[x] \in Seq(FdFrame)
      OBVIOUS
    <3>2. \A i \in DOMAIN G[x] : FdGood(x[1], written', G[x][i]) /\ FdMay(x[1], held'[x[1]], G[x][i])
      OBVIOUS
    <3>3. feedWire'[x] = feedWire[x] \o G[x] \/ feedWire'[x] = G[x] \/ (feedWire[x] # <<>> /\ feedWire'[x] = Tail(feedWire[x]))
      BY <2>2
    <3>4. QED
      BY <3>1, <3>2, <3>3
  <2>3. QED
    BY <2>1, <2>2
<1>2. FdGrows(written, written')
  BY FdSame
<1>3. QED
  BY <1>1, <1>2, FdWiresStep DEF FdInv

\* A link comes up.
LEMMA FdConnects ==
  ASSUME FdInv, NEW y \in F!Pairs, F!Connects(y[1], y[2])
  PROVE  FdStep
<1> DEFINE sides == {<<y[1], y[2]>>, <<y[2], y[1]>>}
           G == [x \in F!Pairs |-> IF x \in sides THEN F!Synced(x) ELSE <<>>]
<1>1. /\ feedWire' = [x \in F!Pairs |-> IF x \in sides THEN F!Synced(x) ELSE feedWire[x]]
      /\ feedTasks' = [x \in F!Pairs |-> IF x \in sides THEN <<>> ELSE feedTasks[x]]
      /\ UNCHANGED <<written, held, evicted, had, unfollows, feedAt, postsIn, feedFile, feedNow, feedKills>>
  BY DEF F!Connects, F!storeVars
<1>2. ASSUME NEW x \in F!Pairs
      PROVE  /\ F!Synced(x) \in Seq(FdFrame)
             /\ \A i \in DOMAIN F!Synced(x) : FdGood(x[1], written, F!Synced(x)[i]) /\ FdMay(x[1], held[x[1]], F!Synced(x)[i])
  <2> DEFINE q == feedTasks[x]   n == Len(q)
             req == F!FeedReq(x[1], x[2])
             post(i) == [t |-> "posts", items |-> <<[p |-> q[i], h |-> 0]>>]
             r == [i \in 1..n |-> post(i)]
             out == <<req>> \o r
  <2>1. q \in Seq(Posts) /\ n \in Nat /\ DOMAIN q = 1..n /\ \A i \in 1..n : q[i] \in Posts /\ Author[q[i]] = x[1] /\ written[q[i]] # None
    <3>1. q \in Seq(Posts) /\ \A i \in DOMAIN q : Author[q[i]] = x[1] /\ written[q[i]] # None
      BY DEF FdInv, FdTasks
    <3> HIDE DEF q
    <3>2. QED
      BY <3>1
  <2> HIDE DEF q, n
  <2>2. \A i \in 1..n : post(i) \in FdFrame /\ FdGood(x[1], written, post(i)) /\ FdMay(x[1], held[x[1]], post(i))
    <3> TAKE i \in 1..n
    <3> DEFINE it == [p |-> q[i], h |-> 0]
    <3>1. it \in F!Item /\ FdItem(x[1], written, it) /\ it.p = q[i]
      BY <2>1 DEF FdItem, F!Item
    <3> HIDE DEF it
    <3>2. <<it>> \in Seq(F!Item) /\ DOMAIN <<it>> = {1} /\ <<it>>[1] = it
      BY <3>1
    <3>3. post(i) = [t |-> "posts", items |-> <<it>>]
      BY DEF it
    <3> HIDE DEF post
    <3>4. post(i) \in FdFrame /\ post(i).t = "posts" /\ post(i).items = <<it>>
      BY <3>2, <3>3 DEF FdFrame
    <3>5. QED
      BY <2>1, <3>1, <3>2, <3>4 DEF FdGood, FdMay, FdTells
  <2>3. req \in FdFrame /\ FdGood(x[1], written, req) /\ FdMay(x[1], held[x[1]], req)
    <3> DEFINE since == IF feedAt[<<x[1], x[2]>>] = None THEN feedNow - Week ELSE feedAt[<<x[1], x[2]>>] - PostsOverlap
    <3>1. <<x[1], x[2]>> = x /\ x \in F!Pairs
      BY DEF F!Pairs
    <3>2. since \in Int
      <4>1. feedNow \in Int /\ Week \in Int /\ PostsOverlap \in Int
        BY FdNumbers DEF FdInv, FdTypes
      <4>2. feedAt[x] = None \/ feedAt[x] \in Int
        BY DEF FdInv, FdTypes
      <4>3. QED
        BY <3>1, <4>1, <4>2
    <3>3. req = [t |-> "feed-req", since |-> since]
      BY DEF F!FeedReq
    <3> HIDE DEF since, req
    <3>4. QED
      BY <3>2, <3>3 DEF FdFrame, FdGood, FdMay
  <2>4. F!Synced(x) = out
    BY <2>1 DEF F!Synced, q
  <2> HIDE DEF req, post
  <2>5. /\ r \in Seq(FdFrame) /\ Len(r) = n
        /\ \A i \in 1..n : r[i] = post(i)
    BY <2>1, <2>2
  <2> HIDE DEF r
  <2>6. /\ <<req>> \in Seq(FdFrame) /\ out \in Seq(FdFrame)
        /\ DOMAIN out = 1..(n + 1)
        /\ out[1] = req /\ \A i \in 1..(n + 1) : i # 1 => out[i] = r[i - 1] /\ i - 1 \in 1..n
    BY <2>1, <2>3, <2>5
  <2> HIDE DEF out
  <2>7. \A i \in 1..(n + 1) : out[i] = req \/ (i - 1 \in 1..n /\ out[i] = post(i - 1))
    BY <2>1, <2>5, <2>6
  <2>8. QED
    BY <2>2, <2>3, <2>4, <2>6, <2>7
<1>3. <<>> \in Seq(FdFrame) /\ DOMAIN <<>> = {}
  OBVIOUS
<1>4. G \in [F!Pairs -> Seq(FdFrame)] /\ feedWire' \in [F!Pairs -> Seq(FdFrame)]
  BY <1>1, <1>2, <1>3 DEF FdInv, FdWires
<1>5. \A x \in F!Pairs : \A i \in DOMAIN G[x] : FdGood(x[1], written, G[x][i]) /\ FdMay(x[1], held'[x[1]], G[x][i])
  BY <1>1, <1>2, <1>3
<1>6. \A x \in F!Pairs : feedWire'[x] = G[x] \/ feedWire'[x] = feedWire[x]
  BY <1>1
<1> HIDE DEF G
<1>7. FdWires' /\ FdSent
  BY <1>1, <1>4, <1>5, <1>6, FdOthers
<1>8. FdTasks'
  BY <1>1 DEF FdInv, FdTasks
<1>9. QED
  BY <1>1, <1>7, <1>8, FdQuietStep DEF FdQuiet, FdInv, FdTypes

LEMMA FdDisconnects ==
  ASSUME FdInv, NEW y \in F!Pairs, F!Disconnects(y[1], y[2])
  PROVE  FdStep
<1> DEFINE G == [x \in F!Pairs |-> <<>>]
<1>1. /\ feedWire' = [feedWire EXCEPT ![<<y[1], y[2]>>] = <<>>, ![<<y[2], y[1]>>] = <<>>]
      /\ postsIn' = [postsIn EXCEPT ![<<y[1], y[2]>>] = 0, ![<<y[2], y[1]>>] = 0]
      /\ UNCHANGED <<written, held, evicted, had, unfollows, feedAt, feedTasks, feedFile, feedNow, feedKills>>
  BY DEF F!Disconnects, F!storeVars
<1>2. <<>> \in Seq(FdFrame) /\ DOMAIN <<>> = {}
  OBVIOUS
<1>3. feedWire \in [F!Pairs -> Seq(FdFrame)] /\ postsIn \in [F!Pairs -> Nat] /\ feedAt \in [F!Pairs -> 0..PostsEnd \cup {None}]
  BY DEF FdInv, FdWires, FdTypes
<1>4. feedWire' \in [F!Pairs -> Seq(FdFrame)] /\ postsIn' \in [F!Pairs -> Nat] /\ G \in [F!Pairs -> Seq(FdFrame)]
  BY <1>1, <1>2, <1>3
<1>5. \A x \in F!Pairs : feedWire'[x] = G[x] \/ feedWire'[x] = feedWire[x]
  BY <1>1, <1>3
<1>6. \A x \in F!Pairs : \A i \in DOMAIN G[x] : FdGood(x[1], written, G[x][i]) /\ FdMay(x[1], held'[x[1]], G[x][i])
  BY <1>2
<1> HIDE DEF G
<1>7. FdWires' /\ FdSent
  BY <1>1, <1>4, <1>5, <1>6, FdOthers
<1>8. FdTasks'
  BY <1>1 DEF FdInv, FdTasks
<1>9. QED
  BY <1>1, <1>3, <1>4, <1>7, <1>8, FdQuietStep DEF FdQuiet

\* feed-req.
LEMMA FdAnswers ==
  ASSUME FdInv, NEW y \in F!Pairs, F!AnswersFeed(y[1], y[2])
  PROVE  FdStep
<1> DEFINE d == y[1]   c == y[2]   there == <<c, d>>   back == <<d, c>>
           since == Head(feedWire[there]).since
           ps == {p \in F!Held(F!StoreOf(d)) : written[p][1] > since /\ F!Passes(d, p)}
           q == F!Newest(written, ps, PostsReplyLimit)
           f == F!Frames(F!ItemsOf(held[d], q))
           G == [x \in F!Pairs |-> IF x = back THEN f ELSE <<>>]
<1>1. /\ feedWire[there] # <<>>
      /\ feedWire' = [[feedWire EXCEPT ![there] = Tail(@)] EXCEPT ![back] = @ \o f]
      /\ UNCHANGED <<written, held, evicted, had, unfollows, feedAt, postsIn, feedTasks, feedFile, feedNow, feedKills>>
  BY DEF F!AnswersFeed, F!Arrives, F!Taken, F!Answer, F!storeVars
<1>2. d \in Daemons /\ c \in Daemons /\ d # c /\ there \in F!Pairs /\ back \in F!Pairs /\ there # back /\ back[1] = d
  BY DEF F!Pairs
<1>3. FdStore(d, written, F!StoreOf(d)) /\ F!StoreOf(d).held = held[d] /\ held[d] \in [Posts -> F!Entry \cup {None}]
  BY <1>2, FdStoreHas
<1>4. ps \in SUBSET Posts /\ \A p \in ps : held[d][p] # None /\ F!Passes(d, p)
  BY <1>3 DEF F!Held
<1>5. \A p \in ps : FdIs(d, written, p, held[d][p]) /\ written[p] # None
  BY <1>3, <1>4 DEF FdStore, FdIs
<1> HIDE DEF since, ps
<1>6. q \in Seq(ps)
  <2>1. PostsReplyLimit \in Nat /\ FdStamped(written)
    BY FeedAssumption DEF FdInv, FdTypes
  <2>2. QED
    BY <1>4, <1>5, <2>1, FdNewest
<1>7. \A p \in ps : held[d][p].via = None \/ (held[d][p].hops <= 1 /\ Author[p] \in F!FollowSet(d))
  BY <1>4 DEF F!Passes
<1> HIDE DEF q, d, c, there, back
<1>8. f \in Seq(FdFrame) /\ \A i \in DOMAIN f : FdGood(d, written, f[i]) /\ FdMay(d, held[d], f[i])
  BY <1>3, <1>4, <1>5, <1>6, <1>7, FdItemsOf
<1> HIDE DEF f
<1>9. <<>> \in Seq(FdFrame) /\ DOMAIN <<>> = {}
  OBVIOUS
<1>10. feedWire \in [F!Pairs -> Seq(FdFrame)] /\ postsIn \in [F!Pairs -> Nat] /\ feedAt \in [F!Pairs -> 0..PostsEnd \cup {None}]
  BY DEF FdInv, FdWires, FdTypes
<1>11. Tail(feedWire[there]) \in Seq(FdFrame) /\ feedWire[back] \o f \in Seq(FdFrame)
  <2>1. feedWire[there] \in Seq(FdFrame) /\ feedWire[back] \in Seq(FdFrame)
    BY <1>2, <1>10
  <2>2. QED
    BY <1>1, <1>8, <2>1
<1>12. /\ feedWire' \in [F!Pairs -> Seq(FdFrame)]
       /\ feedWire'[there] = Tail(feedWire[there]) /\ feedWire'[back] = feedWire[back] \o f
       /\ \A x \in F!Pairs : x # there /\ x # back => feedWire'[x] = feedWire[x]
  BY <1>1, <1>2, <1>10, <1>11
<1>13. /\ G \in [F!Pairs -> Seq(FdFrame)] /\ G[back] = f
       /\ \A x \in F!Pairs : \A i \in DOMAIN G[x] : FdGood(x[1], written, G[x][i]) /\ FdMay(x[1], held'[x[1]], G[x][i])
  BY <1>1, <1>2, <1>8, <1>9
<1> HIDE DEF G
<1>14. \A x \in F!Pairs : \/ feedWire'[x] = feedWire[x] \o G[x] \/ feedWire'[x] = feedWire[x]
                          \/ feedWire[x] # <<>> /\ feedWire'[x] = Tail(feedWire[x])
  BY <1>1, <1>12, <1>13
<1>15. FdWires' /\ FdSent
  BY <1>1, <1>12, <1>13, <1>14, FdOthers
<1>16. FdTasks'
  BY <1>1 DEF FdInv, FdTasks
<1>17. QED
  BY <1>1, <1>10, <1>15, <1>16, FdQuietStep DEF FdQuiet

\* posts.
LEMMA FdTakesPosts ==
  ASSUME FdInv, NEW y \in F!Pairs, F!TakesPosts(y[1], y[2])
  PROVE  FdStep
<1> DEFINE d == y[1]   c == y[2]   there == <<c, d>>
           head == Head(feedWire[there])
           items == F!Looked(d, c, head.items)
           b == F!StoreOf(d)
           s == F!Taking(d, c, items)
           fresh == {p \in F!Held(s) : /\ s.held[p].via = c /\ s.held[p].hops <= 1
                                       /\ written[p][1] + Minute > feedNow /\ Author[p] \in F!FollowSet(d)}
           f == F!Frames(F!ItemsOf(s.held, F!Newest(written, fresh, PerFrame)))
           onward == IF s # b THEN f ELSE <<>>
           G == [x \in F!Pairs |-> IF x[1] = d THEN onward ELSE <<>>]
<1>1. /\ feedWire[there] # <<>> /\ head.t = "posts"
      /\ UNCHANGED <<written, unfollows, feedUp, feedTasks, feedFile, feedNow, feedLinks, feedKills>>
  <2> HIDE DEF items, s, fresh, f, onward, b
  <2>1. QED
    BY Zenon DEF F!TakesPosts, F!Arrives
<1>2. \/ /\ feedWire' = [feedWire EXCEPT ![there] = Tail(@)]
         /\ UNCHANGED <<held, evicted, had, feedAt, postsIn>>
      \/ /\ F!Stores(d, s)
         /\ postsIn' = [postsIn EXCEPT ![<<d, c>>] = @ + Len(items)]
         /\ feedAt' = [feedAt EXCEPT ![<<d, c>>] = feedNow]
         /\ feedWire' = [x \in F!Pairs |->
              IF x = there THEN Tail(feedWire[x])
              ELSE IF x[1] = d /\ x[2] # c /\ feedUp[x] /\ x \in Trusts THEN feedWire[x] \o onward ELSE feedWire[x]]
  BY Zenon DEF F!TakesPosts, F!Taken, F!storeVars
<1>3. d \in Daemons /\ c \in Daemons /\ d # c /\ there \in F!Pairs /\ <<d, c>> \in F!Pairs /\ there[1] = c
  BY DEF F!Pairs
<1>4. FdStore(d, written, b) /\ b.held = held[d] /\ b.evicted = evicted[d] /\ held[d] \in [Posts -> F!Entry \cup {None}]
  BY <1>3, FdStoreHas
<1>5. /\ feedWire \in [F!Pairs -> Seq(FdFrame)] /\ postsIn \in [F!Pairs -> Nat]
      /\ feedAt \in [F!Pairs -> 0..PostsEnd \cup {None}] /\ FdStamped(written) /\ feedNow \in 0..PostsEnd
  BY DEF FdInv, FdWires, FdTypes
<1>6. head.items \in Seq(F!Item) /\ \A i \in DOMAIN head.items : FdItem(c, written, head.items[i])
  <2>1. feedWire[there] \in Seq(FdFrame) /\ 1 \in DOMAIN feedWire[there] /\ head = feedWire[there][1]
    BY <1>1, <1>3, <1>5
  <2>2. FdGood(c, written, head)
    BY <1>3, <2>1 DEF FdInv, FdWires
  <2> HIDE DEF head
  <2>3. QED
    BY <1>1, <2>2 DEF FdGood, FdFrame
<1> HIDE DEF head
<1>7. items \in Seq(F!Item) /\ \A i \in DOMAIN items : FdItem(c, written, items[i])
  <2> DEFINE left == LinkMaxPosts - postsIn[<<d, c>>]
             hi == IF Len(head.items) > left THEN left ELSE Len(head.items)
  <2>1. left \in Int /\ hi \in Int /\ hi <= Len(head.items)
    <3>1. postsIn[<<d, c>>] \in Nat /\ Len(head.items) \in Nat /\ LinkMaxPosts \in Nat
      <4>1. postsIn[<<d, c>>] \in Nat
        BY <1>3, <1>5
      <4>2. Len(head.items) \in Nat
        BY <1>6
      <4>3. LinkMaxPosts \in Nat
        BY FdNumbers
      <4>4. QED
        BY <4>1, <4>2, <4>3
    <3>2. left \in Int
      BY <3>1
    <3> HIDE DEF left
    <3>3. QED
      BY <3>1, <3>2
  <2>2. items = SubSeq(head.items, 0 + 1, hi)
    BY DEF F!Looked
  <2> HIDE DEF left, hi, items
  <2>3. items \in Seq(F!Item) /\ \A j \in DOMAIN items : \E i \in DOMAIN head.items : items[j] = head.items[i]
    BY <1>6, <2>1, <2>2, FdPart
  <2>4. QED
    BY <1>6, <2>3
<1> HIDE DEF items
<1>8. FdStore(d, written, s) /\ (FdFits => FdTook(d, written, b, s))
  BY <1>3, <1>4, <1>5, <1>7, FdTakes
<1> HIDE DEF s, b
<1>9. s.held \in [Posts -> F!Entry \cup {None}]
  BY <1>8 DEF FdStore, FdStoreType
<1>10. fresh \in SUBSET Posts /\ \A p \in fresh :
         /\ s.held[p] # None /\ FdIs(d, written, p, s.held[p]) /\ written[p] # None
         /\ s.held[p].hops <= 1 /\ Author[p] \in F!FollowSet(d)
  BY <1>8 DEF F!Held, FdStore, FdIs
<1> HIDE DEF fresh
<1>11. F!Newest(written, fresh, PerFrame) \in Seq(fresh)
  BY <1>5, <1>10, FdNumbers, FdNewest
<1>12. f \in Seq(FdFrame) /\ \A i \in DOMAIN f : FdGood(d, written, f[i]) /\ FdMay(d, s.held, f[i])
  BY <1>9, <1>10, <1>11, FdItemsOf
<1> HIDE DEF f
<1>13. onward \in Seq(FdFrame) /\ \A i \in DOMAIN onward : FdGood(d, written, onward[i]) /\ FdMay(d, s.held, onward[i])
  <2>1. <<>> \in Seq(FdFrame) /\ DOMAIN <<>> = {}
    OBVIOUS
  <2>2. QED
    BY <1>12, <2>1
<1> HIDE DEF onward
<1>14. Tail(feedWire[there]) \in Seq(FdFrame) /\ \A x \in F!Pairs : feedWire[x] \o onward \in Seq(FdFrame)
  BY <1>1, <1>3, <1>5, <1>13
<1>15. FdTasks'
  BY <1>1 DEF FdInv, FdTasks
<1>16. <<>> \in Seq(FdFrame) /\ DOMAIN <<>> = {}
  OBVIOUS
<1>17. CASE /\ feedWire' = [feedWire EXCEPT ![there] = Tail(@)]
            /\ UNCHANGED <<held, evicted, had, feedAt, postsIn>>
  <2> DEFINE E == [x \in F!Pairs |-> <<>>]
  <2>1. /\ E \in [F!Pairs -> Seq(FdFrame)]
        /\ \A x \in F!Pairs : \A i \in DOMAIN E[x] : FdGood(x[1], written, E[x][i]) /\ FdMay(x[1], held'[x[1]], E[x][i])
    BY <1>16
  <2>2. feedWire' \in [F!Pairs -> Seq(FdFrame)] /\ feedWire'[there] = Tail(feedWire[there])
        /\ \A x \in F!Pairs : x # there => feedWire'[x] = feedWire[x]
    BY <1>3, <1>5, <1>14, <1>17
  <2> HIDE DEF E
  <2>3. \A x \in F!Pairs : \/ feedWire'[x] = feedWire[x]
                           \/ feedWire[x] # <<>> /\ feedWire'[x] = Tail(feedWire[x])
    BY <1>1, <2>2
  <2>4. FdWires' /\ FdSent
    BY <1>1, <2>1, <2>2, <2>3, FdOthers
  <2>5. QED
    BY <1>1, <1>5, <1>15, <1>17, <2>4, FdQuietStep DEF FdQuiet
<1>18. CASE /\ F!Stores(d, s)
            /\ postsIn' = [postsIn EXCEPT ![<<d, c>>] = @ + Len(items)]
            /\ feedAt' = [feedAt EXCEPT ![<<d, c>>] = feedNow]
            /\ feedWire' = [x \in F!Pairs |->
                 IF x = there THEN Tail(feedWire[x])
                 ELSE IF x[1] = d /\ x[2] # c /\ feedUp[x] /\ x \in Trusts THEN feedWire[x] \o onward ELSE feedWire[x]]
  <2>1. FdFits => \A p \in Posts : FdKnew(b, p) => FdKnew(s, p)
    BY <1>8 DEF FdTook, FdKnew
  <2>2. FdFits /\ FdAll(d, written, b) => FdAll(d, written, s)
    <3>1. ASSUME FdFits, FdAll(d, written, b), NEW p \in Posts, Author[p] = d, written[p] # None
          PROVE  (s.held[p] # None /\ s.held[p].via = None) \/ p \in FdIds(s.evicted)
      <4>1. CASE b.held[p] # None /\ b.held[p].via = None
        BY <1>8, <3>1, <4>1 DEF FdTook
      <4>2. CASE p \in FdIds(b.evicted)
        <5>1. b.held[p] = None
          BY <1>4, <4>2 DEF FdStore, FdIds
        <5>2. s.held[p] = None
          BY <1>8, <3>1, <4>2, <5>1 DEF FdTook
        <5>3. QED
          BY <1>8, <3>1, <4>2, <5>2 DEF FdTook
      <4>3. QED
        BY <3>1, <4>1, <4>2 DEF FdAll
    <3>2. QED
      BY <3>1 DEF FdAll
  <2>3. FdGrows(written, written')
    BY <1>1, FdSame
  <2>4. /\ held' \in [Daemons -> [Posts -> F!Entry \cup {None}]] /\ evicted' \in [Daemons -> Seq(Posts)]
        /\ had' \in [Daemons -> SUBSET Posts]
        /\ FdStores' /\ FdFiles' /\ FdHad' /\ FdOwns'
        /\ held'[d] = s.held /\ \A e \in Daemons : e # d => held'[e] = held[e]
    <3>1. F!Stores(d, s) /\ FdStamped(written') /\ FdStore(d, written', s)
          /\ UNCHANGED <<feedFile, feedNow, feedKills>> /\ written' = written
      BY <1>1, <1>5, <1>8, <1>18
    <3>2. /\ FdFits => \A p \in Posts : FdKnew(F!StoreOf(d), p) => FdKnew(s, p)
          /\ FdFits /\ FdAll(d, written, F!StoreOf(d)) => FdAll(d, written', s)
      BY <2>1, <2>2, <3>1 DEF b
    <3> HIDE DEF d
    <3>3. QED
      BY <1>3, <2>3, <3>1, <3>2, FdStoresStep
  <2>5. FdTypes'
    <3>1. Len(items) \in Nat
      BY <1>7
    <3>2. postsIn' \in [F!Pairs -> Nat] /\ feedAt' \in [F!Pairs -> 0..PostsEnd \cup {None}]
      BY <1>3, <1>5, <1>18, <3>1
    <3>3. QED
      BY <1>1, <2>4, <3>2 DEF FdInv, FdTypes
  <2>6. FdWires' /\ FdSent
    <3>1. /\ G \in [F!Pairs -> Seq(FdFrame)] /\ \A x \in F!Pairs : x[1] = d => G[x] = onward
          /\ \A x \in F!Pairs : \A i \in DOMAIN G[x] : FdGood(x[1], written, G[x][i]) /\ FdMay(x[1], held'[x[1]], G[x][i])
      BY <1>13, <1>16, <2>4
    <3>2. feedWire' \in [F!Pairs -> Seq(FdFrame)]
      BY <1>5, <1>14, <1>18
    <3> HIDE DEF G
    <3>3. \A x \in F!Pairs : \/ feedWire'[x] = feedWire[x] \o G[x] \/ feedWire'[x] = feedWire[x]
                             \/ feedWire[x] # <<>> /\ feedWire'[x] = Tail(feedWire[x])
      BY <1>1, <1>18, <3>1
    <3>4. QED
      BY <1>1, <3>1, <3>2, <3>3, FdOthers
  <2>7. FdFits => FdKept
    <3>1. ASSUME FdFits, NEW e \in Daemons, NEW p \in Posts, held[e][p] # None, held[e][p].via = None, held'[e][p] # held[e][p]
          PROVE  feedKills' > 0
      <4>1. e = d
        BY <2>4, <3>1
      <4>2. ~FdAll(d, written, b)
        BY <1>4, <1>8, <2>4, <3>1, <4>1 DEF FdTook
      <4>3. feedKills # 0
        BY <1>3, <3>1, <4>2 DEF FdInv, FdOwns, b
      <4>4. QED
        BY <1>1, <4>3 DEF FdInv, FdTypes
    <3>2. QED
      BY <3>1 DEF FdKept
  <2>8. FdFits => FdNews
    <3>1. ASSUME FdFits, NEW e \in Daemons, NEW p \in had[e], held[e][p] = None, held'[e][p] # None PROVE FALSE
      <4>1. e = d /\ p \in Posts
        BY <2>4, <3>1 DEF FdInv, FdTypes
      <4>2. p \notin FdIds(b.evicted) /\ written[p][1] + PostsKeep >= feedNow
        BY <1>4, <1>8, <2>4, <3>1, <4>1 DEF FdTook
      <4>3. written[p] # None /\ written[p][1] + PostsKeep < feedNow
        BY <1>4, <3>1, <4>1, <4>2 DEF FdInv, FdHad, FdKnew, b
      <4>4. written[p][1] \in Nat /\ PostsKeep \in Nat /\ feedNow \in Int
        BY <1>5, <4>1, <4>3, FdNumbers DEF FdStamped, FdStamps
      <4>5. QED
        BY <4>2, <4>3, <4>4
    <3>2. QED
      BY <3>1 DEF FdNews
  <2>9. QED
    BY <1>15, <2>4, <2>5, <2>6, <2>7, <2>8 DEF FdStep, FdInv
<1>19. QED
  BY <1>2, <1>17, <1>18

LEMMA FdToggles ==
  ASSUME FdInv, NEW d, NEW a, F!FollowToggles(d, a)
  PROVE  FdStep
<1>1. UNCHANGED <<written, held, evicted, had, feedAt, feedUp, postsIn, feedWire, feedTasks, feedFile, feedNow, feedKills>>
  BY DEF F!FollowToggles, F!storeVars, F!linkVars
<1>2. FdWires' /\ FdSent
  BY <1>1, FdSame, FdWiresSame DEF FdInv
<1>3. FdTasks'
  BY <1>1 DEF FdInv, FdTasks
<1>4. QED
  BY <1>1, <1>2, <1>3, FdQuietStep DEF FdQuiet, FdInv, FdTypes

LEMMA FdSaves ==
  ASSUME FdInv, NEW d \in Daemons, F!SavesSocial(d)
  PROVE  FdStep
<1>1. /\ feedFile' = [feedFile EXCEPT ![d] = held[d]]
      /\ UNCHANGED <<written, held, evicted, had, feedAt, feedUp, postsIn, feedWire, feedTasks, feedNow, feedKills>>
  BY DEF F!SavesSocial, F!storeVars, F!linkVars
<1>2. FdWires' /\ FdSent
  BY <1>1, FdSame, FdWiresSame DEF FdInv
<1>3. FdTasks'
  BY <1>1 DEF FdInv, FdTasks
<1>4. FdTypes'
  BY <1>1 DEF FdInv, FdTypes
<1>5. FdStores' /\ FdHad' /\ FdOwns'
  BY <1>1 DEF FdInv, FdOwns, FdStores, FdHad, FdAll, F!StoreOf, FdKnew
<1>6. FdFiles'
  <2>1. FdStore(d, written, F!StoreOf(d)) /\ F!StoreOf(d).held = held[d]
    BY FdStoreHas
  <2>2. \A p \in Posts : held[d][p] # None => FdIs(d, written, p, held[d][p])
    BY <2>1 DEF FdStore
  <2>3. feedFile'[d] = held[d] /\ \A c \in Daemons : c # d => feedFile'[c] = feedFile[c]
    BY <1>1 DEF FdInv, FdTypes
  <2>4. QED
    BY <1>1, <2>2, <2>3 DEF FdInv, FdFiles
<1>7. FdKept /\ FdNews
  BY <1>1 DEF FdKept, FdNews
<1>8. QED
  BY <1>2, <1>3, <1>4, <1>5, <1>6, <1>7 DEF FdStep, FdInv

\* Posts grow old.
LEMMA FdTimeGoes ==
  ASSUME FdInv, F!Time
  PROVE  FdStep
<1>1. /\ feedNow < PostsEnd /\ feedNow' = feedNow + 1
      /\ UNCHANGED <<written, held, evicted, had, feedAt, feedUp, postsIn, feedWire, feedTasks, feedFile, feedKills>>
  BY DEF F!Time, F!storeVars, F!linkVars
<1>2. FdWires' /\ FdSent
  BY <1>1, FdSame, FdWiresSame DEF FdInv
<1>3. FdTasks'
  BY <1>1 DEF FdInv, FdTasks
<1>4. FdTypes'
  <2>1. feedNow' \in 0..PostsEnd
    BY <1>1, FdNumbers DEF FdInv, FdTypes
  <2>2. QED
    BY <1>1, <2>1 DEF FdInv, FdTypes
<1>5. FdStores' /\ FdFiles' /\ FdOwns'
  BY <1>1 DEF FdInv, FdOwns, FdStores, FdFiles, FdAll, F!StoreOf
<1>6. FdHad'
  <2>1. ASSUME NEW d \in Daemons, NEW p \in had[d]
        PROVE  written[p] # None /\ (FdFits => FdKnew(F!StoreOf(d), p) \/ written[p][1] + PostsKeep < feedNow')
    <3>1. p \in Posts /\ written[p] # None /\ (FdFits => FdKnew(F!StoreOf(d), p) \/ written[p][1] + PostsKeep < feedNow)
      BY DEF FdInv, FdHad, FdTypes
    <3>2. written[p][1] \in Nat /\ PostsKeep \in Nat /\ feedNow \in Nat
      BY <3>1, FdNumbers DEF FdInv, FdTypes, FdStamped, FdStamps
    <3>3. QED
      BY <1>1, <3>1, <3>2
  <2>2. \A d \in Daemons : (F!StoreOf(d))' = F!StoreOf(d)
    BY <1>1 DEF F!StoreOf
  <2>3. QED
    BY <1>1, <2>1, <2>2 DEF FdHad
<1>7. FdKept /\ FdNews
  BY <1>1 DEF FdKept, FdNews
<1>8. QED
  BY <1>2, <1>3, <1>4, <1>5, <1>6, <1>7 DEF FdStep, FdInv

\* prune(): what goes is not one's own, and too old to come back.
LEMMA FdPrunes ==
  ASSUME FdInv, NEW d \in Daemons, F!Prune(d)
  PROVE  FdStep
<1>1. /\ held' = [held EXCEPT ![d] = [p \in Posts |-> IF p \in F!Expired(d) THEN None ELSE @[p]]]
      /\ UNCHANGED <<written, evicted, had, feedAt, feedUp, postsIn, feedWire, feedTasks, feedFile, feedNow, feedKills>>
  BY DEF F!Prune, F!linkVars
<1>2. held \in [Daemons -> [Posts -> F!Entry \cup {None}]] /\ evicted \in [Daemons -> Seq(Posts)]
  BY DEF FdInv, FdTypes
<1>3. /\ held' \in [Daemons -> [Posts -> F!Entry \cup {None}]]
      /\ \A p \in Posts : held'[d][p] = IF p \in F!Expired(d) THEN None ELSE held[d][p]
      /\ \A c \in Daemons : c # d => held'[c] = held[c]
  BY <1>1, <1>2
<1>4. FdWires' /\ FdSent
  BY <1>1, FdSame, FdWiresSame DEF FdInv
<1>5. FdTasks'
  BY <1>1 DEF FdInv, FdTasks
<1>6. FdTypes'
  BY <1>1, <1>3 DEF FdInv, FdTypes
<1>7. FdStore(d, written, F!StoreOf(d)) /\ F!StoreOf(d).held = held[d] /\ F!StoreOf(d).evicted = evicted[d]
  BY FdStoreHas
<1>8. \A p \in F!Expired(d) : held[d][p] # None /\ held[d][p].via # None /\ written[p][1] + PostsKeep < feedNow
  BY <1>7 DEF F!Expired, F!Forwarded, F!Held
<1> DEFINE t == (F!StoreOf(d))'
<1>9. t = [held |-> held'[d], evicted |-> evicted[d]] /\ \A c \in Daemons : c # d => (F!StoreOf(c))' = F!StoreOf(c)
  BY <1>1, <1>3 DEF F!StoreOf
<1> HIDE DEF t
<1>10. FdStore(d, written, t)
  <2>1. t \in FdStoreType /\ t.held = held'[d] /\ t.evicted = evicted[d]
    BY <1>2, <1>3, <1>9 DEF FdStoreType
  <2>2. \A p \in Posts : t.held[p] # None => t.held[p] = held[d][p]
    BY <1>3, <2>1
  <2>3. \A p \in Posts : t.held[p] # None => FdIs(d, written, p, t.held[p])
    BY <1>7, <2>2 DEF FdStore
  <2>4. \A i \in DOMAIN t.evicted : t.evicted[i] \in Posts
    BY <1>2, <2>1
  <2>5. \A i \in DOMAIN t.evicted : written[t.evicted[i]] # None /\ t.held[t.evicted[i]] = None
    BY <1>7, <2>1, <2>2, <2>4 DEF FdStore
  <2>6. \A i, j \in DOMAIN t.evicted : t.evicted[i] = t.evicted[j] => i = j
    BY <1>7, <2>1 DEF FdStore
  <2>7. QED
    BY <2>1, <2>3, <2>5, <2>6 DEF FdStore
<1>11. FdStores'
  BY <1>1, <1>9, <1>10 DEF FdInv, FdStores, t
<1>12. FdFiles'
  BY <1>1 DEF FdInv, FdFiles
<1>13. FdHad'
  <2>1. ASSUME NEW c \in Daemons, NEW p \in had[c]
        PROVE  written[p] # None /\ (FdFits => FdKnew((F!StoreOf(c))', p) \/ written[p][1] + PostsKeep < feedNow)
    <3>1. p \in Posts /\ written[p] # None /\ (FdFits => FdKnew(F!StoreOf(c), p) \/ written[p][1] + PostsKeep < feedNow)
      BY DEF FdInv, FdHad, FdTypes
    <3>2. CASE c # d
      BY <1>9, <3>1, <3>2
    <3>3. CASE c = d /\ p \in F!Expired(d)
      BY <1>8, <3>1, <3>3
    <3>4. CASE c = d /\ p \notin F!Expired(d)
      <4>1. t.held[p] = held[d][p] /\ t.evicted = evicted[d]
        BY <1>3, <1>9, <3>1, <3>4
      <4>2. QED
        BY <1>7, <3>1, <3>4, <4>1 DEF FdKnew, t
    <3>5. QED
      BY <3>2, <3>3, <3>4
  <2>2. QED
    BY <1>1, <2>1 DEF FdHad
<1>14. FdOwns'
  <2>1. ASSUME FdFits, feedKills = 0, NEW c \in Daemons PROVE FdAll(c, written, (F!StoreOf(c))')
    <3>1. FdAll(c, written, F!StoreOf(c))
      BY <2>1 DEF FdInv, FdOwns
    <3>2. CASE c # d
      BY <1>9, <3>1, <3>2
    <3>3. CASE c = d
      <4>1. t.held = held'[d] /\ t.evicted = evicted[d]
        BY <1>9
      <4>2. FdAll(d, written, t)
        BY <1>3, <1>7, <1>8, <3>1, <3>3, <4>1 DEF FdAll
      <4>3. QED
        BY <3>3, <4>2 DEF t
    <3>4. QED
      BY <3>2, <3>3
  <2>2. QED
    BY <1>1, <2>1 DEF FdOwns
<1>15. FdKept /\ FdNews
  BY <1>1, <1>3, <1>8 DEF FdKept, FdNews, FdInv, FdTypes
<1>16. QED
  BY <1>4, <1>5, <1>6, <1>11, <1>12, <1>13, <1>14, <1>15 DEF FdStep, FdInv

\* A kill and a restart.
LEMMA FdCrashes ==
  ASSUME FdInv, NEW d \in Daemons, F!Crash(d)
  PROVE  FdStep
<1>1. /\ feedKills' = feedKills + 1
      /\ held' = [held EXCEPT ![d] = feedFile[d]]
      /\ evicted' = [evicted EXCEPT ![d] = <<>>]
      /\ had' = [had EXCEPT ![d] = {p \in Posts : feedFile[d][p] # None}]
      /\ postsIn' = [x \in F!Pairs |-> IF d \in {x[1], x[2]} THEN 0 ELSE postsIn[x]]
      /\ feedWire' = [x \in F!Pairs |-> IF d \in {x[1], x[2]} THEN <<>> ELSE feedWire[x]]
      /\ feedTasks' = [x \in F!Pairs |-> IF x[1] = d THEN <<>> ELSE feedTasks[x]]
      /\ UNCHANGED <<written, feedAt, feedFile, feedNow>>
  BY DEF F!Crash
<1>2. /\ held \in [Daemons -> [Posts -> F!Entry \cup {None}]] /\ evicted \in [Daemons -> Seq(Posts)]
      /\ feedFile \in [Daemons -> [Posts -> F!Entry \cup {None}]] /\ had \in [Daemons -> SUBSET Posts] /\ feedKills \in Nat
  BY DEF FdInv, FdTypes
<1>3. <<>> \in Seq(FdFrame) /\ <<>> \in Seq(Posts) /\ DOMAIN <<>> = {}
  OBVIOUS
<1>4. /\ held' \in [Daemons -> [Posts -> F!Entry \cup {None}]] /\ evicted' \in [Daemons -> Seq(Posts)]
      /\ had' \in [Daemons -> SUBSET Posts] /\ feedKills' \in Nat /\ feedKills' > 0 /\ feedKills' # feedKills
      /\ held'[d] = feedFile[d] /\ evicted'[d] = <<>> /\ had'[d] = {p \in Posts : feedFile[d][p] # None}
      /\ \A c \in Daemons : c # d => held'[c] = held[c] /\ evicted'[c] = evicted[c] /\ had'[c] = had[c]
  BY <1>1, <1>2, <1>3
<1>5. FdTypes'
  BY <1>1, <1>4 DEF FdInv, FdTypes
<1>6. /\ (F!StoreOf(d))' = [held |-> feedFile[d], evicted |-> <<>>]
      /\ \A c \in Daemons : c # d => (F!StoreOf(c))' = F!StoreOf(c)
  BY <1>4 DEF F!StoreOf
<1>7. FdStores'
  <2>1. FdStore(d, written, [held |-> feedFile[d], evicted |-> <<>>])
    <3> DEFINE s == [held |-> feedFile[d], evicted |-> <<>>]
    <3>1. s \in FdStoreType /\ s.held = feedFile[d] /\ s.evicted = <<>>
      BY <1>2, <1>3 DEF FdStoreType
    <3> HIDE DEF s
    <3>2. QED
      BY <1>3, <3>1 DEF FdInv, FdFiles, FdStore, s
  <2>2. QED
    BY <1>1, <1>6, <2>1 DEF FdInv, FdStores
<1>8. FdFiles'
  BY <1>1 DEF FdInv, FdFiles
<1>9. FdHad'
  <2>1. ASSUME NEW c \in Daemons, NEW p \in had'[c]
        PROVE  written[p] # None /\ (FdFits => FdKnew((F!StoreOf(c))', p) \/ written[p][1] + PostsKeep < feedNow)
    <3>1. CASE c = d
      <4>1. p \in Posts /\ feedFile[d][p] # None
        BY <1>4, <2>1, <3>1
      <4>2. QED
        BY <1>6, <3>1, <4>1 DEF FdInv, FdFiles, FdIs, FdKnew
    <3>2. CASE c # d
      BY <1>4, <1>6, <2>1, <3>2 DEF FdInv, FdHad
    <3>3. QED
      BY <3>1, <3>2
  <2>2. QED
    BY <1>1, <2>1 DEF FdHad
<1>10. FdOwns'
  BY <1>4 DEF FdOwns
<1>11. FdTasks'
  <2>1. feedTasks \in [F!Pairs -> Seq(Posts)]
    BY DEF FdInv, FdTasks
  <2>2. feedTasks' \in [F!Pairs -> Seq(Posts)]
    BY <1>1, <1>3, <2>1
  <2>3. \A x \in F!Pairs : feedTasks'[x] = <<>> \/ feedTasks'[x] = feedTasks[x]
    BY <1>1
  <2>4. QED
    BY <1>1, <1>3, <2>2, <2>3 DEF FdInv, FdTasks
<1>12. FdWires' /\ FdSent
  <2> DEFINE E == [x \in F!Pairs |-> <<>>]
  <2>1. /\ E \in [F!Pairs -> Seq(FdFrame)]
        /\ \A x \in F!Pairs : \A i \in DOMAIN E[x] : FdGood(x[1], written, E[x][i]) /\ FdMay(x[1], held'[x[1]], E[x][i])
    BY <1>3
  <2>2. feedWire' \in [F!Pairs -> Seq(FdFrame)] /\ \A x \in F!Pairs : feedWire'[x] = E[x] \/ feedWire'[x] = feedWire[x]
    BY <1>1, <1>3 DEF FdInv, FdWires
  <2> HIDE DEF E
  <2>3. QED
    BY <1>1, <2>1, <2>2, FdOthers
<1>13. FdKept /\ FdNews
  BY <1>4 DEF FdKept, FdNews
<1>14. QED
  BY <1>5, <1>7, <1>8, <1>9, <1>10, <1>11, <1>12, <1>13 DEF FdStep, FdInv

LEMMA FdInvInit == F!Init => FdInv
<1> SUFFICES ASSUME F!Init PROVE FdInv
  OBVIOUS
<1>1. <<>> \in Seq(FdFrame) /\ <<>> \in Seq(Posts) /\ DOMAIN <<>> = {}
  OBVIOUS
<1>2. PostsKeep \in 0..PostsEnd
  BY FeedAssumption
<1>3. FdTypes
  BY <1>1, <1>2 DEF F!Init, FdTypes, FdStamped
<1>4. FdStores
  <2>1. ASSUME NEW d \in Daemons PROVE FdStore(d, written, F!StoreOf(d))
    <3> DEFINE s == F!StoreOf(d)
    <3>1. s = [held |-> [p \in Posts |-> None], evicted |-> <<>>]
      BY DEF F!Init, F!StoreOf
    <3> HIDE DEF s
    <3>2. s \in FdStoreType /\ s.evicted = <<>> /\ \A p \in Posts : s.held[p] = None
      BY <1>1, <3>1 DEF FdStoreType
    <3>3. QED
      BY <1>1, <3>2 DEF FdStore, s
  <2>2. QED
    BY <2>1 DEF FdStores
<1>5. FdFiles /\ FdHad /\ FdOwns /\ FdTasks /\ FdWires
  BY <1>1 DEF F!Init, FdFiles, FdHad, FdOwns, FdAll, FdTasks, FdWires
<1>6. QED
  BY <1>3, <1>4, <1>5 DEF FdInv

LEMMA FdInvStep == FdInv /\ [F!Next]_(F!vars) => FdStep
<1> SUFFICES ASSUME FdInv, [F!Next]_(F!vars) PROVE FdStep
  OBVIOUS
<1>1. CASE UNCHANGED F!vars
  <2>1. UNCHANGED <<written, held, evicted, had, feedAt, feedUp, postsIn, feedWire, feedTasks, feedFile, feedNow, feedKills>>
    BY <1>1 DEF F!vars
  <2>2. FdWires' /\ FdSent
    BY <2>1, FdSame, FdWiresSame DEF FdInv
  <2>3. FdTasks'
    BY <2>1 DEF FdInv, FdTasks
  <2>4. QED
    BY <2>1, <2>2, <2>3, FdQuietStep DEF FdQuiet, FdInv, FdTypes
<1>2. CASE \E d \in Daemons : F!Prune(d) \/ F!SavesSocial(d) \/ F!Crash(d)
  BY <1>2, FdPrunes, FdSaves, FdCrashes
<1>3. CASE \E d \in Daemons, p \in Posts : F!WritePost(d, p)
  BY <1>3, FdWrites
<1>4. CASE \E x \in F!Pairs : \/ F!Connects(x[1], x[2]) \/ F!Disconnects(x[1], x[2])
                             \/ F!AnswersFeed(x[1], x[2]) \/ F!TakesPosts(x[1], x[2])
                             \/ F!FollowToggles(x[1], x[2])
  BY <1>4, FdConnects, FdDisconnects, FdAnswers, FdTakesPosts, FdToggles
<1>5. CASE F!Time
  BY <1>5, FdTimeGoes
<1>6. QED
  BY <1>1, <1>2, <1>3, <1>4, <1>5 DEF F!Next

LEMMA FdAlways == SocialSpec => []FdInv
<1>1. SocialInit => FdInv
  BY FdInvInit DEF SocialInit
<1>2. FdInv /\ [SocialNext]_<<which, vars, feedVars, vaultVars>> => FdInv'
  BY FdInvStep, SocialSteps DEF FdStep
<1>3. QED
  BY <1>1, <1>2, PTL DEF SocialSpec

\* Both sides of a link see it up, and nothing is under way, or counted, on one that is not.
FtLinks ==
  /\ unfollows \in [Daemons -> SUBSET Daemons]
  /\ feedUp \in [F!Pairs -> BOOLEAN] /\ \A x \in F!Pairs : feedUp[<<x[2], x[1]>>] = feedUp[x]
  /\ postsIn \in [F!Pairs -> 0..LinkMaxPosts]
  /\ \A x \in F!Pairs : feedUp[x] \/ (postsIn[x] = 0 /\ feedWire[x] = <<>>)
  /\ feedLinks \in 0..MaxPostLinks /\ feedKills \in 0..MaxPostKills

LEMMA FtPairs ==
  ASSUME NEW x \in F!Pairs
  PROVE  /\ x = <<x[1], x[2]>> /\ x[1] \in Daemons /\ x[2] \in Daemons /\ x[1] # x[2]
         /\ <<x[2], x[1]>> \in F!Pairs
  BY DEF F!Pairs

LEMMA FtLinksStep ==
  ASSUME FdInv, FtLinks, [F!Next]_(F!vars)
  PROVE  FtLinks'
<1> DEFINE Free == \A x \in F!Pairs : feedUp[x] \/ (postsIn[x] = 0 /\ feedWire[x] = <<>>)
<1>0. /\ feedWire \in [F!Pairs -> Seq(FdFrame)] /\ {MaxPostLinks, MaxPostKills, LinkMaxPosts} \subseteq Nat
  BY FeedAssumption DEF FdInv, FdWires
<1>1. CASE UNCHANGED <<unfollows, feedUp, postsIn, feedWire, feedTasks, feedLinks, feedKills>>
  BY <1>1 DEF FtLinks
<1>2. ASSUME NEW d \in Daemons, F!Crash(d) PROVE FtLinks'
  <2>1. /\ feedKills < MaxPostKills /\ feedKills' = feedKills + 1
        /\ feedUp' = [x \in F!Pairs |-> feedUp[x] /\ d \notin {x[1], x[2]}]
        /\ postsIn' = [x \in F!Pairs |-> IF d \in {x[1], x[2]} THEN 0 ELSE postsIn[x]]
        /\ feedWire' = [x \in F!Pairs |-> IF d \in {x[1], x[2]} THEN <<>> ELSE feedWire[x]]
        /\ UNCHANGED <<unfollows, feedLinks>>
    BY <1>2 DEF F!Crash
  <2>2. feedUp' \in [F!Pairs -> BOOLEAN] /\ \A x \in F!Pairs : feedUp'[<<x[2], x[1]>>] = feedUp'[x]
    BY <2>1, FtPairs DEF FtLinks
  <2>3. postsIn' \in [F!Pairs -> 0..LinkMaxPosts] /\ \A x \in F!Pairs : feedUp'[x] \/ (postsIn'[x] = 0 /\ feedWire'[x] = <<>>)
    BY <1>0, <2>1 DEF FtLinks
  <2>4. feedKills' \in 0..MaxPostKills
    BY <1>0, <2>1 DEF FtLinks
  <2>5. QED
    BY <2>1, <2>2, <2>3, <2>4 DEF FtLinks
<1>3. ASSUME NEW d \in Daemons, NEW p \in Posts, F!WritePost(d, p) PROVE FtLinks'
  <2>1. /\ \A x \in F!Pairs : feedUp[x] \/ feedWire'[x] = feedWire[x]
        /\ UNCHANGED <<unfollows, feedUp, postsIn, feedLinks, feedKills>>
    BY <1>3 DEF F!WritePost
  <2>2. QED
    BY <2>1 DEF FtLinks
<1>4. ASSUME NEW y \in F!Pairs, F!Connects(y[1], y[2]) PROVE FtLinks'
  <2> DEFINE sides == {<<y[1], y[2]>>, <<y[2], y[1]>>}
  <2>1. /\ feedLinks < MaxPostLinks /\ feedLinks' = feedLinks + 1
        /\ feedUp' = [x \in F!Pairs |-> feedUp[x] \/ x \in sides]
        /\ \A x \in F!Pairs : x \in sides \/ feedWire'[x] = feedWire[x]
        /\ UNCHANGED <<unfollows, postsIn, feedKills>>
    BY <1>4 DEF F!Connects
  <2>2. \A x \in F!Pairs : x \in sides <=> <<x[2], x[1]>> \in sides
    BY FtPairs
  <2> HIDE DEF sides
  <2>3. feedUp' \in [F!Pairs -> BOOLEAN] /\ \A x \in F!Pairs : feedUp'[<<x[2], x[1]>>] = feedUp'[x]
    BY <2>1, <2>2, FtPairs DEF FtLinks
  <2>4. feedLinks' \in 0..MaxPostLinks
    BY <1>0, <2>1 DEF FtLinks
  <2>5. QED
    BY <2>1, <2>3, <2>4 DEF FtLinks
<1>5. ASSUME NEW y \in F!Pairs, F!Disconnects(y[1], y[2]) PROVE FtLinks'
  <2> DEFINE l == <<y[1], y[2]>>   r == <<y[2], y[1]>>
  <2>1. /\ feedUp' = [feedUp EXCEPT ![l] = FALSE, ![r] = FALSE]
        /\ feedWire' = [feedWire EXCEPT ![l] = <<>>, ![r] = <<>>]
        /\ postsIn' = [postsIn EXCEPT ![l] = 0, ![r] = 0]
        /\ UNCHANGED <<unfollows, feedLinks, feedKills>>
    BY <1>5 DEF F!Disconnects
  <2>2. l \in F!Pairs /\ r \in F!Pairs /\ \A x \in F!Pairs : x \in {l, r} <=> <<x[2], x[1]>> \in {l, r}
    BY FtPairs
  <2> HIDE DEF l, r
  <2>2a. /\ feedUp \in [F!Pairs -> BOOLEAN] /\ postsIn \in [F!Pairs -> 0..LinkMaxPosts]
         /\ 0 \in 0..LinkMaxPosts
    BY <1>0 DEF FtLinks
  <2>3. \A x \in F!Pairs : /\ feedUp'[x] = IF x \in {l, r} THEN FALSE ELSE feedUp[x]
                           /\ feedWire'[x] = IF x \in {l, r} THEN <<>> ELSE feedWire[x]
                           /\ postsIn'[x] = IF x \in {l, r} THEN 0 ELSE postsIn[x]
    <3>1. \A x \in F!Pairs : feedUp'[x] = IF x = r THEN FALSE ELSE IF x = l THEN FALSE ELSE feedUp[x]
      BY <2>1, <2>2, <2>2a
    <3>2. \A x \in F!Pairs : feedWire'[x] = IF x = r THEN <<>> ELSE IF x = l THEN <<>> ELSE feedWire[x]
      BY <1>0, <2>1, <2>2
    <3>3. \A x \in F!Pairs : postsIn'[x] = IF x = r THEN 0 ELSE IF x = l THEN 0 ELSE postsIn[x]
      BY <2>1, <2>2, <2>2a
    <3>4. QED
      BY <3>1, <3>2, <3>3
  <2>4. feedUp' \in [F!Pairs -> BOOLEAN] /\ postsIn' \in [F!Pairs -> 0..LinkMaxPosts]
    <3>1. feedUp' \in [F!Pairs -> BOOLEAN]
      BY <2>1, <2>2, <2>2a
    <3>2. postsIn' \in [F!Pairs -> 0..LinkMaxPosts]
      BY <2>1, <2>2, <2>2a
    <3>3. QED
      BY <3>1, <3>2
  <2>5. \A x \in F!Pairs : feedUp'[<<x[2], x[1]>>] = feedUp'[x]
    BY <2>2, <2>3, FtPairs DEF FtLinks
  <2>6. \A x \in F!Pairs : feedUp'[x] \/ (postsIn'[x] = 0 /\ feedWire'[x] = <<>>)
    BY <2>3 DEF FtLinks
  <2>7. QED
    BY <2>1, <2>4, <2>5, <2>6 DEF FtLinks
<1>6. ASSUME NEW y \in F!Pairs, F!AnswersFeed(y[1], y[2]) PROVE FtLinks'
  <2> DEFINE there == <<y[2], y[1]>>   back == <<y[1], y[2]>>
  <2>1. feedWire[there] # <<>> /\ UNCHANGED <<unfollows, feedUp, postsIn, feedLinks, feedKills>>
    BY <1>6 DEF F!AnswersFeed, F!Arrives
  <2>2. \A x \in F!Pairs : x # there /\ x # back => feedWire'[x] = feedWire[x]
    BY <1>0, <1>6 DEF F!AnswersFeed, F!Taken
  <2>3. feedUp[there] /\ feedUp[back]
    BY <2>1, FtPairs DEF FtLinks
  <2>4. QED
    BY <2>1, <2>2, <2>3 DEF FtLinks
<1>7. ASSUME NEW y \in F!Pairs, F!TakesPosts(y[1], y[2]) PROVE FtLinks'
  <2> DEFINE there == <<y[2], y[1]>>   back == <<y[1], y[2]>>
             head == Head(feedWire[there])
             items == F!Looked(y[1], y[2], head.items)
  <2>1. feedWire[there] # <<>> /\ head.t = "posts" /\ UNCHANGED <<unfollows, feedUp, feedLinks, feedKills>>
    BY <1>7, Zenon DEF F!TakesPosts, F!Arrives
  <2>2. feedUp[there] /\ feedUp[back] /\ back \in F!Pairs /\ there \in F!Pairs
    BY <2>1, FtPairs DEF FtLinks
  <2>3. \A x \in F!Pairs : x = there \/ feedUp[x] \/ feedWire'[x] = feedWire[x]
    BY <1>0, <1>7 DEF F!TakesPosts, F!Taken
  <2>4. postsIn' = postsIn \/ (~(postsIn[back] >= LinkMaxPosts) /\ postsIn' = [postsIn EXCEPT ![back] = @ + Len(items)])
    <3> HIDE DEF items
    <3>1. QED
      BY <1>7, Zenon DEF F!TakesPosts, items, head
  <2>5. head.items \in Seq(F!Item)
    <3>1. feedWire[there] \in Seq(FdFrame) /\ 1 \in DOMAIN feedWire[there] /\ head = feedWire[there][1]
      BY <1>0, <2>1, <2>2
    <3>2. head \in FdFrame
      BY <3>1
    <3> HIDE DEF head
    <3>3. QED
      BY <2>1, <3>2 DEF FdFrame
  <2> DEFINE n == Len(head.items)   left == LinkMaxPosts - postsIn[back]
  <2>6. n \in Nat /\ left \in Int /\ postsIn[back] \in Nat /\ LinkMaxPosts \in Nat
    BY <1>0, <2>2, <2>5 DEF FtLinks
  <2>7. items = SubSeq(head.items, 1, IF n > left THEN left ELSE n)
    BY DEF F!Looked
  <2>8. ASSUME ~(postsIn[back] >= LinkMaxPosts) PROVE postsIn[back] + Len(items) \in 0..LinkMaxPosts
    <3> DEFINE hi == IF n > left THEN left ELSE n
    <3>1. left \in Nat /\ hi \in 0..n /\ hi <= left
      BY <2>6, <2>8
    <3>2. items = SubSeq(head.items, 1, hi)
      BY <2>7
    <3> HIDE DEF items, hi, n, left, head
    <3>3. Len(items) = hi
      BY <2>5, <3>1, <3>2 DEF n
    <3>4. left = LinkMaxPosts - postsIn[back]
      BY DEF left
    <3>5. QED
      BY <2>6, <3>1, <3>3, <3>4
  <2> HIDE DEF items, n, left, head
  <2>9. postsIn' \in [F!Pairs -> 0..LinkMaxPosts] /\ \A x \in F!Pairs : x # back => postsIn'[x] = postsIn[x]
    BY <2>2, <2>4, <2>8 DEF FtLinks
  <2>10. QED
    BY <2>1, <2>2, <2>3, <2>9 DEF FtLinks
<1>8. ASSUME NEW y \in F!Pairs, F!FollowToggles(y[1], y[2]) PROVE FtLinks'
  <2>1. UNCHANGED <<feedUp, postsIn, feedWire, feedTasks, feedLinks, feedKills>>
    BY <1>8 DEF F!FollowToggles, F!linkVars
  <2>2. unfollows' \in [Daemons -> SUBSET Daemons]
    <3>1. \/ unfollows' = [unfollows EXCEPT ![y[1]] = @ \ {y[2]}]
          \/ unfollows' = [unfollows EXCEPT ![y[1]] = @ \cup {y[2]}]
      BY <1>8 DEF F!FollowToggles
    <3>2. y[1] \in Daemons /\ y[2] \in Daemons /\ unfollows \in [Daemons -> SUBSET Daemons]
      BY FtPairs DEF FtLinks
    <3>3. QED
      BY <3>1, <3>2
  <2>3. QED
    BY <2>1, <2>2 DEF FtLinks
<1>9. QED
  <2>1. CASE UNCHANGED F!vars
    BY <1>1, <2>1 DEF F!vars
  <2>2. ASSUME NEW d \in Daemons, F!Prune(d) \/ F!SavesSocial(d) PROVE FtLinks'
    BY <1>1, <2>2 DEF F!Prune, F!SavesSocial, F!linkVars
  <2>3. CASE F!Time
    BY <1>1, <2>3 DEF F!Time, F!linkVars
  <2>4. QED
    BY <1>2, <1>3, <1>4, <1>5, <1>6, <1>7, <1>8, <2>1, <2>2, <2>3 DEF F!Next

LEMMA FtLinksInit == F!Init => FtLinks
<1> SUFFICES ASSUME F!Init PROVE FtLinks
  OBVIOUS
<1>1. {MaxPostLinks, MaxPostKills, LinkMaxPosts} \subseteq Nat
  BY FeedAssumption
<1>2. \A x \in F!Pairs : <<x[2], x[1]>> \in F!Pairs
  BY FtPairs
<1>3. /\ feedUp = [x \in F!Pairs |-> FALSE] /\ postsIn = [x \in F!Pairs |-> 0]
      /\ feedWire = [x \in F!Pairs |-> <<>>] /\ unfollows = [d \in Daemons |-> {}]
      /\ feedLinks = 0 /\ feedKills = 0
  BY DEF F!Init
<1>4. feedUp \in [F!Pairs -> BOOLEAN] /\ \A x \in F!Pairs : feedUp[<<x[2], x[1]>>] = feedUp[x]
  BY <1>2, <1>3
<1>5. postsIn \in [F!Pairs -> 0..LinkMaxPosts] /\ \A x \in F!Pairs : feedUp[x] \/ (postsIn[x] = 0 /\ feedWire[x] = <<>>)
  BY <1>1, <1>3
<1>6. feedLinks \in 0..MaxPostLinks /\ feedKills \in 0..MaxPostKills
  BY <1>1, <1>3
<1>7. unfollows \in [Daemons -> SUBSET Daemons]
  BY <1>3
<1>8. QED
  BY <1>4, <1>5, <1>6, <1>7 DEF FtLinks

LEMMA FtTypes == FdInv /\ FtLinks => F!TypeOK
<1> SUFFICES ASSUME FdInv, FtLinks PROVE F!TypeOK
  OBVIOUS
<1>1. written \in [Posts -> (0..PostsEnd) \X (1..F!Cardinality(Posts)) \cup {None}]
  BY DEF FdInv, FdTypes, FdStamped, FdStamps
<1>2. \A d \in Daemons : evicted[d] \in Seq(Posts)
  BY DEF FdInv, FdTypes
<1>3. \A x \in F!Pairs : feedTasks[x] \in Seq(Posts)
  BY DEF FdInv, FdTasks
<1>4. QED
  BY <1>1, <1>2, <1>3 DEF FdInv, FdTypes, FtLinks, F!TypeOK

LEMMA FtAlways == SocialSpec => []F!TypeOK
<1>1. SocialInit => FtLinks
  BY FtLinksInit DEF SocialInit
<1>2. FdInv /\ FtLinks /\ [SocialNext]_<<which, vars, feedVars, vaultVars>> => FtLinks'
  BY FtLinksStep, SocialSteps
<1>3. QED
  BY <1>1, <1>2, FdAlways, FtTypes, PTL DEF SocialSpec

\* Whatever floods in, comes back or grows old: until a daemon is killed, its own posts
\* go only when it writes one more than is kept of an author.  The ids of dropped posts
\* must all be remembered: once one of its own is forgotten, a contact may send it back
\* as a new one, for which another goes.
THEOREM OwnStaysTheorem ==
  ASSUME EvictedCap >= Cardinality(Posts)
  PROVE  SocialSpec => OwnStays
<1>1. FdFits
  BY DEF FdFits
<1>2. FdInv /\ [SocialNext]_<<which, vars, feedVars, vaultVars>> =>
        [\A d \in Daemons, p \in Posts :
           /\ held[d][p] # None /\ held[d][p].via = None
           /\ held'[d][p] # held[d][p]
           => feedKills' > 0 \/ \E q \in Posts : Author[q] = d /\ written'[q] # written[q]]_(F!vars)
  BY <1>1, FdInvStep, SocialSteps DEF FdStep, FdKept
<1>3. SocialSpec => []FdInv
  BY FdAlways
<1>4. QED
  BY <1>2, <1>3, PTL DEF SocialSpec, OwnStays, F!OwnStays

\* Among any daemons and over any routes: while the process runs a post that was dropped
\* does not come back, and what goes out is one's own or what a followed author sent
\* directly.
THEOREM TravelsOnceTheorem ==
  ASSUME EvictedCap >= Cardinality(Posts)
  PROVE  SocialSpec => TravelsOnce
<1>1. FdFits
  BY DEF FdFits
<1>2. FdInv /\ [SocialNext]_<<which, vars, feedVars, vaultVars>> =>
        [\A d \in Daemons : \A p \in had[d] :
           held[d][p] = None /\ held'[d][p] # None => feedKills' # feedKills]_(F!vars)
  BY <1>1, FdInvStep, SocialSteps DEF FdStep, FdNews
<1>3. FdInv /\ [SocialNext]_<<which, vars, feedVars, vaultVars>> =>
        [\A x \in F!Pairs : \A i \in DOMAIN feedWire'[x] \ DOMAIN feedWire[x] :
           feedWire'[x][i].t = "posts" =>
             \A it \in F!ToSet(feedWire'[x][i].items) :
               \/ Author[it.p] = x[1]
               \/ /\ Author[it.p] \in F!FollowSet(x[1])
                  /\ held'[x[1]][it.p].via = Author[it.p]]_(F!vars)
  BY <1>1, FdInvStep, SocialSteps DEF FdStep, FdSent, FdMay, FdTells, F!ToSet
<1>4. SocialSpec => []FdInv
  BY FdAlways
<1>5. QED
  BY <1>2, <1>3, <1>4, PTL DEF SocialSpec, TravelsOnce, F!TravelsOnce, F!NewOnce, F!PassedOnOnce

-----------------------------------------------------------------------------
(* Rooms: for any daemons, clocks, stores and lines, a daemon is in only if *)
(* its operator wants it, and the newest word of a member counts, by        *)
(* whatever routes the words come.                                          *)

USE DaemonsAssumption, BoundsAssumption, NoneAssumption

-----------------------------------------------------------------------------
(* Sets in order, and the least of some numbers, by which the fold over a   *)
(* frame is shown step by step.                                            *)

LEMMA Least ==
  ASSUME NEW T \in SUBSET Nat, T # {}
  PROVE  \E n \in T : \A k \in T : n <= k
<1>1. \E n \in T : \A k \in T : <<k, n>> \notin OpToRel(<, Nat)
  BY WFMin, NatLessThanWellFounded, Zenon
<1>2. \A k, n \in Nat : k < n => <<k, n>> \in OpToRel(<, Nat)
  BY DEF OpToRel
<1>3. \E n \in T : \A k \in T : ~(k < n)
  BY <1>1, <1>2, Zenon
<1>4. QED
  BY <1>3

LEMMA InOrder ==
  ASSUME NEW S, IsFiniteSet(S)
  PROVE  SetToSeq(S) \in Seq(S)
<1>1. Cardinality(S) \in Nat /\ \E f \in [1..Cardinality(S) -> S] : IsInjective(f)
  BY FS_CardinalityType DEF ExistsBijection, Bijection, Injection, IsInjective
<1>2. SetToSeq(S) \in [1..Cardinality(S) -> S]
  BY <1>1 DEF SetToSeq
<1>3. QED
  BY <1>1, <1>2

\* The greatest of some numbers up to n.
LEMMA Greatest ==
  ASSUME NEW n \in Nat, NEW s \in SUBSET (1..n), s # {}
  PROVE  Max(s) \in s /\ \A k \in s : k <= Max(s)
<1> DEFINE T == {i \in Nat : n - i \in s}
<1>1. T \in SUBSET Nat /\ T # {}
  <2>1. PICK k \in s : k \in 1..n
    OBVIOUS
  <2>2. n - k \in Nat /\ n - (n - k) = k
    BY <2>1
  <2>3. QED
    BY <2>1, <2>2
<1>2. PICK i \in T : \A j \in T : i <= j
  BY <1>1, Least
<1>3. n - i \in s /\ \A k \in s : n - k \in T
  <2>1. ASSUME NEW k \in s PROVE n - k \in Nat /\ n - (n - k) = k
    OBVIOUS
  <2>2. QED
    BY <2>1
<1>4. \A k \in s : k <= n - i
  BY <1>2, <1>3
<1>5. QED
  BY <1>3, <1>4 DEF Max

-----------------------------------------------------------------------------
(* What one word or message, and a frame of them, do to a room.            *)

WordItem == [k : {"word"}, by : Daemons, n : Times, left : BOOLEAN]
MsgItem  == [k : {"msg"}, by : Daemons, n : Times]
Item     == WordItem \cup MsgItem

\* Words of s are those of r, or newer.
Newer(r, s) == \A m \in Known(r) : /\ s.members[m] # None
                                   /\ \/ s.members[m] = r.members[m]
                                      \/ r.members[m].n < s.members[m].n

LEMMA NewerTrans ==
  ASSUME NEW r \in Room, NEW s \in Room, NEW t \in Room, Newer(r, s), Newer(s, t)
  PROVE  Newer(r, t)
<1> SUFFICES ASSUME NEW m \in Known(r)
             PROVE  /\ t.members[m] # None
                    /\ t.members[m] = r.members[m] \/ r.members[m].n < t.members[m].n
  BY DEF Newer
<1>1. m \in Daemons /\ m \in Known(s) /\ t.members[m] # None
  BY DEF Newer, Known
<1>2. r.members[m] \in Word /\ s.members[m] \in Word /\ t.members[m] \in Word
  BY <1>1 DEF Room, Known
<1>3. r.members[m].n \in Nat /\ s.members[m].n \in Nat /\ t.members[m].n \in Nat
  BY <1>2 DEF Word, Times
<1>4. s.members[m] = r.members[m] \/ r.members[m].n < s.members[m].n
  BY DEF Newer
<1>5. t.members[m] = s.members[m] \/ s.members[m].n < t.members[m].n
  BY <1>1 DEF Newer
<1>6. QED
  BY <1>1, <1>3, <1>4, <1>5

LEMMA WordAdded ==
  ASSUME NEW r \in Room, NEW it \in WordItem
  PROVE  AddMember(r, it) \in Room /\ Newer(r, AddMember(r, it))
<1>1. CASE Takes(r, it)
  <2> DEFINE w == [n |-> it.n, left |-> it.left]
  <2>1. w \in Word /\ w # None /\ it.by \in Daemons
    BY DEF WordItem, Word
  <2>2. AddMember(r, it) = [r EXCEPT !.members[it.by] = w]
    BY <1>1 DEF AddMember
  <2> HIDE DEF w
  <2>3. /\ AddMember(r, it) \in Room
        /\ AddMember(r, it).members = [r.members EXCEPT ![it.by] = w]
    BY <2>1, <2>2 DEF Room
  <2>4. it.by \in Known(r) => r.members[it.by].n < w.n
    BY <1>1 DEF Takes, w
  <2>5. \A m \in Daemons : AddMember(r, it).members[m] = IF m = it.by THEN w ELSE r.members[m]
    BY <2>1, <2>3 DEF Room
  <2>6. QED
    BY <2>1, <2>3, <2>4, <2>5 DEF Newer, Known
<1>2. CASE ~Takes(r, it)
  BY <1>2 DEF AddMember, Newer, Known
<1>3. QED
  BY <1>1, <1>2

LEMMA MsgAdded ==
  ASSUME NEW r \in Room, NEW it \in MsgItem
  PROVE  /\ AddRoomMsg(r, it) \in Room /\ AddRoomMsg(r, it).members = r.members
         /\ Newer(r, AddRoomMsg(r, it))
<1> DEFINE msgs   == r.msgs \cup {[by |-> it.by, n |-> it.n]}
           oldest == {x \in msgs : \A y \in msgs : x.n <= y.n}
           kept   == IF Cardinality(msgs) > MaxRoomMsgs THEN msgs \ oldest ELSE msgs
<1>1. msgs \subseteq Msg /\ kept \subseteq msgs
  BY DEF MsgItem, Msg, Room
<1>2. AddRoomMsg(r, it) \in {r, [r EXCEPT !.msgs = kept]}
  BY DEF AddRoomMsg
<1> HIDE DEF kept, msgs
<1>3. AddRoomMsg(r, it) \in Room /\ AddRoomMsg(r, it).members = r.members
  BY <1>1, <1>2 DEF Room
<1>4. QED
  BY <1>3 DEF Newer, Known

LEMMA Added ==
  ASSUME NEW r \in Room, NEW it \in Item
  PROVE  Add(r, it) \in Room /\ Newer(r, Add(r, it))
<1>1. CASE it \in WordItem
  <2>1. it.k = "word"
    BY <1>1 DEF WordItem
  <2>2. QED
    BY <1>1, <2>1, WordAdded DEF Add
<1>2. CASE it \in MsgItem
  <2>1. it.k # "word"
    BY <1>2 DEF MsgItem
  <2>2. QED
    BY <1>2, <2>1, MsgAdded DEF Add
<1>3. QED
  BY <1>1, <1>2 DEF Item

\* The fold that AddAll is: what is left of a set of places after the greatest
\* is added last.
Folds(iter, r, its, n) ==
  iter = [s \in SUBSET (1..n) |->
            IF s = {} THEN r ELSE Add(iter[s \ {Max(s)}], its[Max(s)])]

LEMMA BelowGreatest ==
  ASSUME NEW n \in Nat, NEW s \in SUBSET (1..(n + 1)), s # {}
  PROVE  s \ {Max(s)} \in SUBSET (1..n)
<1> DEFINE g == Max(s)
<1>1. n + 1 \in Nat
  OBVIOUS
<1>2. g \in s /\ \A k \in s : k <= g
  BY <1>1, Greatest
<1> HIDE DEF g
<1>3. ASSUME NEW k \in s, k # g PROVE k \in 1..n
  <2>1. k \in 1..(n + 1) /\ g \in 1..(n + 1) /\ k <= g
    BY <1>2
  <2>2. QED
    BY <1>3, <2>1
<1>4. s \ {g} \in SUBSET (1..n)
  BY <1>3
<1>5. QED
  BY <1>4 DEF g

LEMMA FoldsLonger ==
  ASSUME NEW r, NEW its, NEW n \in Nat, NEW h, Folds(h, r, its, n)
  PROVE  \E g : Folds(g, r, its, n + 1)
<1> DEFINE At(s) == IF s = {} THEN r ELSE Add(h[s \ {Max(s)}], its[Max(s)])
           g == [s \in SUBSET (1..(n + 1)) |-> At(s)]
<1>1. \A s \in SUBSET (1..n) : h[s] = At(s)
  BY DEF Folds
<1>2. \A s \in SUBSET (1..(n + 1)) : g[s] = At(s)
  OBVIOUS
<1>3. SUBSET (1..n) \subseteq SUBSET (1..(n + 1))
  OBVIOUS
<1>4. \A s \in SUBSET (1..n) : g[s] = h[s]
  BY <1>1, <1>2, <1>3, Zenon
<1>5. ASSUME NEW s \in SUBSET (1..(n + 1))
      PROVE  At(s) = IF s = {} THEN r ELSE Add(g[s \ {Max(s)}], its[Max(s)])
  <2>1. CASE s = {}
    BY <2>1
  <2>2. CASE s # {}
    <3>1. s \ {Max(s)} \in SUBSET (1..n)
      BY <2>2, BelowGreatest
    <3>2. g[s \ {Max(s)}] = h[s \ {Max(s)}]
      BY <1>4, <3>1
    <3>3. QED
      BY <2>2, <3>2, Zenon
  <2>3. QED
    BY <2>1, <2>2
<1>6. g = [s \in SUBSET (1..(n + 1)) |->
             IF s = {} THEN r ELSE Add(g[s \ {Max(s)}], its[Max(s)])]
  BY <1>5, Zenon
<1>7. QED
  BY <1>6 DEF Folds

LEMMA FoldExists ==
  ASSUME NEW r, NEW its
  PROVE  \A n \in Nat : \E g : Folds(g, r, its, n)
<1> DEFINE T == {n \in Nat : ~ \E g : Folds(g, r, its, n)}
<1>1. SUFFICES ASSUME T # {} PROVE FALSE
  OBVIOUS
<1>2. PICK n \in T : \A k \in T : n <= k
  <2>1. T \in SUBSET Nat
    OBVIOUS
  <2>2. QED
    BY <1>1, <2>1, Least
<1>3. n # 0
  <2>1. SUBSET (1..0) = {{}}
    OBVIOUS
  <2>2. Folds([s \in SUBSET (1..0) |-> r], r, its, 0)
    BY <2>1 DEF Folds
  <2>3. QED
    BY <2>2
<1>4. n - 1 \in Nat /\ n - 1 + 1 = n
  BY <1>3
<1>5. n - 1 \notin T
  BY <1>2, <1>4
<1>6. PICK h : Folds(h, r, its, n - 1)
  BY <1>4, <1>5
<1>7. \E g : Folds(g, r, its, n - 1 + 1)
  BY <1>4, <1>6, FoldsLonger
<1>8. QED
  BY <1>4, <1>7

LEMMA AllAdded ==
  ASSUME NEW r \in Room, NEW its \in Seq(Item)
  PROVE  AddAll(r, its) \in Room /\ Newer(r, AddAll(r, its))
<1> DEFINE N == Len(its)
           iter == CHOOSE f : Folds(f, r, its, N)
<1>1. N \in Nat /\ DOMAIN its = 1..N
  OBVIOUS
<1>2. AddAll(r, its) = iter[1..N]
  <2>1. AddAll(r, its) =
          (CHOOSE f : f = [s \in SUBSET DOMAIN its |->
              IF s = {} THEN r ELSE Add(f[s \ {Max(s)}], its[Max(s)])])[DOMAIN its]
    BY DEF AddAll, FoldLeft, MapThenFoldSet
  <2>2. QED
    BY <1>1, <2>1, Zenon DEF Folds
<1>3. Folds(iter, r, its, N)
  BY <1>1, FoldExists
<1> HIDE DEF iter
<1> DEFINE Good(n) == iter[1..n] \in Room /\ Newer(r, iter[1..n])
           T == {n \in 0..N : ~Good(n)}
<1>4. Good(0)
  <2>1. 1..0 = {} /\ {} \in SUBSET (1..N)
    OBVIOUS
  <2>2. iter[{}] = r
    BY <1>3, <2>1 DEF Folds
  <2>3. QED
    BY <2>1, <2>2 DEF Newer, Known
<1>5. ASSUME NEW n \in 1..N, Good(n - 1) PROVE Good(n)
  <2>1. 1..n \in SUBSET (1..N) /\ 1..n # {} /\ n \in Nat
    BY <1>1
  <2>2. Max(1..n) = n
    <3>1. Max(1..n) \in 1..n /\ \A k \in 1..n : k <= Max(1..n)
      BY <2>1, Greatest
    <3>2. QED
      BY <2>1, <3>1
  <2>3. (1..n) \ {n} = 1..(n - 1)
    BY <2>1
  <2>4. iter[1..n] = Add(iter[1..(n - 1)], its[n])
    BY <1>3, <2>1, <2>2, <2>3 DEF Folds
  <2>5. its[n] \in Item
    BY <1>1
  <2>6. iter[1..n] \in Room /\ Newer(iter[1..(n - 1)], iter[1..n])
    BY <1>5, <2>4, <2>5, Added
  <2>7. QED
    BY <1>5, <2>6, NewerTrans
<1>6. T = {}
  <2>1. SUFFICES ASSUME T # {} PROVE FALSE
    OBVIOUS
  <2>2. T \in SUBSET Nat
    BY <1>1
  <2>3. PICK n \in T : \A k \in T : n <= k
    BY <2>1, <2>2, Least
  <2>4. n # 0
    BY <1>4
  <2>5. n \in 1..N /\ n - 1 \in 0..N /\ ~(n <= n - 1)
    BY <1>1, <2>4
  <2>6. Good(n - 1)
    BY <2>3, <2>5
  <2>7. QED
    BY <1>5, <2>5, <2>6
<1>7. QED
  BY <1>1, <1>2, <1>6

-----------------------------------------------------------------------------
(* Frames.                                                                 *)

ReqFrame   == [t : {"req"}, since : Nat, join : WordItem \cup {None}]
ItemsFrame == [t : {"items"}, items : Seq(Item)]
StateFrame == [t : {"state"}, words : Seq(WordItem)]
ErrFrame   == [t : {"err"}]
Task  == ReqFrame \cup ItemsFrame
Frame == Task \cup StateFrame \cup ErrFrame

LEMMA Kinds ==
  ASSUME NEW f \in Frame
  PROVE  /\ f.t \in {"req", "state", "items", "err"}
         /\ f.t = "req" => f \in ReqFrame
         /\ f.t = "state" => f \in StateFrame
         /\ f.t = "items" => f \in ItemsFrame
  BY DEF Frame, Task, ReqFrame, ItemsFrame, StateFrame, ErrFrame

LEMMA WordsTyped ==
  ASSUME NEW r \in Room
  PROVE  Words(r) \in Seq(WordItem)
<1> DEFINE f == [d \in Known(r) |-> AWord(d, r.members[d].n, r.members[d].left)]
           S == {AWord(d, r.members[d].n, r.members[d].left) : d \in Known(r)}
<1>1. IsFiniteSet(Known(r))
  BY FS_Subset DEF Known
<1>2. f \in Surjection(Known(r), S)
  BY DEF Surjection
<1>3. S \in SUBSET WordItem
  <2>1. ASSUME NEW d \in Known(r) PROVE AWord(d, r.members[d].n, r.members[d].left) \in WordItem
    <3>1. d \in Daemons /\ r.members[d] \in Word
      BY DEF Known, Room
    <3>2. QED
      BY <3>1 DEF Word, AWord, WordItem
  <2>2. QED
    BY <2>1
<1> HIDE DEF f
<1>4. IsFiniteSet(S)
  BY <1>1, <1>2, FS_Surjection
<1>5. Words(r) \in Seq(S)
  BY <1>4, InOrder DEF Words
<1> HIDE DEF S
<1>6. QED
  BY <1>3, <1>5

LEMMA MsgsTyped ==
  ASSUME NEW r \in Room, NEW t
  PROVE  MsgsSince(r, t) \in Seq(MsgItem)
<1> DEFINE f == [p \in Daemons \X Times |-> AMsg(p[1], p[2])]
<1>1. IsFiniteSet(MsgItem)
  <2>1. IsFiniteSet(Times)
    BY FS_Interval DEF Times
  <2>2. IsFiniteSet(Daemons \X Times)
    BY <2>1, FS_Product
  <2>3. f \in Surjection(Daemons \X Times, MsgItem)
    <3>1. f \in [Daemons \X Times -> MsgItem]
      BY DEF AMsg, MsgItem
    <3>2. ASSUME NEW m \in MsgItem PROVE \E p \in Daemons \X Times : f[p] = m
      <4>1. <<m.by, m.n>> \in Daemons \X Times /\ f[<<m.by, m.n>>] = m
        BY DEF AMsg, MsgItem
      <4>2. QED
        BY <4>1
    <3>3. QED
      BY <3>1, <3>2 DEF Surjection
  <2> HIDE DEF f
  <2>4. QED
    BY <2>2, <2>3, FS_Surjection
<1> DEFINE young == {m \in r.msgs : m.n > t}
           S == {AMsg(m.by, m.n) : m \in {x \in young :
                   Cardinality({y \in young : y.n > x.n}) < ReplyLimit}}
<1>2. S \in SUBSET MsgItem
  <2>1. \A m \in r.msgs : AMsg(m.by, m.n) \in MsgItem
    BY DEF AMsg, MsgItem, Room, Msg
  <2>2. young \subseteq r.msgs
    OBVIOUS
  <2> HIDE DEF young
  <2>3. QED
    BY <2>1, <2>2
<1>3. MsgsSince(r, t) = SetToSeq(S)
  BY DEF MsgsSince
<1> HIDE DEF S
<1>4. IsFiniteSet(S)
  BY <1>1, <1>2, FS_Subset
<1>5. MsgsSince(r, t) \in Seq(S)
  BY <1>3, <1>4, InOrder
<1>6. QED
  BY <1>2, <1>5

LEMMA Framed ==
  /\ \A since \in Nat, w \in WordItem \cup {None} : Req(since, w) \in Task
  /\ \A it \in Item : Items(<<it>>) \in Task
  /\ \A its \in Seq(Item) : Items(its) \in Task
  /\ \A r \in Room : State(r) \in Frame
  /\ Err \in Frame
  /\ Task \subseteq Frame
<1>1. \A it \in Item : <<it>> \in Seq(Item)
  OBVIOUS
<1>2. \A r \in Room : State(r) \in Frame
  BY WordsTyped DEF State, Frame, StateFrame
<1>3. QED
  BY <1>1, <1>2 DEF Req, Items, Err, Task, Frame, ReqFrame, ItemsFrame, ErrFrame

LEMMA AnswerTyped ==
  ASSUME NEW r \in Room, NEW f
  PROVE  Answer(r, f) \in Seq(Frame)
<1> DEFINE msgs == MsgsSince(r, f.since)
<1>1. msgs \in Seq(Item)
  <2>1. msgs \in Seq(MsgItem)
    BY MsgsTyped
  <2> HIDE DEF msgs
  <2>2. QED
    BY <2>1 DEF Item
<1> HIDE DEF msgs
<1>2. <<State(r)>> \in Seq(Frame) /\ <<Items(msgs)>> \in Seq(Frame)
  <2>1. State(r) \in Frame /\ Items(msgs) \in Frame
    BY <1>1, Framed
  <2>2. QED
    BY <2>1
<1>3. QED
  BY <1>2 DEF Answer, msgs

-----------------------------------------------------------------------------
(* The invariant.                                                          *)

Stores ==
  /\ room \in [Daemons -> Room \cup {None}] /\ disk \in [Daemons -> Room \cup {None}]
  /\ pending \subseteq Daemons /\ wants \subseteq Daemons
  /\ roomAt \in [Pairs -> Times \cup {None}]
  /\ up \in [Pairs -> BOOLEAN]
  /\ now \in Times /\ links \in 0..MaxLinks /\ crashes \in 0..MaxCrashes
Frames == wire \in [Pairs -> Seq(Frame)] /\ tasks \in [Pairs -> Seq(Task)]

\* Who joins is not in yet, and its operator wants it to be.
Wanted ==
  /\ \A d \in pending : room[d] = None
  /\ crashes = 0 => pending \subseteq wants /\ \A d \in Daemons : room[d] # None => d \in wants

Inv == Stores /\ Frames /\ Wanted

\* What LatestWordKept says of a step.
OnlyNewer ==
  \A d, m \in Daemons :
    (room[d] # None /\ room'[d] # None /\ crashes' = crashes /\ m \in Known(room[d])) =>
      /\ room'[d].members[m] # None
      /\ \/ room'[d].members[m] = room[d].members[m]
         \/ room[d].members[m].n < room'[d].members[m].n

\* A step that changes the store of one daemon.
LEMMA OneRoom ==
  ASSUME Stores, NEW d \in Daemons, NEW r \in Room \cup {None},
         room' = [room EXCEPT ![d] = r],
         room[d] = None \/ r = None \/ Newer(room[d], r)
  PROVE  /\ room' \in [Daemons -> Room \cup {None}] /\ OnlyNewer
         /\ room'[d] = r /\ \A e \in Daemons : e # d => room'[e] = room[e]
<1>1. room' \in [Daemons -> Room \cup {None}] /\ room'[d] = r
  BY DEF Stores
<1>2. \A e \in Daemons : e # d => room'[e] = room[e]
  BY DEF Stores
<1>3. OnlyNewer
  BY <1>1, <1>2 DEF OnlyNewer, Newer, Known
<1>4. QED
  BY <1>1, <1>2, <1>3

LEMMA SameRoom == ASSUME room' = room PROVE OnlyNewer
  BY DEF OnlyNewer, Known

\* A step that sends.
LEMMA Sent ==
  ASSUME Frames, NEW d, NEW to, NEW f \in Task, NEW taken,
         taken \in Pairs => wire[taken] # <<>>,
         Sends(d, to, f, taken)
  PROVE  Frames'
<1> DEFINE goes(x) == x[1] = d /\ x[2] \in to
           rest(x) == IF x = taken THEN Tail(wire[x]) ELSE wire[x]
<1>1. /\ wire' = [x \in Pairs |-> IF goes(x) /\ up[x] THEN Append(rest(x), f) ELSE rest(x)]
      /\ tasks' = [x \in Pairs |-> IF goes(x) /\ ~up[x] THEN Append(tasks[x], f) ELSE tasks[x]]
  BY DEF Sends
<1>2. \A x \in Pairs : wire[x] \in Seq(Frame) /\ tasks[x] \in Seq(Task) /\ f \in Frame
  BY Framed DEF Frames
<1>3. \A x \in Pairs : rest(x) \in Seq(Frame)
  BY <1>2
<1> HIDE DEF rest, goes
<1>4. \A x \in Pairs : Append(rest(x), f) \in Seq(Frame) /\ Append(tasks[x], f) \in Seq(Task)
  BY <1>2, <1>3
<1>5. QED
  BY <1>1, <1>2, <1>3, <1>4 DEF Frames

\* A step that takes a frame.
LEMMA Taken ==
  ASSUME Frames, NEW x \in Pairs, wire[x] # <<>>
  PROVE  /\ Head(wire[x]) \in Frame
         /\ [wire EXCEPT ![x] = Tail(@)] \in [Pairs -> Seq(Frame)]
<1>1. wire[x] \in Seq(Frame)
  BY DEF Frames
<1>2. Head(wire[x]) \in Frame /\ Tail(wire[x]) \in Seq(Frame)
  BY <1>1
<1>3. QED
  BY <1>2 DEF Frames

-----------------------------------------------------------------------------
(* The operator's steps.                                                   *)

LEMMA Tick == ASSUME Moves, now \in Times PROVE now' \in Times
  BY DEF Moves, Times

LEMMA JoinStep ==
  ASSUME Inv, NEW d \in Daemons, NEW c \in Daemons, Join(d, c)
  PROVE  Inv' /\ OnlyNewer
<1>1. Req(0, AWord(d, now, FALSE)) \in Task
  <2>1. AWord(d, now, FALSE) \in WordItem
    BY DEF AWord, WordItem, Inv, Stores
  <2>2. QED
    BY <2>1, Framed
<1>2. Frames'
  BY <1>1, Sent DEF Join, Inv
<1>3. Stores' /\ room' = room
  BY Tick DEF Join, Inv, Stores
<1>4. Wanted'
  BY <1>3 DEF Join, Inv, Wanted
<1>5. QED
  BY <1>2, <1>3, <1>4, SameRoom DEF Inv

LEMMA SendStep ==
  ASSUME Inv, NEW d \in Daemons, Send(d)
  PROVE  Inv' /\ OnlyNewer
<1> DEFINE m == AMsg(d, now)
           r == AddRoomMsg(room[d], m)
<1>1. m \in MsgItem
  BY DEF AMsg, MsgItem, Inv, Stores
<1>2. room[d] \in Room
  BY DEF Send, Inv, Stores
<1>3. r \in Room /\ Newer(room[d], r)
  BY <1>1, <1>2, MsgAdded
<1>4. Items(<<m>>) \in Task
  BY <1>1, Framed DEF Item
<1>5. Frames' /\ room' = [room EXCEPT ![d] = r]
  BY <1>4, Sent DEF Send, Inv
<1> HIDE DEF r
<1>6. /\ room' \in [Daemons -> Room \cup {None}] /\ OnlyNewer
      /\ room'[d] = r /\ \A e \in Daemons : e # d => room'[e] = room[e]
  BY <1>3, <1>5, OneRoom DEF Inv
<1>7. Stores'
  BY <1>6, Tick DEF Send, Inv, Stores
<1>8. Wanted'
  BY <1>6 DEF Send, Inv, Stores, Wanted
<1>9. QED
  BY <1>5, <1>6, <1>7, <1>8 DEF Inv

LEMMA LeaveStep ==
  ASSUME Inv, NEW d \in Daemons, Leave(d)
  PROVE  Inv' /\ OnlyNewer
<1> DEFINE bye == AWord(d, now, TRUE)
<1>1. bye \in WordItem
  BY DEF AWord, WordItem, Inv, Stores
<1>2. Items(<<bye>>) \in Task
  BY <1>1, Framed DEF Item
<1>3. Frames' /\ room' = [room EXCEPT ![d] = None]
  BY <1>2, Sent DEF Leave, Inv
<1>4. /\ room' \in [Daemons -> Room \cup {None}] /\ OnlyNewer
      /\ room'[d] = None /\ \A e \in Daemons : e # d => room'[e] = room[e]
  BY <1>3, OneRoom DEF Inv
<1>5. Stores'
  BY <1>4, Tick DEF Leave, Inv, Stores
<1>6. d \notin pending
  BY DEF Leave, Inv, Wanted
<1>7. Wanted'
  BY <1>4, <1>6 DEF Leave, Inv, Stores, Wanted
<1>8. QED
  BY <1>3, <1>4, <1>5, <1>7 DEF Inv

-----------------------------------------------------------------------------
(* Links.                                                                  *)

LEMMA ConnectsStep ==
  ASSUME Inv, NEW d \in Daemons, NEW c \in Daemons, Connects(d, c)
  PROVE  Inv' /\ OnlyNewer
<1> DEFINE sides == {<<d, c>>, <<c, d>>}
<1>1. ASSUME NEW x \in Pairs PROVE Asks(x[1], x[2]) \in Seq(Frame)
  <2> DEFINE at == roomAt[<<x[1], x[2]>>]
             since == IF at = None THEN 0 ELSE IF at > Overlap THEN at - Overlap ELSE 0
  <2>1. x = <<x[1], x[2]>> /\ at \in Times \cup {None}
    BY DEF Pairs, Inv, Stores
  <2>2. since \in Nat
    BY <2>1 DEF Times
  <2> HIDE DEF since
  <2>3. <<Req(since, None)>> \in Seq(Frame)
    <3>1. Req(since, None) \in Frame
      BY <2>2, Framed
    <3>2. QED
      BY <3>1
  <2>4. Asks(x[1], x[2]) \in {<<>>, <<Req(since, None)>>}
    BY DEF Asks, since
  <2>5. <<>> \in Seq(Frame)
    OBVIOUS
  <2>6. QED
    BY <2>3, <2>4, <2>5, Zenon
<1>2. ASSUME NEW x \in Pairs PROVE Asks(x[1], x[2]) \o tasks[x] \in Seq(Frame)
  <2>1. tasks[x] \in Seq(Frame)
    <3>1. tasks[x] \in Seq(Task)
      BY DEF Inv, Frames
    <3>2. QED
      BY <3>1, Framed
  <2>2. QED
    BY <1>1, <2>1
<1>3. Frames'
  <2>1. /\ wire' = [x \in Pairs |-> IF x \in sides THEN Asks(x[1], x[2]) \o tasks[x] ELSE wire[x]]
        /\ tasks' = [x \in Pairs |-> IF x \in sides THEN <<>> ELSE tasks[x]]
    BY DEF Connects
  <2>2. \A x \in Pairs : wire[x] \in Seq(Frame) /\ tasks[x] \in Seq(Task) /\ <<>> \in Seq(Task)
    BY DEF Inv, Frames
  <2> HIDE DEF sides
  <2>3. wire' \in [Pairs -> Seq(Frame)]
    <3> DEFINE new(x) == Asks(x[1], x[2]) \o tasks[x]
    <3>1. \A x \in Pairs : new(x) \in Seq(Frame)
      BY <1>2
    <3>2. wire' = [x \in Pairs |-> IF x \in sides THEN new(x) ELSE wire[x]]
      BY <2>1
    <3> HIDE DEF new
    <3>3. QED
      BY <2>2, <3>1, <3>2
  <2>4. tasks' \in [Pairs -> Seq(Task)]
    BY <2>1, <2>2
  <2>5. QED
    BY <2>3, <2>4 DEF Frames
<1>4. Stores' /\ room' = room
  BY DEF Connects, Inv, Stores
<1>5. Wanted'
  BY <1>4 DEF Connects, Inv, Wanted
<1>6. QED
  BY <1>3, <1>4, <1>5, SameRoom DEF Inv

LEMMA DisconnectsStep ==
  ASSUME Inv, NEW d \in Daemons, NEW c \in Daemons, Disconnects(d, c)
  PROVE  Inv' /\ OnlyNewer
<1>1. Stores' /\ Frames' /\ room' = room
  BY DEF Disconnects, Inv, Stores, Frames
<1>2. Wanted'
  BY <1>1 DEF Disconnects, Inv, Wanted
<1>3. QED
  BY <1>1, <1>2, SameRoom DEF Inv

-----------------------------------------------------------------------------
(* Frames that arrive.                                                     *)

LEMMA First_Typed ==
  ASSUME Inv, NEW c, NEW d, <<c, d>> \in Pairs, NEW t, Arrives(c, d, t)
  PROVE  /\ wire[<<c, d>>] # <<>> /\ First(c, d) \in Frame /\ First(c, d).t = t
         /\ [wire EXCEPT ![<<c, d>>] = Tail(@)] \in [Pairs -> Seq(Frame)]
  BY Taken DEF Arrives, First, Inv

LEMMA TakesStateStep ==
  ASSUME Inv, NEW d \in Daemons, NEW c \in Daemons, d # c, TakesState(d, c)
  PROVE  Inv' /\ OnlyNewer
<1> DEFINE r == AddAll(room[d], First(c, d).words)
<1>1. <<c, d>> \in Pairs
  BY DEF Pairs
<1>2. First(c, d) \in StateFrame /\ Frames'
  BY <1>1, First_Typed, Kinds DEF TakesState, Inv, Frames
<1>3. First(c, d).words \in Seq(Item)
  <2>1. First(c, d).words \in Seq(WordItem)
    BY <1>2 DEF StateFrame
  <2>2. QED
    BY <2>1 DEF Item
<1>4. CASE room[d] = None
  <2>1. room' = room
    BY <1>4 DEF TakesState
  <2>2. Stores'
    BY <2>1 DEF TakesState, Inv, Stores
  <2>3. Wanted'
    BY <2>1 DEF TakesState, Inv, Wanted
  <2>4. QED
    BY <1>2, <2>1, <2>2, <2>3, SameRoom DEF Inv
<1>5. CASE room[d] # None
  <2>1. room' = [room EXCEPT ![d] = r]
    BY <1>5 DEF TakesState
  <2>2. r \in Room /\ Newer(room[d], r)
    BY <1>3, <1>5, AllAdded DEF Inv, Stores
  <2> HIDE DEF r
  <2>3. /\ room' \in [Daemons -> Room \cup {None}] /\ OnlyNewer
        /\ room'[d] = r /\ \A e \in Daemons : e # d => room'[e] = room[e]
    BY <2>1, <2>2, OneRoom DEF Inv
  <2>4. Stores'
    BY <2>3 DEF TakesState, Inv, Stores
  <2>5. Wanted'
    BY <1>5, <2>3 DEF TakesState, Inv, Stores, Wanted
  <2>6. QED
    BY <1>2, <2>3, <2>4, <2>5 DEF Inv
<1>6. QED
  BY <1>4, <1>5

LEMMA TakesItemsStep ==
  ASSUME Inv, NEW d \in Daemons, NEW c \in Daemons, d # c, TakesItems(d, c)
  PROVE  Inv' /\ OnlyNewer
<1> DEFINE r == AddAll(room[d], First(c, d).items)
<1>1. <<c, d>> \in Pairs
  BY DEF Pairs
<1>2. First(c, d) \in ItemsFrame /\ Frames'
  BY <1>1, First_Typed, Kinds DEF TakesItems, Inv, Frames
<1>3. First(c, d).items \in Seq(Item)
  BY <1>2 DEF ItemsFrame
<1>4. CASE room[d] = None
  <2>1. room' = room /\ roomAt' = roomAt
    BY <1>4 DEF TakesItems
  <2>2. Stores'
    BY <2>1 DEF TakesItems, Inv, Stores
  <2>3. Wanted'
    BY <2>1 DEF TakesItems, Inv, Wanted
  <2>4. QED
    BY <1>2, <2>1, <2>2, <2>3, SameRoom DEF Inv
<1>5. CASE room[d] # None
  <2>1. room' = [room EXCEPT ![d] = r] /\ roomAt' = [roomAt EXCEPT ![<<d, c>>] = now]
    BY <1>5 DEF TakesItems
  <2>2. r \in Room /\ Newer(room[d], r)
    BY <1>3, <1>5, AllAdded DEF Inv, Stores
  <2> HIDE DEF r
  <2>3. /\ room' \in [Daemons -> Room \cup {None}] /\ OnlyNewer
        /\ room'[d] = r /\ \A e \in Daemons : e # d => room'[e] = room[e]
    BY <2>1, <2>2, OneRoom DEF Inv
  <2>4. Stores'
    BY <2>1, <2>3 DEF TakesItems, Inv, Stores
  <2>5. Wanted'
    BY <1>5, <2>3 DEF TakesItems, Inv, Stores, Wanted
  <2>6. QED
    BY <1>2, <2>3, <2>4, <2>5 DEF Inv
<1>6. QED
  BY <1>4, <1>5

LEMMA AnswersReqStep ==
  ASSUME Inv, NEW d \in Daemons, NEW c \in Daemons, d # c, AnswersReq(d, c)
  PROVE  Inv' /\ OnlyNewer
<1> DEFINE f      == First(c, d)
           r      == IF f.join # None THEN AddMember(room[d], f.join) ELSE room[d]
           stale  == f.join # None /\ Rejects(room[d], f.join)
           refuse == IF room[d] = None THEN TRUE ELSE stale \/ c \notin Present(r)
           heard   == IF refuse /\ room[d] = None THEN {} ELSE Told(d, c, room[d], f)
           reply  == IF refuse THEN <<Err>> ELSE Answer(r, f)
           tells(x) == x[1] = d /\ x[2] \in heard
           left(x)  == IF x = <<c, d>> THEN Tail(wire[x]) ELSE wire[x]
           rest(x)  == left(x) \o (IF x[1] = d /\ x[2] \in heard /\ up[x] THEN <<Items(<<f.join>>)>> ELSE <<>>)
<1>1. <<c, d>> \in Pairs
  BY DEF Pairs
<1>2. f \in ReqFrame /\ wire[<<c, d>>] # <<>>
  BY <1>1, First_Typed, Kinds DEF AnswersReq
<1>3. f.join \in WordItem \cup {None}
  BY <1>2 DEF ReqFrame
<1>4. room[d] # None => r \in Room /\ Newer(room[d], r)
  <2>1. room[d] # None => room[d] \in Room
    BY DEF Inv, Stores
  <2>2. room[d] # None => Newer(room[d], room[d])
    BY DEF Newer, Known
  <2>3. QED
    BY <1>3, <2>1, <2>2, WordAdded
<1>5. /\ room' = IF room[d] = None THEN room ELSE [room EXCEPT ![d] = r]
      /\ wire' = [x \in Pairs |-> IF x = <<d, c>> THEN rest(x) \o reply ELSE rest(x)]
      /\ tasks' = [x \in Pairs |-> IF x[1] = d /\ x[2] \in heard /\ ~up[x]
                                   THEN Append(tasks[x], Items(<<f.join>>)) ELSE tasks[x]]
      /\ UNCHANGED <<pending, roomAt, up, disk, wants, now, links, crashes>>
  BY DEF AnswersReq
<1>6. reply \in Seq(Frame)
  <2>1. <<Err>> \in Seq(Frame)
    BY Framed
  <2>2. room[d] # None => Answer(r, f) \in Seq(Frame)
    BY <1>4, AnswerTyped
  <2>3. QED
    BY <2>1, <2>2
<1>7. heard # {} => Items(<<f.join>>) \in Task
  <2>1. heard # {} => f.join # None
    BY DEF Told
  <2>2. f.join # None => f.join \in Item
    BY <1>3 DEF Item
  <2>3. QED
    BY <2>1, <2>2, Framed
<1> HIDE DEF f, r, refuse, heard, reply
<1>8. Frames'
  <2>1. \A x \in Pairs : wire[x] \in Seq(Frame) /\ tasks[x] \in Seq(Task)
    BY DEF Inv, Frames
  <2>2. \A x \in Pairs : left(x) \in Seq(Frame)
    BY <1>2, <2>1
  <2> HIDE DEF left
  <2>3. ASSUME NEW x \in Pairs PROVE rest(x) \in Seq(Frame)
    <3>1. CASE x[2] \in heard
      <4>1. <<Items(<<f.join>>)>> \in Seq(Frame)
        BY <1>7, <3>1, Framed
      <4>2. QED
        BY <2>2, <4>1
    <3>2. CASE x[2] \notin heard
      BY <2>2, <3>2
    <3>3. QED
      BY <3>1, <3>2
  <2> HIDE DEF rest
  <2>4. \A x \in Pairs : rest(x) \o reply \in Seq(Frame)
    BY <1>6, <2>3
  <2>5. \A x \in Pairs : x[2] \in heard => Append(tasks[x], Items(<<f.join>>)) \in Seq(Task)
    BY <1>7, <2>1
  <2>6. wire' \in [Pairs -> Seq(Frame)]
    BY <1>5, <2>3, <2>4
  <2>7. tasks' \in [Pairs -> Seq(Task)]
    BY <1>5, <2>1, <2>5
  <2>8. QED
    BY <2>6, <2>7 DEF Frames
<1>9. CASE room[d] = None
  <2>1. room' = room
    BY <1>5, <1>9
  <2>2. Stores' /\ Wanted'
    BY <1>5, <2>1 DEF Inv, Stores, Wanted
  <2>3. QED
    BY <1>8, <2>1, <2>2, SameRoom DEF Inv
<1>10. CASE room[d] # None
  <2>1. /\ room' \in [Daemons -> Room \cup {None}] /\ OnlyNewer
        /\ room'[d] = r /\ \A e \in Daemons : e # d => room'[e] = room[e]
    BY <1>4, <1>5, <1>10, OneRoom DEF Inv
  <2>2. Stores'
    BY <1>5, <2>1 DEF Inv, Stores
  <2>3. Wanted'
    BY <1>5, <1>10, <2>1 DEF Inv, Stores, Wanted
  <2>4. QED
    BY <1>8, <2>1, <2>2, <2>3 DEF Inv
<1>11. QED
  BY <1>9, <1>10

LEMMA JoinsByStep ==
  ASSUME Inv, NEW d \in Daemons, NEW c \in Daemons, d # c, JoinsBy(d, c)
  PROVE  Inv' /\ OnlyNewer
<1> DEFINE r    == AddAll(Nobody, First(c, d).words)
           mine == AWord(d, now, FALSE)
<1>1. <<c, d>> \in Pairs
  BY DEF Pairs
<1>2. First(c, d) \in StateFrame /\ wire[<<c, d>>] # <<>>
  BY <1>1, First_Typed, Kinds DEF JoinsBy
<1>3. First(c, d).words \in Seq(Item)
  <2>1. First(c, d).words \in Seq(WordItem)
    BY <1>2 DEF StateFrame
  <2>2. QED
    BY <2>1 DEF Item
<1>4. r \in Room
  <2>1. Nobody \in Room
    BY DEF Nobody, Room
  <2>2. QED
    BY <1>3, <2>1, AllAdded
<1>5. mine \in WordItem
  BY DEF AWord, WordItem, Inv, Stores
<1>6. AddMember(r, mine) \in Room
  BY <1>4, <1>5, WordAdded
<1>7. Items(<<mine>>) \in Task
  BY <1>5, Framed DEF Item
<1>8. Frames' /\ room' = [room EXCEPT ![d] = AddMember(r, mine)]
  BY <1>2, <1>7, Sent DEF JoinsBy, Inv
<1> HIDE DEF r, mine
<1>9. d \in pending /\ room[d] = None
  BY DEF JoinsBy, Inv, Wanted
<1>10. /\ room' \in [Daemons -> Room \cup {None}] /\ OnlyNewer
       /\ \A e \in Daemons : e # d => room'[e] = room[e]
  BY <1>6, <1>8, <1>9, OneRoom DEF Inv
<1>11. Stores'
  BY <1>10, Tick DEF JoinsBy, Inv, Stores
<1>12. Wanted'
  BY <1>9, <1>10 DEF JoinsBy, Inv, Stores, Wanted
<1>13. QED
  BY <1>8, <1>10, <1>11, <1>12 DEF Inv

LEMMA TakesErrStep ==
  ASSUME Inv, NEW d \in Daemons, NEW c \in Daemons, d # c, TakesErr(d, c)
  PROVE  Inv' /\ OnlyNewer
<1>1. <<c, d>> \in Pairs
  BY DEF Pairs
<1>2. Frames'
  BY <1>1, First_Typed DEF TakesErr, Inv, Frames
<1>3. Stores' /\ Wanted' /\ room' = room
  BY DEF TakesErr, Inv, Stores, Wanted
<1>4. QED
  BY <1>2, <1>3, SameRoom DEF Inv

-----------------------------------------------------------------------------
(* Time and the disk.                                                      *)

LEMMA PruneStep ==
  ASSUME Inv, NEW d \in Daemons, Prune(d)
  PROVE  Inv' /\ OnlyNewer
<1> DEFINE r == [room[d] EXCEPT !.msgs = {m \in @ : ~TooOld(m)}]
<1>1. Frames'
  BY DEF Prune, Inv, Frames, linkVars
<1>2. CASE room[d] = None
  <2>1. Stores' /\ Wanted' /\ room' = room
    BY <1>2 DEF Prune, Inv, Stores, Wanted, linkVars
  <2>2. QED
    BY <1>1, <2>1, SameRoom DEF Inv
<1>3. CASE room[d] # None
  <2>1. room[d] \in Room
    BY <1>3 DEF Inv, Stores
  <2>2. r \in Room /\ r.members = room[d].members
    BY <2>1 DEF Room
  <2>3. room' = [room EXCEPT ![d] = r]
    BY <1>3, <2>1 DEF Prune, Inv, Stores
  <2> HIDE DEF r
  <2>4. Newer(room[d], r)
    BY <2>2 DEF Newer, Known
  <2>5. /\ room' \in [Daemons -> Room \cup {None}] /\ OnlyNewer
        /\ \A e \in Daemons : e # d => room'[e] = room[e]
    BY <2>2, <2>3, <2>4, OneRoom DEF Inv
  <2>6. Stores'
    BY <2>5 DEF Prune, Inv, Stores, linkVars
  <2>7. Wanted'
    BY <1>3, <2>5 DEF Prune, Inv, Stores, Wanted
  <2>8. QED
    BY <1>1, <2>5, <2>6, <2>7 DEF Inv
<1>4. QED
  BY <1>2, <1>3

LEMMA CrashStep ==
  ASSUME Inv, NEW d \in Daemons, Crash(d)
  PROVE  Inv' /\ OnlyNewer
<1>1. Stores' /\ Frames'
  <2>1. Stores'
    BY DEF Crash, Inv, Stores
  <2>2. Frames'
    BY DEF Crash, Inv, Frames
  <2>3. QED
    BY <2>1, <2>2
<1>2. crashes' # crashes /\ crashes' # 0
  BY DEF Crash, Inv, Stores
<1>3. Wanted'
  BY <1>2 DEF Crash, Inv, Stores, Wanted
<1>4. QED
  BY <1>1, <1>2, <1>3 DEF Inv, OnlyNewer

\* Nothing but the clock, a file or a list that matters to no other.
LEMMA QuietStep ==
  ASSUME Inv,
         \/ Time \/ UNCHANGED vars
         \/ \E d \in Daemons : JoinTimesOut(d) \/ SavesSocial(d)
  PROVE  Inv' /\ OnlyNewer
<1>1. room' = room /\ wire' = wire /\ tasks' = tasks
  BY DEF Time, vars, JoinTimesOut, SavesSocial, linkVars
<1>2. Stores'
  <2>1. CASE Time
    BY <2>1, Tick DEF Time, Inv, Stores, linkVars
  <2>2. CASE UNCHANGED vars
    BY <2>2 DEF vars, Inv, Stores
  <2>3. ASSUME NEW d \in Daemons, JoinTimesOut(d) PROVE Stores'
    BY <2>3 DEF JoinTimesOut, Inv, Stores, linkVars
  <2>4. ASSUME NEW d \in Daemons, SavesSocial(d) PROVE Stores'
    BY <2>4 DEF SavesSocial, Inv, Stores, linkVars
  <2>5. QED
    BY <2>1, <2>2, <2>3, <2>4
<1>3. pending' \subseteq pending /\ wants' = wants /\ crashes' = crashes
  BY DEF Time, vars, JoinTimesOut, SavesSocial, linkVars
<1>4. Frames' /\ Wanted'
  BY <1>1, <1>3 DEF Inv, Frames, Wanted
<1>5. QED
  BY <1>1, <1>2, <1>4, SameRoom DEF Inv

-----------------------------------------------------------------------------
(* The theorems.                                                           *)

LEMMA InvInit == Init => Inv
<1> SUFFICES ASSUME Init PROVE Inv
  OBVIOUS
<1>1. AddMember(Nobody, AWord(Founder, 0, FALSE)) \in Room
  <2>1. Nobody \in Room /\ AWord(Founder, 0, FALSE) \in WordItem
    BY DEF Nobody, Room, AWord, WordItem, Times
  <2>2. QED
    BY <2>1, WordAdded
<1>2. room = [d \in Daemons |-> IF d = Founder THEN AddMember(Nobody, AWord(Founder, 0, FALSE)) ELSE None]
  BY DEF Init
<1>3. room \in [Daemons -> Room \cup {None}]
  BY <1>1, <1>2
<1>4. Stores
  <2>1. now \in Times /\ links \in 0..MaxLinks /\ crashes \in 0..MaxCrashes
    BY DEF Init, Times
  <2>2. roomAt \in [Pairs -> Times \cup {None}] /\ up \in [Pairs -> BOOLEAN]
    BY DEF Init
  <2>3. disk = room /\ pending = {} /\ wants = {Founder}
    BY DEF Init
  <2>4. QED
    BY <1>3, <2>1, <2>2, <2>3 DEF Stores
<1>5. Frames
  <2>1. <<>> \in Seq(Frame) /\ <<>> \in Seq(Task)
    OBVIOUS
  <2>2. QED
    BY <2>1 DEF Init, Frames
<1>6. Wanted
  BY <1>2 DEF Init, Wanted
<1>7. QED
  BY <1>4, <1>5, <1>6 DEF Inv

LEMMA InvStep == Inv /\ [Next]_vars => Inv' /\ OnlyNewer
<1> SUFFICES ASSUME Inv, [Next]_vars PROVE Inv' /\ OnlyNewer
  OBVIOUS
<1>1. ASSUME NEW d \in Daemons,
             Send(d) \/ Leave(d) \/ JoinTimesOut(d) \/ Prune(d) \/ SavesSocial(d) \/ Crash(d)
      PROVE  Inv' /\ OnlyNewer
  BY <1>1, SendStep, LeaveStep, PruneStep, CrashStep, QuietStep
<1>2. ASSUME NEW x \in Pairs,
             \/ Join(x[1], x[2]) \/ Connects(x[1], x[2]) \/ Disconnects(x[1], x[2])
             \/ AnswersReq(x[1], x[2]) \/ JoinsBy(x[1], x[2]) \/ TakesState(x[1], x[2])
             \/ TakesItems(x[1], x[2]) \/ TakesErr(x[1], x[2])
      PROVE  Inv' /\ OnlyNewer
  <2>1. x[1] \in Daemons /\ x[2] \in Daemons /\ x[1] # x[2]
    BY DEF Pairs
  <2>2. QED
    BY <1>2, <2>1, JoinStep, ConnectsStep, DisconnectsStep, AnswersReqStep, JoinsByStep,
       TakesStateStep, TakesItemsStep, TakesErrStep
<1>3. CASE Time \/ UNCHANGED vars
  BY <1>3, QuietStep
<1>4. QED
  BY <1>1, <1>2, <1>3 DEF Next

LEMMA Always == SocialSpec => []Inv
<1>1. Inv /\ [SocialNext]_<<which, vars, feedVars, vaultVars>> => Inv'
  BY InvStep, SocialSteps
<1>2. SocialInit => Inv
  BY InvInit DEF SocialInit
<1>3. QED
  BY <1>1, <1>2, PTL DEF SocialSpec

\* The variables keep their types.
THEOREM RoomsTypeCorrect == SocialSpec => []TypeOK
<1>1. Inv => TypeOK
  <2> SUFFICES ASSUME Inv PROVE TypeOK
    OBVIOUS
  <2>1. ASSUME NEW x \in Pairs
        PROVE  /\ \A f \in ToSet(wire[x]) : f.t \in {"req", "state", "items", "err"}
               /\ \A f \in ToSet(tasks[x]) : f.t \in {"req", "items"}
    <3>1. wire[x] \in Seq(Frame) /\ tasks[x] \in Seq(Task)
      BY DEF Inv, Frames
    <3>2. \A f \in ToSet(wire[x]) : f \in Frame
      BY <3>1 DEF ToSet
    <3>3. \A f \in ToSet(tasks[x]) : f \in Task
      BY <3>1 DEF ToSet
    <3>4. \A f \in Task : f.t \in {"req", "items"}
      BY DEF Task, ReqFrame, ItemsFrame
    <3>5. QED
      BY <3>2, <3>3, <3>4, Kinds
  <2>2. QED
    BY <2>1 DEF Inv, Stores, TypeOK
<1>2. QED
  BY <1>1, Always, PTL

\* However its frames are delayed, repeated by second requests or answered late,
\* a daemon that was never killed is in the room only if its operator's last
\* word was to be in.
THEOREM InOnlyIfWantedTheorem == SocialSpec => []InOnlyIfWanted
<1>1. Inv => InOnlyIfWanted
  BY DEF Inv, Wanted, InOnlyIfWanted
<1>2. QED
  BY <1>1, Always, PTL

\* Among any number of daemons, over any frames with any number of words in
\* them: the word a store has of a member is only ever replaced by a newer one.
THEOREM LatestWordKeptTheorem == SocialSpec => LatestWordKept
<1>1. Inv /\ [SocialNext]_<<which, vars, feedVars, vaultVars>> =>
        [\A d, m \in Daemons :
           (room[d] # None /\ room'[d] # None /\ crashes' = crashes /\ m \in Known(room[d])) =>
             /\ room'[d].members[m] # None
             /\ \/ room'[d].members[m] = room[d].members[m]
                \/ room[d].members[m].n < room'[d].members[m].n]_vars
  BY InvStep, SocialSteps DEF OnlyNewer
<1>2. QED
  BY <1>1, Always, PTL DEF SocialSpec, LatestWordKept

-----------------------------------------------------------------------------
(* The history: what is sealed and what opens it, for any messages,         *)
(* passphrases and number of calls at once.                                *)

\* A call holds what its next step needs.
VaCallsHold ==
  \A c \in Calls :
    /\ call[c].op # "none" => call[c].pass \in Passphrases
    /\ call[c].op \in {"check", "rewrap"} => call[c].new \in Passphrases
    /\ call[c].op \in {"unlock", "check"} => call[c].vault \in H!Vaults
    /\ call[c].op = "rewrap" => call[c].key \in H!Keys

VaTyped == H!TypeOK /\ VaCallsHold

LEMMA VaNumbers ==
  /\ MaxKeys \in Nat /\ VaultKills \in Nat
  /\ H!Keys \subseteq 0..MaxKeys
  /\ H!Clear \in 0..MaxKeys /\ H!Clear \notin H!Keys
  /\ H!NoCall \in H!CallType /\ H!NoCall.op = "none"
  BY VaultAssumption DEF H!Keys, H!Clear, H!NoCall, H!CallType

\* What every step does to the calls.
LEMMA VaReturnsType ==
  ASSUME VaTyped, NEW c \in Calls, H!Returns(c)
  PROVE  /\ call' \in [Calls -> H!CallType] /\ VaCallsHold'
         /\ call'[c].op = "none"
         /\ \A d \in Calls : d # c => call'[d] = call[d]
  BY VaNumbers DEF VaTyped, H!TypeOK, VaCallsHold, H!Returns

LEMMA VaNoCalls ==
  ASSUME call' = [c \in Calls |-> H!NoCall]
  PROVE  call' \in [Calls -> H!CallType] /\ VaCallsHold'
  BY VaNumbers DEF VaCallsHold

\* After a restart: locked, no calls, what state.json holds.
LEMMA VaRestartType ==
  ASSUME VaTyped, NEW d, d.vault \in H!Vaults \cup {None}, d.rec \in [Msgs -> 0..MaxKeys \cup {None}],
         d \in [vault : H!Vaults \cup {None}, rec : [Msgs -> 0..MaxKeys \cup {None}]],
         H!Restart(d), vaultKills' \in 0..VaultKills
  PROVE  VaTyped'
<1>1. call' \in [Calls -> H!CallType] /\ VaCallsHold'
  BY VaNoCalls DEF H!Restart
<1>2. vault' \in H!Vaults \cup {None} /\ texts' \in [Msgs -> 0..MaxKeys \cup {None}]
  BY DEF H!Restart
<1>3. vaultFile' \in [vault : H!Vaults \cup {None}, rec : [Msgs -> 0..MaxKeys \cup {None}]]
  BY DEF H!Restart
<1>4. key' \in 0..MaxKeys
  BY VaNumbers DEF H!Restart
<1>5. dirty' \in BOOLEAN /\ wait' \in BOOLEAN
  BY DEF H!Restart
<1>6. keys' \in 0..MaxKeys /\ told' \in Passphrases \cup {None}
  BY DEF H!Restart, VaTyped, H!TypeOK
<1>7. QED
  BY <1>1, <1>2, <1>3, <1>4, <1>5, <1>6 DEF VaTyped, H!TypeOK

LEMMA VaTypeInit == H!Init => VaTyped
<1> SUFFICES ASSUME H!Init PROVE VaTyped
  OBVIOUS
<1>1. call \in [Calls -> H!CallType] /\ VaCallsHold
  BY VaNumbers DEF H!Init, VaCallsHold
<1>2. vaultFile = [vault |-> None, rec |-> texts] /\ texts \in [Msgs -> 0..MaxKeys \cup {None}]
  BY DEF H!Init
<1>3. vaultFile \in [vault : H!Vaults \cup {None}, rec : [Msgs -> 0..MaxKeys \cup {None}]]
  BY <1>2
<1>4. key \in 0..MaxKeys /\ keys \in 0..MaxKeys /\ vaultKills \in 0..VaultKills
  BY VaNumbers DEF H!Init
<1>5. vault \in H!Vaults \cup {None} /\ told \in Passphrases \cup {None}
  BY DEF H!Init
<1>6. dirty \in BOOLEAN /\ wait \in BOOLEAN
  BY DEF H!Init
<1>7. QED
  BY <1>1, <1>2, <1>3, <1>4, <1>5, <1>6 DEF VaTyped, H!TypeOK

LEMMA VaTypeStep == VaTyped /\ [H!Next]_(H!vars) => VaTyped'
<1> SUFFICES ASSUME VaTyped, [H!Next]_(H!vars) PROVE VaTyped'
  OBVIOUS
<1> USE VaNumbers
<1>1. ASSUME NEW c \in Calls, NEW p \in Passphrases, H!SetStarts(c, p) PROVE VaTyped'
  BY <1>1 DEF VaTyped, H!TypeOK, VaCallsHold, H!SetStarts, H!Calling, H!CallType, H!NoCall
<1>2. ASSUME NEW c \in Calls, H!SetDone(c) PROVE VaTyped'
  <2>1. keys' \in H!Keys /\ keys' \in 0..MaxKeys
    BY <1>2 DEF VaTyped, H!TypeOK, H!SetDone, H!Keys
  <2>2. call[c].pass \in Passphrases
    BY <1>2 DEF VaTyped, VaCallsHold, H!SetDone
  <2>3. vault' \in H!Vaults
    BY <1>2, <2>1, <2>2 DEF H!SetDone, H!Vaults
  <2>4. texts' \in [Msgs -> 0..MaxKeys \cup {None}]
    BY <1>2, <2>1 DEF VaTyped, H!TypeOK, H!SetDone, H!Sealed
  <2>5. call' \in [Calls -> H!CallType] /\ VaCallsHold'
    BY <1>2, VaReturnsType DEF H!SetDone
  <2>6. QED
    BY <1>2, <2>1, <2>2, <2>3, <2>4, <2>5 DEF VaTyped, H!TypeOK, H!SetDone, H!SaveNow
<1>3. ASSUME NEW c \in Calls, NEW p \in Passphrases, H!UnlockStarts(c, p) PROVE VaTyped'
  BY <1>3, VaultAssumption DEF VaTyped, H!TypeOK, VaCallsHold, H!UnlockStarts, H!Calling, H!CallType, H!NoCall, H!On
<1>4. ASSUME NEW c \in Calls, H!UnlockDone(c) PROVE VaTyped'
  <2>1. call' \in [Calls -> H!CallType] /\ VaCallsHold'
    BY <1>4, VaReturnsType DEF H!UnlockDone
  <2>2. call[c].vault.pub \in 0..MaxKeys
    BY <1>4 DEF VaTyped, VaCallsHold, H!UnlockDone, H!Vaults
  <2>3. QED
    BY <1>4, <2>1, <2>2 DEF VaTyped, H!TypeOK, H!UnlockDone
<1>5. ASSUME NEW c \in Calls, NEW p \in Passphrases, NEW q \in Passphrases, H!ChangeStarts(c, p, q)
      PROVE  VaTyped'
  BY <1>5, VaultAssumption DEF VaTyped, H!TypeOK, VaCallsHold, H!ChangeStarts, H!Calling, H!CallType, H!NoCall, H!On
<1>6. ASSUME NEW c \in Calls, H!ChangeChecked(c) PROVE VaTyped'
  <2>1. CASE H!Returns(c)
    BY <1>6, <2>1, VaReturnsType DEF VaTyped, H!TypeOK, H!ChangeChecked
  <2>2. CASE call' = [call EXCEPT ![c].op = "rewrap", ![c].key = call[c].vault.pub]
    <3>1. call[c].vault.pub \in H!Keys
      BY <1>6 DEF VaTyped, VaCallsHold, H!ChangeChecked, H!Vaults
    <3>2. call' \in [Calls -> H!CallType]
      BY <2>2, <3>1 DEF VaTyped, H!TypeOK, H!CallType
    <3>3. VaCallsHold'
      BY <1>6, <2>2, <3>1 DEF VaTyped, H!TypeOK, VaCallsHold, H!ChangeChecked, H!CallType
    <3>4. QED
      BY <1>6, <3>2, <3>3 DEF VaTyped, H!TypeOK, H!ChangeChecked
  <2>3. QED
    BY <1>6, <2>1, <2>2 DEF H!ChangeChecked
<1>7. ASSUME NEW c \in Calls, H!ChangeDone(c) PROVE VaTyped'
  <2>1. call[c].key \in H!Keys /\ call[c].new \in Passphrases
    BY <1>7 DEF VaTyped, VaCallsHold, H!ChangeDone
  <2>2. vault' \in H!Vaults
    BY <1>7, <2>1 DEF H!ChangeDone, H!Vaults
  <2>3. call' \in [Calls -> H!CallType] /\ VaCallsHold'
    BY <1>7, VaReturnsType DEF H!ChangeDone
  <2>4. QED
    BY <1>7, <2>1, <2>2, <2>3 DEF VaTyped, H!TypeOK, H!ChangeDone, H!SaveNow
<1>8. ASSUME NEW m \in Msgs, H!StoreText(m) PROVE VaTyped'
  <2>1. H!On => vault.pub \in 0..MaxKeys
    BY DEF VaTyped, H!TypeOK, H!On, H!Vaults
  <2>2. QED
    BY <1>8, <2>1 DEF VaTyped, H!TypeOK, VaCallsHold, H!StoreText, H!Save
<1>9. CASE H!Lock
  BY <1>9 DEF VaTyped, H!TypeOK, VaCallsHold, H!Lock
<1>10. CASE H!WaitOver
  BY <1>10 DEF VaTyped, H!TypeOK, VaCallsHold, H!WaitOver
<1>11. CASE H!SaveFires
  BY <1>11 DEF VaTyped, H!TypeOK, VaCallsHold, H!SaveFires
<1>12. CASE H!Stop
  <2>1. [vault |-> vault, rec |-> texts]
          \in [vault : H!Vaults \cup {None}, rec : [Msgs -> 0..MaxKeys \cup {None}]]
    BY DEF VaTyped, H!TypeOK
  <2>2. vaultKills' \in 0..VaultKills
    BY <1>12 DEF H!Stop, VaTyped, H!TypeOK
  <2>3. CASE H!Restart([vault |-> vault, rec |-> texts])
    BY <2>1, <2>2, <2>3, VaRestartType DEF VaTyped, H!TypeOK
  <2>4. CASE H!Restart(vaultFile)
    BY <2>2, <2>4, VaRestartType DEF VaTyped, H!TypeOK
  <2>5. QED
    BY <1>12, <2>3, <2>4 DEF H!Stop
<1>13. CASE H!Crash
  <2>1. vaultKills' \in 0..VaultKills
    BY <1>13 DEF H!Crash, VaTyped, H!TypeOK
  <2>2. QED
    BY <1>13, <2>1, VaRestartType DEF H!Crash, VaTyped, H!TypeOK
<1>14. CASE UNCHANGED H!vars
  BY <1>14 DEF VaTyped, H!TypeOK, VaCallsHold, H!vars
<1>15. CASE H!Next
  BY <1>15, <1>1, <1>2, <1>3, <1>4, <1>5, <1>6, <1>7, <1>8, <1>9, <1>10, <1>11, <1>12, <1>13 DEF H!Next
<1>16. QED
  BY <1>14, <1>15

-----------------------------------------------------------------------------
(* Nothing is written in the clear, and the vault of state.json is the one  *)
(* in memory: these hold however many vault.set calls overlap.             *)

VaVaultSaved == vaultFile.vault = vault

\* A vault is never unset while a call is about to rewrap it.
VaCallsOn == \A c \in Calls : call[c].op \in {"unlock", "check", "rewrap"} => H!On

VaHidden == VaTyped /\ H!NeverInClear /\ VaVaultSaved /\ H!ToldOpens /\ VaCallsOn

LEMMA VaHiddenInit == H!Init => VaHidden
  BY VaTypeInit, VaNumbers DEF H!Init, VaCallsOn, VaHidden, H!NeverInClear, VaVaultSaved, H!ToldOpens, H!On

LEMMA VaHiddenStep == VaHidden /\ [H!Next]_(H!vars) => VaHidden'
<1> SUFFICES ASSUME VaHidden, [H!Next]_(H!vars) PROVE VaHidden'
  OBVIOUS
<1>1. VaTyped'
  BY VaTypeStep DEF VaHidden
<1>2. CASE UNCHANGED <<vault, texts, vaultFile, told>> /\ VaCallsOn'
  BY <1>1, <1>2 DEF VaHidden, H!NeverInClear, VaVaultSaved, H!ToldOpens, H!On
<1>3. ASSUME NEW c \in Calls, H!SetDone(c) PROVE VaHidden'
  <2>1. keys' \in H!Keys /\ call[c].pass \in Passphrases
    BY <1>3, VaNumbers DEF VaHidden, VaTyped, H!TypeOK, VaCallsHold, H!SetDone, H!Keys
  <2>2. vault' \in H!Vaults /\ vault'.pass = told' /\ vault' # None
    BY <1>3, <2>1, VaultAssumption DEF H!SetDone, H!Vaults
  <2>3. \A m \in Msgs : texts'[m] # H!Clear
    BY <1>3, <2>1, VaNumbers DEF H!SetDone, H!Sealed
  <2>4. vaultFile'.vault = vault' /\ vaultFile'.rec = texts'
    BY <1>3 DEF H!SetDone, H!SaveNow
  <2>5. QED
    BY <1>1, <2>2, <2>3, <2>4 DEF VaHidden, H!NeverInClear, VaVaultSaved, H!ToldOpens, VaCallsOn, H!On
<1>4. ASSUME NEW c \in Calls, H!ChangeDone(c) PROVE VaHidden'
  <2>1. H!On
    BY <1>4 DEF VaHidden, VaCallsOn, H!ChangeDone
  <2>2. call[c].key \in H!Keys /\ call[c].new \in Passphrases
    BY <1>4 DEF VaHidden, VaTyped, VaCallsHold, H!ChangeDone
  <2>3. vault' \in H!Vaults /\ vault'.pass = told' /\ vault' # None
    BY <1>4, <2>2, VaultAssumption DEF H!ChangeDone, H!Vaults
  <2>4. vaultFile'.vault = vault' /\ vaultFile'.rec = texts' /\ texts' = texts
    BY <1>4 DEF H!ChangeDone, H!SaveNow
  <2>5. QED
    BY <1>1, <2>1, <2>3, <2>4 DEF VaHidden, H!NeverInClear, VaVaultSaved, H!ToldOpens, VaCallsOn, H!On
<1>5. ASSUME NEW m \in Msgs, H!StoreText(m) PROVE VaHidden'
  <2>1. H!On => vault.pub # H!Clear
    BY VaNumbers DEF VaHidden, VaTyped, H!TypeOK, H!On, H!Vaults
  <2>2. texts' = [texts EXCEPT ![m] = IF H!On THEN vault.pub ELSE H!Clear]
        /\ UNCHANGED <<vault, vaultFile, told, call>>
    BY <1>5 DEF H!StoreText, H!Save
  <2>3. H!On => \A n \in Msgs : texts'[n] # H!Clear
    BY <2>1, <2>2 DEF VaHidden, VaTyped, H!TypeOK, H!NeverInClear
  <2>4. QED
    BY <1>1, <2>2, <2>3 DEF VaHidden, H!NeverInClear, VaVaultSaved, H!ToldOpens, VaCallsOn, H!On
<1>6. CASE H!SaveFires
  BY <1>1, <1>6 DEF H!SaveFires, VaHidden, H!NeverInClear, VaVaultSaved, H!ToldOpens, VaCallsOn, H!On
<1>7. CASE H!Stop
  <2>1. CASE H!Restart([vault |-> vault, rec |-> texts])
    BY <1>1, <2>1, VaNumbers DEF H!Restart, VaHidden, H!NeverInClear, VaVaultSaved, H!ToldOpens, VaCallsOn, H!On
  <2>2. CASE H!Restart(vaultFile)
    BY <1>1, <2>2, VaNumbers DEF H!Restart, VaHidden, H!NeverInClear, VaVaultSaved, H!ToldOpens, VaCallsOn, H!On
  <2>3. QED
    BY <1>7, <2>1, <2>2 DEF H!Stop
<1>8. CASE H!Crash
  BY <1>1, <1>8, VaNumbers DEF H!Crash, H!Restart, VaHidden, H!NeverInClear, VaVaultSaved, H!ToldOpens, VaCallsOn, H!On
<1>9. ASSUME NEW c \in Calls, NEW p \in Passphrases, H!SetStarts(c, p) PROVE VaHidden'
  <2>1. VaCallsOn'
    BY <1>9, VaNumbers DEF H!SetStarts, H!Calling, VaHidden, VaTyped, H!TypeOK, VaCallsOn, H!On, H!NoCall
  <2>2. QED
    BY <1>2, <1>9, <2>1 DEF H!SetStarts
<1>10. ASSUME NEW c \in Calls, NEW p \in Passphrases, H!UnlockStarts(c, p) PROVE VaHidden'
  <2>1. VaCallsOn'
    BY <1>10 DEF H!UnlockStarts, VaHidden, VaCallsOn, H!On
  <2>2. QED
    BY <1>2, <1>10, <2>1 DEF H!UnlockStarts
<1>11. ASSUME NEW c \in Calls, H!UnlockDone(c) PROVE VaHidden'
  <2>1. VaCallsOn'
    BY <1>11 DEF H!UnlockDone, VaHidden, VaCallsOn, H!On
  <2>2. QED
    BY <1>2, <1>11, <2>1 DEF H!UnlockDone
<1>12. ASSUME NEW c \in Calls, NEW p \in Passphrases, NEW q \in Passphrases, H!ChangeStarts(c, p, q)
       PROVE  VaHidden'
  <2>1. VaCallsOn'
    BY <1>12 DEF H!ChangeStarts, VaHidden, VaCallsOn, H!On
  <2>2. QED
    BY <1>2, <1>12, <2>1 DEF H!ChangeStarts
<1>13. ASSUME NEW c \in Calls, H!ChangeChecked(c) PROVE VaHidden'
  <2>1. VaCallsOn'
    BY <1>13 DEF H!ChangeChecked, VaHidden, VaCallsOn, H!On
  <2>2. QED
    BY <1>2, <1>13, <2>1 DEF H!ChangeChecked
<1>14. CASE H!Lock \/ H!WaitOver \/ UNCHANGED H!vars
  BY <1>2, <1>14 DEF H!Lock, H!WaitOver, H!vars, VaHidden, VaCallsOn, H!On
<1>15. CASE H!Next
  BY <1>15, <1>3, <1>4, <1>5, <1>6, <1>7, <1>8, <1>9, <1>10, <1>11, <1>12, <1>13, <1>14 DEF H!Next
<1>16. QED
  BY <1>14, <1>15

-----------------------------------------------------------------------------
(* With one vault.set at a time there is one key pair for good.            *)

VaOneVault ==
  /\ \A c \in Calls : /\ call[c].op = "set" => ~H!On
                      /\ call[c].op \in {"unlock", "check"} => call[c].vault.pub = vault.pub
                      /\ call[c].op = "rewrap" => call[c].key = vault.pub
  /\ \A c, d \in Calls : call[c].op = "set" /\ call[d].op = "set" => c = d

VaReadable == VaHidden /\ H!HistoryOpens /\ VaOneVault

LEMMA VaReadableInit == H!Init => VaReadable
  BY VaHiddenInit, VaNumbers, VaultAssumption DEF H!Init, VaReadable, H!HistoryOpens, VaOneVault, H!On, H!Keys

LEMMA VaReadableStep ==
  ASSUME OneSet
  PROVE  VaReadable /\ [H!Next]_(H!vars) => VaReadable'
<1> SUFFICES ASSUME VaReadable, [H!Next]_(H!vars) PROVE VaReadable'
  OBVIOUS
<1>1. VaHidden'
  BY VaHiddenStep DEF VaReadable
<1>2. CASE UNCHANGED <<vault, texts, vaultFile, key>> /\ VaOneVault'
  BY <1>1, <1>2 DEF VaReadable, H!HistoryOpens, H!On
<1>3. ASSUME NEW c \in Calls, H!SetDone(c) PROVE VaReadable'
  <2>1. ~H!On
    BY <1>3 DEF VaReadable, VaOneVault, H!SetDone
  <2>2. \A m \in Msgs : texts[m] \notin H!Keys
    BY <2>1 DEF VaReadable, H!HistoryOpens
  <2>3. \A d \in Calls : call'[d].op = "none"
    <3>1. \A d \in Calls : call[d].op \in {"none", "set"}
      BY <2>1 DEF VaReadable, VaHidden, VaTyped, H!TypeOK, H!CallType, VaCallsOn
    <3>2. \A d \in Calls : d # c => call[d].op # "set"
      BY <1>3 DEF VaReadable, VaOneVault, H!SetDone
    <3>3. QED
      BY <1>3, <3>1, <3>2, VaReturnsType DEF H!SetDone, VaReadable, VaHidden
  <2>4. keys' \in H!Keys /\ vault'.pub = keys' /\ key' = keys'
    BY <1>3, VaNumbers DEF VaReadable, VaHidden, VaTyped, H!TypeOK, H!SetDone, H!Keys
  <2>5. \A m \in Msgs : texts'[m] \in H!Keys => texts'[m] = vault'.pub
    BY <1>3, <2>2, <2>4 DEF H!SetDone, H!Sealed
  <2>6. vault' # None /\ vaultFile'.vault = vault' /\ vaultFile'.rec = texts'
    BY <1>1, <1>3, VaultAssumption, <2>4 DEF H!SetDone, H!SaveNow, H!Vaults, VaHidden, VaTyped, VaCallsHold, VaReadable
  <2>7. QED
    BY <1>1, <2>3, <2>4, <2>5, <2>6 DEF VaReadable, H!HistoryOpens, VaOneVault, H!On
<1>4. ASSUME NEW c \in Calls, H!ChangeDone(c) PROVE VaReadable'
  <2>1. H!On /\ vault'.pub = vault.pub /\ key' = vault.pub
    BY <1>4 DEF VaReadable, VaOneVault, VaHidden, VaCallsOn, H!ChangeDone
  <2>2. vault' # None /\ vaultFile'.vault = vault' /\ vaultFile'.rec = texts /\ texts' = texts
    BY <1>4, VaultAssumption DEF H!ChangeDone, H!SaveNow, H!Vaults, VaReadable, VaHidden, VaTyped, VaCallsHold
  <2>3. VaOneVault'
    BY <1>4, <2>1, <2>2, VaReturnsType DEF VaReadable, VaHidden, VaOneVault, H!ChangeDone, H!On
  <2>4. QED
    BY <1>1, <2>1, <2>2, <2>3 DEF VaReadable, H!HistoryOpens, H!On
<1>5. ASSUME NEW m \in Msgs, H!StoreText(m) PROVE VaReadable'
  <2>1. texts' = [texts EXCEPT ![m] = IF H!On THEN vault.pub ELSE H!Clear]
        /\ UNCHANGED <<vault, vaultFile, key, call>>
    BY <1>5 DEF H!StoreText, H!Save
  <2>2. \A n \in Msgs : texts'[n] \in H!Keys => H!On /\ texts'[n] = vault.pub
    BY <2>1, VaNumbers DEF VaReadable, H!HistoryOpens, VaHidden, VaTyped, H!TypeOK
  <2>3. QED
    BY <1>1, <2>1, <2>2 DEF VaReadable, H!HistoryOpens, VaOneVault, H!On
<1>6. CASE H!SaveFires
  BY <1>1, <1>6 DEF H!SaveFires, VaReadable, H!HistoryOpens, VaOneVault, H!On
<1>7. CASE H!Stop
  <2>1. CASE H!Restart([vault |-> vault, rec |-> texts])
    BY <1>1, <2>1, VaNumbers DEF H!Restart, VaReadable, H!HistoryOpens, VaOneVault, H!On
  <2>2. CASE H!Restart(vaultFile)
    BY <1>1, <2>2, VaNumbers DEF H!Restart, VaReadable, VaHidden, VaVaultSaved, H!HistoryOpens, VaOneVault, H!On
  <2>3. QED
    BY <1>7, <2>1, <2>2 DEF H!Stop
<1>8. CASE H!Crash
  BY <1>1, <1>8, VaNumbers DEF H!Crash, H!Restart, VaReadable, VaHidden, VaVaultSaved, H!HistoryOpens, VaOneVault, H!On
<1>9. ASSUME NEW c \in Calls, NEW p \in Passphrases, H!SetStarts(c, p) PROVE VaReadable'
  <2>1. \A d \in Calls : call'[d].op = "set" => d = c
    BY <1>9 DEF H!SetStarts, H!Calling, VaReadable, VaHidden, VaTyped, H!TypeOK
  <2>2. VaOneVault'
    BY <1>9, <2>1, VaNumbers DEF H!SetStarts, H!Calling, VaReadable, VaHidden, VaTyped, H!TypeOK, VaOneVault, H!On, H!NoCall
  <2>3. QED
    BY <1>2, <1>9, <2>2 DEF H!SetStarts
<1>10. ASSUME NEW c \in Calls, NEW p \in Passphrases, H!UnlockStarts(c, p) PROVE VaReadable'
  <2>1. VaOneVault'
    BY <1>10, VaNumbers DEF H!UnlockStarts, H!Calling, VaReadable, VaHidden, VaTyped, H!TypeOK, VaOneVault, H!On, H!NoCall
  <2>2. QED
    BY <1>2, <1>10, <2>1 DEF H!UnlockStarts
<1>11. ASSUME NEW c \in Calls, H!UnlockDone(c) PROVE VaReadable'
  <2>1. VaOneVault'
    BY <1>11, VaReturnsType DEF H!UnlockDone, VaReadable, VaHidden, VaOneVault, H!On
  <2>2. key' # 0 => H!On /\ key' = vault.pub
    BY <1>11 DEF H!UnlockDone, VaReadable, VaHidden, VaCallsOn, H!HistoryOpens, VaOneVault
  <2>3. QED
    BY <1>1, <1>11, <2>1, <2>2 DEF H!UnlockDone, VaReadable, H!HistoryOpens, H!On
<1>12. ASSUME NEW c \in Calls, NEW p \in Passphrases, NEW q \in Passphrases, H!ChangeStarts(c, p, q)
       PROVE  VaReadable'
  <2>1. VaOneVault'
    BY <1>12, VaNumbers DEF H!ChangeStarts, H!Calling, VaReadable, VaHidden, VaTyped, H!TypeOK, VaOneVault, H!On, H!NoCall
  <2>2. QED
    BY <1>2, <1>12, <2>1 DEF H!ChangeStarts
<1>13. ASSUME NEW c \in Calls, H!ChangeChecked(c) PROVE VaReadable'
  <2>1. VaOneVault'
    <3>1. CASE H!Returns(c)
      BY <1>13, <3>1, VaReturnsType DEF H!ChangeChecked, VaReadable, VaHidden, VaOneVault, H!On
    <3>2. CASE call' = [call EXCEPT ![c].op = "rewrap", ![c].key = call[c].vault.pub]
      BY <1>13, <3>2 DEF H!ChangeChecked, VaReadable, VaHidden, VaTyped, H!TypeOK, H!CallType, VaOneVault, H!On
    <3>3. QED
      BY <1>13, <3>1, <3>2 DEF H!ChangeChecked
  <2>2. QED
    BY <1>2, <1>13, <2>1 DEF H!ChangeChecked
<1>14. CASE H!Lock
  BY <1>1, <1>14 DEF H!Lock, VaReadable, H!HistoryOpens, VaOneVault, H!On
<1>15. CASE H!WaitOver \/ UNCHANGED H!vars
  BY <1>2, <1>15 DEF H!WaitOver, H!vars, VaReadable, VaOneVault, H!On
<1>16. CASE H!Next
  BY <1>16, <1>3, <1>4, <1>5, <1>6, <1>7, <1>8, <1>9, <1>10, <1>11, <1>12, <1>13, <1>14, <1>15 DEF H!Next
<1>17. QED
  BY <1>15, <1>16

LEMMA VaAlways == SocialSpec => []VaHidden
<1>1. VaHidden /\ [SocialNext]_<<which, vars, feedVars, vaultVars>> => VaHidden'
  BY VaHiddenStep, SocialSteps
<1>2. SocialInit => VaHidden
  BY VaHiddenInit DEF SocialInit
<1>3. QED
  BY <1>1, <1>2, PTL DEF SocialSpec

\* Once a passphrase is set no text is in the clear, in the records or in
\* state.json: storeText, vaultSet and every restart keep it so, also when
\* calls of the console overlap.
THEOREM NeverInClearTheorem == SocialSpec => []NeverInClear
<1>1. VaHidden => NeverInClear
  BY DEF VaHidden, NeverInClear
<1>2. QED
  BY <1>1, VaAlways, PTL

\* With one vault.set at a time the passphrase the console was last told opens
\* the vault, in memory and on disk, whatever calls overlap and whenever the
\* daemon is killed, and its key opens every sealed text.
THEOREM OpensWithToldTheorem ==
  ASSUME OneSet
  PROVE  SocialSpec => []OpensWithTold
<1>1. VaReadable => OpensWithTold
  BY DEF VaReadable, VaHidden, OpensWithTold, H!OpensWithTold
<1>2. VaReadable /\ [SocialNext]_<<which, vars, feedVars, vaultVars>> => VaReadable'
  BY VaReadableStep, SocialSteps
<1>3. SocialInit => VaReadable
  BY VaReadableInit DEF SocialInit
<1>4. QED
  BY <1>1, <1>2, <1>3, PTL DEF SocialSpec

\* The variables of rooms, posts and history keep their types.
THEOREM SocialTypeCorrect == SocialSpec => []SocialTypeOK
<1>1. VaTyped => H!TypeOK
  BY DEF VaTyped
<1>2. SocialInit => VaTyped
  BY VaTypeInit DEF SocialInit
<1>3. VaTyped /\ [SocialNext]_<<which, vars, feedVars, vaultVars>> => VaTyped'
  BY VaTypeStep, SocialSteps
<1>4. SocialSpec => []H!TypeOK
  BY <1>1, <1>2, <1>3, PTL DEF SocialSpec
<1>5. QED
  BY <1>4, RoomsTypeCorrect, FtAlways, PTL DEF SocialTypeOK
=============================================================================
