------------------------------ MODULE Folding -------------------------------
(***************************************************************************)
(* Facts about the folds over lists that the models are written with, for   *)
(* any operator: what holds before and after each item holds in the end.    *)
(* A module that folds takes an instance for each operator it folds with;   *)
(* k is what that operator depends on besides its two arguments.            *)
(***************************************************************************)
EXTENDS Lists, FiniteSetTheorems, WellFoundedInduction, TLAPS

CONSTANT Op(_, _, _)

\* FoldLeft, as its definition has it: over the sets of positions of s.
Folds(k, b, s, f) ==
  f = [S \in SUBSET DOMAIN s |-> IF S = {} THEN b ELSE Op(k, f[S \ {Max(S)}], s[Max(S)])]
FoldOf(k, b, s) == CHOOSE f : Folds(k, b, s, f)
Value(k, b, s)  == FoldOf(k, b, s)[DOMAIN s]

\* What is there after m items.
After(k, b, s, m) == FoldOf(k, b, s)[1..m]

-----------------------------------------------------------------------------
(* Numbers and sets.                                                       *)

LEMMA Least ==
  ASSUME NEW T \in SUBSET Nat, T # {}
  PROVE  \E n \in T : \A i \in T : n <= i
<1>1. \E n \in T : \A i \in T : <<i, n>> \notin OpToRel(<, Nat)
  BY WFMin, NatLessThanWellFounded, Zenon
<1>2. \A i, n \in Nat : i < n => <<i, n>> \in OpToRel(<, Nat)
  BY DEF OpToRel
<1>3. \E n \in T : \A i \in T : ~(i < n)
  BY <1>1, <1>2, Zenon
<1>4. QED
  BY <1>3

\* Induction up to n, over the set of the numbers a formula holds for.
LEMMA UpTo ==
  ASSUME NEW n \in Nat, NEW H, 0 \in H, \A m \in 0..(n - 1) : m \in H => m + 1 \in H
  PROVE  0..n \subseteq H
<1> SUFFICES ASSUME (0..n) \ H # {} PROVE FALSE
  OBVIOUS
<1>1. (0..n) \ H \in SUBSET Nat
  OBVIOUS
<1>2. PICK m \in (0..n) \ H : \A i \in (0..n) \ H : m <= i
  BY <1>1, Least
<1>3. m # 0 /\ m - 1 \in 0..(n - 1) /\ m - 1 + 1 = m
  BY <1>2
<1>4. m - 1 \in H
  BY <1>2, <1>3
<1>5. QED
  BY <1>3, <1>4

\* The greatest of some numbers up to n.
LEMMA Greatest ==
  ASSUME NEW n \in Nat, NEW s \in SUBSET (1..n), s # {}
  PROVE  Max(s) \in s /\ \A i \in s : i <= Max(s)
<1> DEFINE T == {i \in Nat : n - i \in s}
<1>1. T \in SUBSET Nat /\ T # {}
  <2>1. PICK i \in s : i \in 1..n
    OBVIOUS
  <2>2. n - i \in Nat /\ n - (n - i) = i
    BY <2>1
  <2>3. QED
    BY <2>1, <2>2
<1>2. PICK i \in T : \A j \in T : i <= j
  BY <1>1, Least
<1>3. n - i \in s /\ \A j \in s : n - j \in T
  <2>1. ASSUME NEW j \in s PROVE n - j \in Nat /\ n - (n - j) = j
    OBVIOUS
  <2>2. QED
    BY <2>1
<1>4. ASSUME NEW j \in s PROVE j <= n - i
  <2>1. i <= n - j /\ j \in 1..n /\ i \in Nat
    BY <1>2, <1>3
  <2>2. QED
    BY <2>1
<1>5. QED
  BY <1>3, <1>4 DEF Max

LEMMA GreatestUpTo ==
  ASSUME NEW n \in Nat, n > 0
  PROVE  Max(1..n) = n /\ (1..n) \ {n} = 1..(n - 1)
<1>1. n \in 1..n
  OBVIOUS
<1>2. Max(1..n) \in 1..n /\ n <= Max(1..n)
  BY <1>1, Greatest
<1>3. (1..n) \ {n} = 1..(n - 1)
  OBVIOUS
<1>4. QED
  BY <1>2, <1>3

-----------------------------------------------------------------------------
(* Folds.                                                                  *)

LEMMA Exists ==
  ASSUME NEW k, NEW b, NEW s, NEW n \in Nat, DOMAIN s = 1..n
  PROVE  \E f : Folds(k, b, s, f)
<1> DEFINE F(m, f) == f = [S \in SUBSET (1..m) |->
                            IF S = {} THEN b ELSE Op(k, f[S \ {Max(S)}], s[Max(S)])]
           H == {m \in 0..n : \E f : F(m, f)}
<1>1. 0 \in H
  <2> DEFINE f == [S \in {{}} |-> b]
  <2>1. 1..0 = {} /\ SUBSET (1..0) = {{}}
    OBVIOUS
  <2>2. f = [S \in SUBSET (1..0) |-> IF S = {} THEN b ELSE Op(k, f[S \ {Max(S)}], s[Max(S)])]
    BY <2>1
  <2>3. F(0, f)
    BY <2>2
  <2> HIDE DEF F, f
  <2>4. QED
    BY <2>3
<1>2. ASSUME NEW m \in 0..(n - 1), m \in H PROVE m + 1 \in H
  <2>1. PICK f : F(m, f)
    BY <1>2
  <2> DEFINE At(S) == IF m + 1 \in S THEN Op(k, f[S \ {m + 1}], s[m + 1]) ELSE f[S]
             g == [S \in SUBSET (1..(m + 1)) |-> At(S)]
  <2>2. ASSUME NEW S \in SUBSET (1..(m + 1)), m + 1 \in S
        PROVE  Max(S) = m + 1 /\ S \ {m + 1} \in SUBSET (1..m)
    <3>1. m + 1 \in Nat /\ S # {}
      BY <2>2
    <3>2. Max(S) \in S /\ m + 1 <= Max(S)
      BY <2>2, <3>1, Greatest
    <3>3. Max(S) \in 1..(m + 1)
      BY <3>2
    <3>4. Max(S) = m + 1
      BY <3>2, <3>3
    <3>5. QED
      BY <3>4
  <2>3. ASSUME NEW S \in SUBSET (1..m) PROVE S \in SUBSET (1..(m + 1)) /\ m + 1 \notin S /\ g[S] = f[S]
    OBVIOUS
  <2>4. ASSUME NEW S \in SUBSET (1..(m + 1))
        PROVE  g[S] = IF S = {} THEN b ELSE Op(k, g[S \ {Max(S)}], s[Max(S)])
    <3>1. CASE m + 1 \in S
      <4>1. g[S] = Op(k, f[S \ {m + 1}], s[m + 1])
        BY <3>1
      <4>2. g[S \ {m + 1}] = f[S \ {m + 1}]
        BY <2>2, <2>3, <3>1
      <4>3. QED
        BY <2>2, <3>1, <4>1, <4>2
    <3>2. CASE m + 1 \notin S
      <4>1. S \in SUBSET (1..m)
        BY <3>2
      <4>2. g[S] = f[S] /\ g[S \ {Max(S)}] = f[S \ {Max(S)}]
        BY <2>3, <4>1
      <4>3. f[S] = IF S = {} THEN b ELSE Op(k, f[S \ {Max(S)}], s[Max(S)])
        <5> HIDE DEF g, At
        <5>1. QED
          BY <2>1, <4>1
      <4>4. QED
        BY <4>2, <4>3
    <3>3. QED
      BY <3>1, <3>2
  <2>5. F(m + 1, g)
    <3>1. g = [S \in SUBSET (1..(m + 1)) |-> g[S]]
      OBVIOUS
    <3> HIDE DEF g
    <3>2. QED
      BY <2>4, <3>1
  <2>6. m + 1 \in 0..n
    OBVIOUS
  <2> HIDE DEF F, g
  <2>7. QED
    BY <2>5, <2>6
<1>3. n \in H
  <2> HIDE DEF H
  <2>1. 0..n \subseteq H
    BY <1>1, <1>2, UpTo
  <2>2. QED
    BY <2>1
<1>4. QED
  BY <1>3 DEF Folds

LEMMA Chosen ==
  ASSUME NEW k, NEW b, NEW s, NEW n \in Nat, DOMAIN s = 1..n
  PROVE  Folds(k, b, s, FoldOf(k, b, s))
BY Exists DEF FoldOf

\* Item by item.
LEMMA Start ==
  ASSUME NEW k, NEW b, NEW s, NEW n \in Nat, DOMAIN s = 1..n
  PROVE  After(k, b, s, 0) = b
<1> DEFINE f == FoldOf(k, b, s)
<1>1. Folds(k, b, s, f)
  BY Chosen
<1> HIDE DEF f
<1>2. f = [S \in SUBSET (1..n) |-> IF S = {} THEN b ELSE Op(k, f[S \ {Max(S)}], s[Max(S)])]
  BY <1>1 DEF Folds
<1>3. f[{}] = b /\ 1..0 = {}
  BY <1>2
<1>4. QED
  BY <1>3 DEF After, f

LEMMA Steps ==
  ASSUME NEW k, NEW b, NEW s, NEW n \in Nat, DOMAIN s = 1..n, NEW m \in 1..n
  PROVE  After(k, b, s, m) = Op(k, After(k, b, s, m - 1), s[m])
<1> DEFINE f == FoldOf(k, b, s)
<1>1. Folds(k, b, s, f)
  BY Chosen
<1> HIDE DEF f
<1>2. f = [S \in SUBSET (1..n) |-> IF S = {} THEN b ELSE Op(k, f[S \ {Max(S)}], s[Max(S)])]
  BY <1>1 DEF Folds
<1>3. 1..m \in SUBSET (1..n) /\ 1..m # {} /\ Max(1..m) = m /\ (1..m) \ {m} = 1..(m - 1)
  BY GreatestUpTo
<1>4. f[1..m] = Op(k, f[1..(m - 1)], s[m])
  BY <1>2, <1>3
<1>5. QED
  BY <1>4 DEF After, f

LEMMA Whole ==
  ASSUME NEW k, NEW b, NEW s, NEW n, DOMAIN s = 1..n
  PROVE  Value(k, b, s) = After(k, b, s, n)
BY DEF Value, After

\* What is true after m items and kept by every other is true in the end.
THEOREM RunFrom ==
  ASSUME NEW k, NEW b, NEW s, NEW n \in Nat, DOMAIN s = 1..n, NEW m \in 0..n,
         NEW D, After(k, b, s, m) \in D, \A x \in D, i \in 1..n : i > m => Op(k, x, s[i]) \in D
  PROVE  Value(k, b, s) \in D
<1> DEFINE A(l) == After(k, b, s, l)
           H == {l \in 0..n : l >= m => A(l) \in D}
<1>a. \A l \in 1..n : A(l) = Op(k, A(l - 1), s[l])
  BY Steps
<1>b. Value(k, b, s) = A(n)
  BY Whole
<1>c. A(m) \in D
  OBVIOUS
<1> HIDE DEF A
<1>1. 0 \in H
  BY <1>c
<1>2. ASSUME NEW l \in 0..(n - 1), l \in H PROVE l + 1 \in H
  <2>1. l + 1 \in 1..n /\ (l + 1) - 1 = l
    OBVIOUS
  <2>2. A(l + 1) = Op(k, A(l), s[l + 1])
    BY <1>a, <2>1
  <2>3. CASE l >= m
    BY <1>2, <2>1, <2>2, <2>3
  <2>4. CASE ~(l >= m)
    <3>1. l + 1 >= m => l + 1 = m
      BY <2>4
    <3>2. QED
      BY <1>c, <2>1, <3>1
  <2>5. QED
    BY <2>3, <2>4
<1>3. 0..n \subseteq H
  <2> HIDE DEF H
  <2>1. QED
    BY <1>1, <1>2, UpTo
<1>4. n \in 0..n /\ n >= m
  OBVIOUS
<1>5. QED
  BY <1>b, <1>3, <1>4

\* What is true of b and kept by every item is true in the end.
THEOREM Run ==
  ASSUME NEW k, NEW b, NEW s, NEW n \in Nat, DOMAIN s = 1..n,
         NEW D, b \in D, \A x \in D, i \in 1..n : Op(k, x, s[i]) \in D
  PROVE  Value(k, b, s) \in D
<1>1. After(k, b, s, 0) \in D /\ 0 \in 0..n
  BY Start
<1>2. QED
  BY <1>1, RunFrom

\* The fold over a beginning of s.
THEOREM Prefix ==
  ASSUME NEW k, NEW b, NEW s, NEW n \in Nat, DOMAIN s = 1..n, NEW m \in 0..n,
         NEW p, DOMAIN p = 1..m, \A i \in 1..m : p[i] = s[i]
  PROVE  Value(k, b, p) = After(k, b, s, m)
<1> DEFINE A(l) == After(k, b, s, l)
           B(l) == After(k, b, p, l)
           H == {l \in 0..m : B(l) = A(l)}
<1>1. A(0) = b /\ \A l \in 1..n : A(l) = Op(k, A(l - 1), s[l])
  BY Start, Steps
<1>2. B(0) = b /\ \A l \in 1..m : B(l) = Op(k, B(l - 1), p[l])
  BY Start, Steps
<1>3. Value(k, b, p) = B(m)
  BY Whole
<1> HIDE DEF A, B
<1>4. 0 \in H
  BY <1>1, <1>2
<1>5. ASSUME NEW l \in 0..(m - 1), l \in H PROVE l + 1 \in H
  <2>1. l + 1 \in 1..m /\ l + 1 \in 1..n /\ (l + 1) - 1 = l
    OBVIOUS
  <2>2. QED
    BY <1>1, <1>2, <1>5, <2>1
<1>6. 0..m \subseteq H
  <2> HIDE DEF H
  <2>1. QED
    BY <1>4, <1>5, UpTo
<1>7. B(m) = A(m)
  BY <1>6
<1>8. QED
  BY <1>3, <1>7 DEF A

-----------------------------------------------------------------------------
(* A fold that keeps the items in k.                                       *)

\* What is there of s[1..m] in r: the items in k, at the positions f gives.
Picked(k, s, m, r, f) ==
  /\ f \in [1..Len(r) -> 1..m]
  /\ \A i \in 1..Len(r) : r[i] = s[f[i]] /\ s[f[i]] \in k
  /\ \A i, j \in 1..Len(r) : i < j => f[i] < f[j]
  /\ \A p \in 1..m : s[p] \in k => \E i \in 1..Len(r) : f[i] = p

LEMMA PickedNext ==
  ASSUME NEW k, NEW T, NEW s, NEW m \in Nat, NEW r \in Seq(T), NEW f, Picked(k, s, m, r, f),
         s[m + 1] \in k, s[m + 1] \in T
  PROVE  \E g : Picked(k, s, m + 1, Append(r, s[m + 1]), g)
<1> DEFINE q == Append(r, s[m + 1])
           l == Len(r)
           g == [i \in 1..(l + 1) |-> IF i = l + 1 THEN m + 1 ELSE f[i]]
<1>1. l \in Nat /\ Len(q) = l + 1 /\ q[l + 1] = s[m + 1] /\ \A i \in 1..l : q[i] = r[i]
  OBVIOUS
<1>2. /\ f \in [1..l -> 1..m]
      /\ \A i \in 1..l : r[i] = s[f[i]] /\ s[f[i]] \in k
      /\ \A i, j \in 1..l : i < j => f[i] < f[j]
      /\ \A p \in 1..m : s[p] \in k => \E i \in 1..l : f[i] = p
  BY DEF Picked
<1> HIDE DEF q, l
<1>3. g[l + 1] = m + 1 /\ \A i \in 1..l : g[i] = f[i] /\ g[i] \in 1..m
  BY <1>1, <1>2
<1>4. \A i \in 1..(l + 1) : i = l + 1 \/ i \in 1..l
  BY <1>1
<1>5. g \in [1..(l + 1) -> 1..(m + 1)]
  BY <1>1, <1>2
<1> HIDE DEF g
<1>6. \A i \in 1..(l + 1) : q[i] = s[g[i]] /\ s[g[i]] \in k
  BY <1>1, <1>2, <1>3, <1>4
<1>7. \A i, j \in 1..(l + 1) : i < j => g[i] < g[j]
  <2>1. SUFFICES ASSUME NEW i \in 1..(l + 1), NEW j \in 1..(l + 1), i < j PROVE g[i] < g[j]
    OBVIOUS
  <2>2. i \in 1..l
    BY <1>1, <2>1
  <2>3. CASE j = l + 1
    BY <1>3, <2>2, <2>3
  <2>4. CASE j \in 1..l
    BY <1>2, <1>3, <2>1, <2>2, <2>4
  <2>5. QED
    BY <1>4, <2>3, <2>4
<1>8. ASSUME NEW p \in 1..(m + 1), s[p] \in k PROVE \E i \in 1..(l + 1) : g[i] = p
  <2>1. CASE p = m + 1
    BY <1>1, <1>3, <2>1
  <2>2. CASE p \in 1..m
    <3>1. PICK i \in 1..l : f[i] = p
      BY <1>2, <1>8, <2>2
    <3>2. i \in 1..(l + 1) /\ g[i] = p
      BY <1>1, <1>3, <3>1
    <3>3. QED
      BY <3>2
  <2>3. QED
    BY <2>1, <2>2
<1>9. Picked(k, s, m + 1, q, g)
  BY <1>1, <1>5, <1>6, <1>7, <1>8 DEF Picked
<1>10. QED
  BY <1>9 DEF q

\* filter(): the items in k, in their order.
THEOREM Picks ==
  ASSUME NEW k, NEW T, NEW s \in Seq(T),
         \A r \in Seq(T), x \in T : Op(k, r, x) = IF x \in k THEN Append(r, x) ELSE r
  PROVE  /\ Value(k, <<>>, s) \in Seq(T)
         /\ \E f : Picked(k, s, Len(s), Value(k, <<>>, s), f)
<1> DEFINE n == Len(s)
           A(m) == After(k, <<>>, s, m)
           H == {m \in 0..n : A(m) \in Seq(T) /\ \E f : Picked(k, s, m, A(m), f)}
<1>1. n \in Nat /\ DOMAIN s = 1..n /\ \A i \in 1..n : s[i] \in T
  OBVIOUS
<1>2. A(0) = <<>>
  BY <1>1, Start
<1>3. ASSUME NEW m \in 1..n PROVE A(m) = Op(k, A(m - 1), s[m])
  BY <1>1, Steps
<1>4. Value(k, <<>>, s) = A(n)
  BY <1>1, Whole
<1> HIDE DEF A, n
<1>5. 0 \in H
  <2> DEFINE f == [i \in 1..0 |-> i]
  <2>0. <<>> \in Seq(T) /\ Len(<<>>) = 0
    OBVIOUS
  <2>1. A(0) \in Seq(T) /\ Len(A(0)) = 0
    BY <1>2, <2>0, Zenon
  <2>a. 0 \in 0..n
    BY <1>1
  <2>2. f \in [1..0 -> 1..0]
    OBVIOUS
  <2> HIDE DEF f
  <2>3. Picked(k, s, 0, A(0), f)
    BY <2>1, <2>2 DEF Picked
  <2>4. QED
    BY <2>1, <2>a, <2>3
<1>6. ASSUME NEW m \in 0..(n - 1), m \in H PROVE m + 1 \in H
  <2>1. m + 1 \in 1..n /\ m + 1 \in 0..n /\ m \in Nat /\ (m + 1) - 1 = m
    BY <1>1
  <2>2. A(m + 1) = Op(k, A(m), s[m + 1]) /\ s[m + 1] \in T
    BY <1>1, <1>3, <2>1
  <2>3. A(m) \in Seq(T)
    BY <1>6
  <2>4. PICK f : Picked(k, s, m, A(m), f)
    BY <1>6
  <2>5. CASE s[m + 1] \in k
    <3>1. A(m + 1) = Append(A(m), s[m + 1])
      BY <2>2, <2>3, <2>5
    <3>2. \E g : Picked(k, s, m + 1, Append(A(m), s[m + 1]), g)
      BY <2>1, <2>2, <2>3, <2>4, <2>5, PickedNext
    <3>3. A(m + 1) \in Seq(T) /\ \E g : Picked(k, s, m + 1, A(m + 1), g)
      <4>1. Append(A(m), s[m + 1]) \in Seq(T)
        BY <2>2, <2>3
      <4>2. QED
        BY <3>1, <3>2, <4>1
    <3>4. QED
      BY <2>1, <3>3, Zenon
  <2>6. CASE s[m + 1] \notin k
    <3>1. A(m + 1) = A(m)
      BY <2>2, <2>3, <2>6
    <3>2. Picked(k, s, m + 1, A(m), f)
      <4>1. 1..(m + 1) = (1..m) \cup {m + 1}
        BY <2>1
      <4>2. QED
        BY <2>4, <2>6, <4>1 DEF Picked
    <3>3. QED
      BY <2>1, <2>3, <3>1, <3>2
  <2>7. QED
    BY <2>5, <2>6
<1>7. n \in H
  <2> HIDE DEF H
  <2>1. 0..n \subseteq H
    BY <1>1, <1>5, <1>6, UpTo
  <2>2. QED
    BY <1>1, <2>1
<1>8. QED
  BY <1>4, <1>7 DEF n

-----------------------------------------------------------------------------
(* Orders of a set.                                                        *)

\* A greatest one.
LEMMA Uppermost ==
  ASSUME NEW S, IsFiniteSet(S), S # {}, NEW key, \A x \in S : key[x] \in Int
  PROVE  \E x \in S : \A y \in S : key[y] <= key[x]
<1> DEFINE N == Cardinality(S)
           H == {n \in 0..N : \A T \in SUBSET S : Cardinality(T) = n /\ T # {} =>
                                \E x \in T : \A y \in T : key[y] <= key[x]}
<1>0. N \in Nat /\ \A T \in SUBSET S : IsFiniteSet(T)
  BY FS_CardinalityType, FS_Subset
<1> HIDE DEF N
<1>1. 0 \in H
  <2>1. \A T \in SUBSET S : Cardinality(T) = 0 => T = {}
    BY <1>0, FS_EmptySet
  <2>2. QED
    BY <1>0, <2>1
<1>2. ASSUME NEW n \in 0..(N - 1), n \in H PROVE n + 1 \in H
  <2> SUFFICES ASSUME NEW T \in SUBSET S, Cardinality(T) = n + 1, NEW t \in T
               PROVE  \E x \in T : \A y \in T : key[y] <= key[x]
    BY <1>0
  <2>1. Cardinality(T \ {t}) = n
    <3>1. IsFiniteSet(T)
      BY <1>0
    <3>2. Cardinality(T \ {t}) = IF t \in T THEN Cardinality(T) - 1 ELSE Cardinality(T)
      BY <3>1, FS_RemoveElement, Zenon
    <3>3. QED
      BY <3>2
  <2>2. CASE T \ {t} = {}
    BY <2>2
  <2>3. CASE T \ {t} # {}
    <3>1. T \ {t} \in SUBSET S
      OBVIOUS
    <3>2. PICK x \in T \ {t} : \A y \in T \ {t} : key[y] <= key[x]
      BY <1>2, <2>1, <2>3, <3>1
    <3>3. CASE key[x] <= key[t]
      BY <3>2, <3>3
    <3>4. CASE ~(key[x] <= key[t])
      BY <3>2, <3>4
    <3>5. QED
      BY <3>3, <3>4
  <2>4. QED
    BY <2>2, <2>3
<1>3. N \in H
  <2> HIDE DEF H
  <2>1. 0..N \subseteq H
    BY <1>0, <1>1, <1>2, UpTo
  <2>2. QED
    BY <1>0, <2>1
<1>4. QED
  BY <1>0, <1>3 DEF N

\* q lists S, each element once.
Lists(q, S) == 
  /\ q \in [1..Cardinality(S) -> S] 
  /\ \A i, j \in 1..Cardinality(S) : i # j => q[i] # q[j]
  /\ \A x \in S : \E i \in 1..Cardinality(S) : q[i] = x

\* A list of as many as there are, none twice, has them all.
LEMMA Injective ==
  ASSUME NEW S, IsFiniteSet(S), NEW q \in [1..Cardinality(S) -> S],
         \A i, j \in 1..Cardinality(S) : i # j => q[i] # q[j]
  PROVE  Lists(q, S)
<1> DEFINE n == Cardinality(S)
           R == {q[i] : i \in 1..n}
<1>1. n \in Nat
  BY FS_CardinalityType
<1>2. R \subseteq S /\ IsFiniteSet(R)
  BY FS_Subset
<1>3. Cardinality(R) = n
  <2>1. q \in [1..n -> R]
    OBVIOUS
  <2>2. ExistsBijection(1..n, R)
    BY <2>1 DEF ExistsBijection, Bijection, Injection, Surjection, IsInjective
  <2>3. QED
    BY <1>1, <2>2, FS_CountingElements
<1>4. R = S
  BY <1>2, <1>3, FS_Subset
<1>5. QED
  BY <1>4 DEF Lists

\* One more, at the end.
LEMMA OneMore ==
  ASSUME NEW S, IsFiniteSet(S), NEW t \in S, NEW n \in Nat, Cardinality(S \ {t}) = n, Cardinality(S) = n + 1,
         NEW p, Lists(p, S \ {t})
  PROVE  Lists([i \in 1..(n + 1) |-> IF i = n + 1 THEN t ELSE p[i]], S)
<1> DEFINE q == [i \in 1..(n + 1) |-> IF i = n + 1 THEN t ELSE p[i]]
<1>1. /\ p \in [1..n -> S \ {t}]
      /\ \A i, j \in 1..n : i # j => p[i] # p[j]
      /\ \A x \in S \ {t} : \E i \in 1..n : p[i] = x
  BY DEF Lists
<1>2. q \in [1..(n + 1) -> S] /\ q[n + 1] = t /\ \A i \in 1..n : q[i] = p[i] /\ i \in 1..(n + 1) /\ q[i] # t
  BY <1>1
<1>3. \A i \in 1..(n + 1) : i = n + 1 \/ i \in 1..n
  OBVIOUS
<1> HIDE DEF q
<1>4. \A i, j \in 1..(n + 1) : i # j => q[i] # q[j]
  BY <1>1, <1>2, <1>3
<1>5. \A x \in S : \E i \in 1..(n + 1) : q[i] = x
  <2>1. n + 1 \in 1..(n + 1)
    OBVIOUS
  <2>2. QED
    BY <1>1, <1>2, <2>1
<1>6. Lists(q, S)
  BY <1>2, <1>4, <1>5 DEF Lists
<1>7. QED
  BY <1>6 DEF q

\* sort(): there is such an order.
LEMMA Sortable ==
  ASSUME NEW S, IsFiniteSet(S), NEW key, \A x \in S : key[x] \in Int
  PROVE  \E q : Lists(q, S) /\ \A i, j \in 1..Cardinality(S) : i < j => key[q[i]] <= key[q[j]]
<1> DEFINE N == Cardinality(S)
           Sorts(q, T) == Lists(q, T) /\ \A i, j \in 1..Cardinality(T) : i < j => key[q[i]] <= key[q[j]]
           H == {n \in 0..N : \A T \in SUBSET S : Cardinality(T) = n => \E q : Sorts(q, T)}
<1>0. N \in Nat /\ \A T \in SUBSET S : IsFiniteSet(T)
  BY FS_CardinalityType, FS_Subset
<1> HIDE DEF N
<1>1. 0 \in H
  <2> SUFFICES ASSUME NEW T \in SUBSET S, Cardinality(T) = 0 PROVE \E q : Sorts(q, T)
    BY <1>0
  <2>1. T = {}
    BY <1>0, FS_EmptySet
  <2>2. <<>> \in [1..0 -> T] /\ 1..0 = {}
    OBVIOUS
  <2>3. Sorts(<<>>, T)
    BY <2>1, <2>2 DEF Lists
  <2>4. QED
    BY <2>3
<1>2. ASSUME NEW n \in 0..(N - 1), n \in H PROVE n + 1 \in H
  <2> SUFFICES ASSUME NEW T \in SUBSET S, Cardinality(T) = n + 1 PROVE \E q : Sorts(q, T)
    BY <1>0
  <2>1. IsFiniteSet(T) /\ T # {}
    BY <1>0, FS_EmptySet
  <2>2. PICK t \in T : \A y \in T : key[y] <= key[t]
    BY <2>1, Uppermost
  <2>3. Cardinality(T \ {t}) = n /\ n \in Nat
    <3>1. Cardinality(T \ {t}) = IF t \in T THEN Cardinality(T) - 1 ELSE Cardinality(T)
      BY <2>1, FS_RemoveElement, Zenon
    <3>2. QED
      BY <3>1
  <2>4. PICK p : Sorts(p, T \ {t})
    <3>1. T \ {t} \in SUBSET S
      OBVIOUS
    <3>2. QED
      BY <1>2, <2>3, <3>1
  <2> DEFINE q == [i \in 1..(n + 1) |-> IF i = n + 1 THEN t ELSE p[i]]
  <2>5. Lists(q, T)
    BY <2>1, <2>3, <2>4, OneMore
  <2>6. \A i \in 1..n : p[i] \in T
    BY <2>3, <2>4 DEF Lists
  <2>7. \A i, j \in 1..n : i < j => key[p[i]] <= key[p[j]]
    BY <2>3, <2>4
  <2>8. ASSUME NEW i \in 1..(n + 1), NEW j \in 1..(n + 1), i < j PROVE key[q[i]] <= key[q[j]]
    <3>1. i \in 1..n /\ q[i] = p[i]
      BY <2>8
    <3>2. CASE j = n + 1
      BY <2>2, <2>6, <3>1, <3>2
    <3>3. CASE j # n + 1
      <4>1. j \in 1..n /\ q[j] = p[j]
        BY <3>3
      <4> HIDE DEF q
      <4>2. QED
        BY <2>7, <2>8, <3>1, <4>1
    <3>4. QED
      BY <3>2, <3>3
  <2> HIDE DEF q
  <2>9. Sorts(q, T)
    BY <2>5, <2>8
  <2> HIDE DEF Sorts
  <2>10. QED
    BY <2>9
<1>3. N \in H
  <2> HIDE DEF H
  <2>1. 0..N \subseteq H
    BY <1>0, <1>1, <1>2, UpTo
  <2>2. QED
    BY <1>0, <2>1
<1>4. QED
  BY <1>0, <1>3 DEF N

\* sort(): all of S, each once, by key.
THEOREM Sorted ==
  ASSUME NEW S, IsFiniteSet(S), NEW key, \A x \in S : key[x] \in Int
  PROVE  LET q == SortedBy(S, key)   n == Cardinality(S)
         IN  /\ n \in Nat /\ q \in [1..n -> S] 
             /\ \A i, j \in 1..n : i # j => q[i] # q[j]
             /\ \A x \in S : \E i \in 1..n : q[i] = x
             /\ \A i, j \in 1..n : i < j => key[q[i]] <= key[q[j]]
<1> DEFINE n == Cardinality(S)
           IsIt(q) == q \in SetToSeqs(S) /\ \A i, j \in DOMAIN q : i < j => key[q[i]] <= key[q[j]]
<1>1. PICK p : Lists(p, S) /\ \A i, j \in 1..n : i < j => key[p[i]] <= key[p[j]]
  BY Sortable
<1>2. IsIt(p)
  BY <1>1 DEF Lists, SetToSeqs
<1>3. SortedBy(S, key) = CHOOSE q : IsIt(q)
  BY DEF SortedBy
<1>4. IsIt(SortedBy(S, key))
  BY <1>2, <1>3
<1> DEFINE q == SortedBy(S, key)
<1>5. n \in Nat
  BY FS_CardinalityType
<1>6. q \in [1..n -> S] /\ \A i, j \in 1..n : i # j => q[i] # q[j]
  BY <1>4 DEF SetToSeqs
<1>7. Lists(q, S)
  BY <1>6, Injective
<1>8. \A i, j \in 1..n : i < j => key[q[i]] <= key[q[j]]
  BY <1>4, <1>6
<1>9. QED
  BY <1>5, <1>7, <1>8 DEF Lists

\* Object.keys() and the like: all of S, each once, in some order.
THEOREM Listed ==
  ASSUME NEW S, IsFiniteSet(S)
  PROVE  LET q == SetToSeq(S)   n == Cardinality(S)
         IN  /\ n \in Nat /\ q \in [1..n -> S] 
             /\ \A i, j \in 1..n : i # j => q[i] # q[j]
             /\ \A x \in S : \E i \in 1..n : q[i] = x
<1> DEFINE n == Cardinality(S)   q == SetToSeq(S)
<1>1. n \in Nat /\ Bijection(1..n, S) # {}
  BY FS_CardinalityType DEF ExistsBijection
<1>2. \E f \in [1..n -> S] : IsInjective(f)
  BY <1>1 DEF Bijection, Injection
<1>3. q \in [1..n -> S] /\ IsInjective(q)
  BY <1>2 DEF SetToSeq
<1> HIDE DEF q
<1>4. \A i, j \in 1..n : i # j => q[i] # q[j]
  BY <1>3 DEF IsInjective
<1>5. Lists(q, S)
  BY <1>3, <1>4, Injective
<1>6. QED
  BY <1>1, <1>5 DEF Lists, q

-----------------------------------------------------------------------------
(* Sums.                                                                   *)

\* The operator adds w[i] for the i-th item, a natural number.
Adds(k, s, n, w) ==
  /\ n \in Nat /\ DOMAIN s = 1..n /\ w \in [1..n -> Nat]
  /\ \A x \in Nat, i \in 1..n : Op(k, x, s[i]) = x + w[i]
Sums(k, s, n, w) ==
  /\ After(k, 0, s, 0) = 0 /\ Value(k, 0, s) = After(k, 0, s, n)
  /\ \A m \in 0..n : After(k, 0, s, m) \in Nat /\ After(k, 0, s, m) <= Value(k, 0, s)
  /\ \A m \in 1..n : After(k, 0, s, m) = After(k, 0, s, m - 1) + w[m]

\* Item by item, a sum.
THEOREM Summed == ASSUME NEW k, NEW s, NEW n, NEW w, Adds(k, s, n, w) PROVE Sums(k, s, n, w)
<1>0. n \in Nat /\ DOMAIN s = 1..n /\ w \in [1..n -> Nat] /\ \A x \in Nat, i \in 1..n : Op(k, x, s[i]) = x + w[i]
  BY DEF Adds
<1> DEFINE A(m) == After(k, 0, s, m)
           H == {m \in 0..n : A(m) \in Nat}
           G == {m \in 0..n : A(n - m) <= A(n)}
<1>1. A(0) = 0 /\ \A m \in 1..n : A(m) = Op(k, A(m - 1), s[m])
  <2>1. n \in Nat /\ DOMAIN s = 1..n
    BY <1>0
  <2>2. A(0) = 0
    BY <2>1, Start
  <2>3. \A m \in 1..n : A(m) = Op(k, A(m - 1), s[m])
    BY <2>1, Steps
  <2>4. QED
    BY <2>2, <2>3
<1>2. Value(k, 0, s) = A(n)
  BY <1>0, Whole
<1> HIDE DEF A
<1>3. 0 \in H
  BY <1>0, <1>1
<1>4. ASSUME NEW m \in 0..(n - 1), m \in H PROVE m + 1 \in H
  <2>1. m + 1 \in 1..n /\ (m + 1) - 1 = m /\ A(m) \in Nat
    BY <1>0, <1>4
  <2>2. A(m + 1) = A(m) + w[m + 1]
    BY <1>0, <1>1, <2>1
  <2>3. m + 1 \in 0..n /\ w[m + 1] \in Nat
    BY <1>0
  <2>4. QED
    BY <2>1, <2>2, <2>3
<1>5. \A m \in 0..n : A(m) \in Nat
  <2>1. 0..n \subseteq H
    <3> HIDE DEF H
    <3>1. QED
      BY <1>0, <1>3, <1>4, UpTo
  <2>2. QED
    BY <2>1
<1>6. \A m \in 1..n : A(m) = A(m - 1) + w[m]
  <2>1. \A m \in 1..n : m - 1 \in 0..n
    BY <1>0
  <2>2. QED
    BY <1>0, <1>1, <1>5, <2>1
<1>7. 0 \in G
  BY <1>0, <1>5
<1>8. ASSUME NEW m \in 0..(n - 1), m \in G PROVE m + 1 \in G
  <2>1. n - m \in 1..n /\ n - m \in 0..n /\ n - (m + 1) \in 0..n /\ (n - m) - 1 = n - (m + 1) /\ n \in 0..n
    BY <1>0
  <2>2. A(n - m) = A(n - (m + 1)) + w[n - m] /\ A(n - m) <= A(n)
    BY <1>0, <1>6, <1>8, <2>1
  <2>3. A(n - m) \in Nat /\ A(n - (m + 1)) \in Nat /\ A(n) \in Nat /\ w[n - m] \in Nat
    BY <1>0, <1>5, <2>1
  <2>4. A(n - (m + 1)) <= A(n)
    BY <2>2, <2>3
  <2>5. m + 1 \in 0..n
    BY <1>0
  <2>6. QED
    BY <2>4, <2>5
<1>9. \A m \in 0..n : A(m) <= A(n)
  <2>1. 0..n \subseteq G
    <3> HIDE DEF G
    <3>1. QED
      BY <1>0, <1>7, <1>8, UpTo
  <2>2. ASSUME NEW m \in 0..n PROVE A(m) <= A(n)
    <3>1. n - m \in 0..n /\ n - (n - m) = m
      BY <1>0
    <3>2. QED
      BY <2>1, <3>1
  <2>3. QED
    BY <2>2
<1>10. QED
  <2>1. \A m \in 0..n : A(m) \in Nat /\ A(m) <= Value(k, 0, s)
    BY <1>2, <1>5, <1>9
  <2>2. QED
    BY <1>1, <1>2, <1>6, <2>1 DEF A, Sums

\* Two sums of the same numbers.
LEMMA SameSum ==
  ASSUME NEW n, NEW w, NEW k, NEW s, Adds(k, s, n, w), NEW l, NEW t, Adds(l, t, n, w)
  PROVE  Value(k, 0, s) = Value(l, 0, t)
<1> DEFINE A(m) == After(k, 0, s, m)
           B(m) == After(l, 0, t, m)
           H == {m \in 0..n : A(m) = B(m)}
<1>0. n \in Nat
  BY DEF Adds
<1>1. A(0) = 0 /\ Value(k, 0, s) = A(n) /\ \A m \in 1..n : A(m) = A(m - 1) + w[m]
  BY Summed DEF Sums
<1>2. B(0) = 0 /\ Value(l, 0, t) = B(n) /\ \A m \in 1..n : B(m) = B(m - 1) + w[m]
  BY Summed DEF Sums
<1> HIDE DEF A, B
<1>3. 0 \in H
  BY <1>0, <1>1, <1>2
<1>4. ASSUME NEW m \in 0..(n - 1), m \in H PROVE m + 1 \in H
  <2>1. m + 1 \in 1..n /\ (m + 1) - 1 = m
    BY <1>0
  <2>2. QED
    BY <1>1, <1>2, <1>4, <2>1
<1>5. 0..n \subseteq H
  <2> HIDE DEF H
  <2>1. QED
    BY <1>0, <1>3, <1>4, UpTo
<1>6. n \in 0..n
  BY <1>0
<1>7. QED
  BY <1>1, <1>2, <1>5, <1>6

\* One number left out.
LEMMA SumLess ==
  ASSUME NEW n \in Nat, NEW j \in 1..(n + 1), NEW k, NEW s, NEW w, Adds(k, s, n + 1, w),
         NEW t, DOMAIN t = 1..n, \A i \in 1..n : t[i] = IF i < j THEN s[i] ELSE s[i + 1]
  PROVE  Value(k, 0, s) = Value(k, 0, t) + w[j]
<1> DEFINE A(m) == After(k, 0, s, m)
           B(m) == After(k, 0, t, m)
           v == [i \in 1..n |-> IF i < j THEN w[i] ELSE w[i + 1]]
           H == {m \in 0..(n + 1) : A(m) = IF m < j THEN B(m) ELSE B(m - 1) + w[j]}
<1>0. n + 1 \in Nat /\ w \in [1..(n + 1) -> Nat] /\ \A x \in Nat, i \in 1..(n + 1) : Op(k, x, s[i]) = x + w[i]
  BY DEF Adds
<1>1. A(0) = 0 /\ Value(k, 0, s) = A(n + 1) /\ \A m \in 1..(n + 1) : A(m) = A(m - 1) + w[m]
  BY Summed DEF Sums
<1>a. \A i \in 1..n : i \in 1..(n + 1) /\ i + 1 \in 1..(n + 1)
  OBVIOUS
<1>2. v \in [1..n -> Nat] /\ \A i \in 1..n : v[i] = IF i < j THEN w[i] ELSE w[i + 1]
  BY <1>0, <1>a
<1> HIDE DEF v
<1>3. Adds(k, t, n, v)
  <2>1. \A x \in Nat, i \in 1..n : Op(k, x, t[i]) = x + v[i]
    <3> SUFFICES ASSUME NEW x \in Nat, NEW i \in 1..n PROVE Op(k, x, t[i]) = x + v[i]
      OBVIOUS
    <3>1. CASE i < j
      BY <1>0, <1>a, <1>2, <3>1
    <3>2. CASE ~(i < j)
      BY <1>0, <1>a, <1>2, <3>2
    <3>3. QED
      BY <3>1, <3>2
  <2>2. QED
    BY <1>2, <2>1 DEF Adds
<1>4. /\ B(0) = 0 /\ Value(k, 0, t) = B(n)
      /\ \A m \in 0..n : B(m) \in Nat
      /\ \A m \in 1..n : B(m) = B(m - 1) + v[m]
  BY <1>3, Summed DEF Sums
<1> HIDE DEF A, B
<1>5. 0 \in H
  BY <1>1, <1>4
<1>6. ASSUME NEW m \in 0..n, m \in H PROVE m + 1 \in H
  <2>1. m + 1 \in 1..(n + 1) /\ m + 1 \in 0..(n + 1) /\ (m + 1) - 1 = m
    OBVIOUS
  <2>2. A(m + 1) = A(m) + w[m + 1]
    BY <1>1, <2>1
  <2>3. CASE m + 1 < j
    <3>1. m \in Int /\ m < j /\ m + 1 \in 1..n
      BY <2>3
    <3>2. A(m) = B(m) /\ B(m + 1) = B(m) + v[m + 1] /\ v[m + 1] = w[m + 1]
      BY <1>2, <1>4, <1>6, <2>1, <2>3, <3>1
    <3>3. A(m + 1) = B(m + 1)
      BY <2>2, <3>2
    <3>4. QED
      BY <2>1, <2>3, <3>3
  <2>4. CASE m + 1 = j
    <3>1. A(m) = B(m)
      BY <1>6, <2>4
    <3>2. A(m + 1) = B(m) + w[j]
      BY <2>2, <2>4, <3>1
    <3>a. ~(m + 1 < j)
      BY <2>4
    <3>3. QED
      BY <2>1, <3>2, <3>a
  <2>5. CASE m + 1 > j
    <3>1. ~(m < j) /\ m \in 1..n /\ ~(m + 1 < j)
      BY <2>5
    <3>2. A(m) = B(m - 1) + w[j] /\ B(m) = B(m - 1) + v[m] /\ v[m] = w[m + 1]
      BY <1>2, <1>4, <1>6, <3>1
    <3>3. B(m - 1) \in Nat /\ w[j] \in Nat /\ w[m + 1] \in Nat
      <4>1. m - 1 \in 0..n
        BY <3>1
      <4>2. QED
        BY <1>0, <1>4, <2>1, <4>1
    <3>4. A(m + 1) = B((m + 1) - 1) + w[j]
      BY <2>1, <2>2, <3>2, <3>3
    <3>5. QED
      BY <2>1, <3>1, <3>4
  <2>6. QED
    BY <2>3, <2>4, <2>5
<1>7. n + 1 \in H
  <2> DEFINE N == n + 1
  <2>0. \A m \in 0..(N - 1) : m \in 0..n
    OBVIOUS
  <2>1. \A m \in 0..(N - 1) : m \in H => m + 1 \in H
    BY <1>6, <2>0
  <2>2. N \in Nat /\ N \in 0..N
    OBVIOUS
  <2> HIDE DEF H, N
  <2>3. 0..N \subseteq H
    BY <1>5, <2>1, <2>2, UpTo
  <2>4. QED
    BY <2>2, <2>3 DEF N
<1>8. A(n + 1) = B(n) + w[j]
  BY <1>7
<1>9. QED
  BY <1>1, <1>4, <1>8

\* The operator adds k[y] for an element y of S.
AddsOver(k, S) == \A x \in Nat, y \in S : k[y] \in Nat /\ Op(k, x, y) = x + k[y]

LEMMA AddsListed ==
  ASSUME NEW S, IsFiniteSet(S), NEW k, AddsOver(k, S), NEW q, Lists(q, S)
  PROVE  Adds(k, q, Cardinality(S), [i \in 1..Cardinality(S) |-> k[q[i]]])
<1> DEFINE n == Cardinality(S)
           w == [i \in 1..n |-> k[q[i]]]
<1>1. n \in Nat /\ q \in [1..n -> S]
  BY FS_CardinalityType DEF Lists
<1>2. \A i \in 1..n : q[i] \in S /\ k[q[i]] \in Nat
  <2>1. 0 \in Nat /\ \A i \in 1..n : q[i] \in S
    BY <1>1
  <2>2. QED
    BY <2>1 DEF AddsOver
<1>3. w \in [1..n -> Nat] /\ \A i \in 1..n : w[i] = k[q[i]]
  BY <1>2
<1>4. \A x \in Nat, i \in 1..n : Op(k, x, q[i]) = x + w[i]
  BY <1>2, <1>3 DEF AddsOver
<1>5. DOMAIN q = 1..n
  BY <1>1
<1> HIDE DEF w, n
<1>6. Adds(k, q, n, w)
  BY <1>1, <1>3, <1>4, <1>5 DEF Adds
<1>7. QED
  BY <1>6 DEF w, n

\* A list without its j-th item.
Drops(q, n, j) == [i \in 1..n |-> IF i < j THEN q[i] ELSE q[i + 1]]

LEMMA Dropped ==
  ASSUME NEW S, IsFiniteSet(S), NEW n \in Nat, Cardinality(S) = n + 1, NEW q, Lists(q, S), NEW j \in 1..(n + 1)
  PROVE  /\ Cardinality(S \ {q[j]}) = n /\ IsFiniteSet(S \ {q[j]})
         /\ Lists(Drops(q, n, j), S \ {q[j]})
<1> DEFINE x == q[j]
           t == Drops(q, n, j)
<1>1. /\ q \in [1..(n + 1) -> S]
      /\ \A i, l \in 1..(n + 1) : i # l => q[i] # q[l]
  BY DEF Lists
<1>2. x \in S
  BY <1>1
<1>3. Cardinality(S \ {x}) = n /\ IsFiniteSet(S \ {x})
  <2> HIDE DEF x
  <2>1. /\ IsFiniteSet(S \ {x})
        /\ Cardinality(S \ {x}) = IF x \in S THEN Cardinality(S) - 1 ELSE Cardinality(S)
    BY FS_RemoveElement, Zenon
  <2>2. Cardinality(S \ {x}) = n + 1 - 1
    BY <1>2, <2>1
  <2>3. QED
    BY <2>1, <2>2
<1>4. \A i \in 1..n : i \in 1..(n + 1) /\ i + 1 \in 1..(n + 1)
  OBVIOUS
<1>5. DOMAIN t = 1..n /\ \A i \in 1..n : t[i] = IF i < j THEN q[i] ELSE q[i + 1]
  BY DEF Drops
<1>6. \A i \in 1..n : t[i] \in S /\ t[i] # x
  <2> SUFFICES ASSUME NEW i \in 1..n PROVE t[i] \in S /\ t[i] # x
    OBVIOUS
  <2>1. CASE i < j
    BY <1>1, <1>4, <1>5, <2>1
  <2>2. CASE ~(i < j)
    <3>1. i + 1 # j
      BY <2>2
    <3>2. QED
      BY <1>1, <1>4, <1>5, <2>2, <3>1
  <2>3. QED
    BY <2>1, <2>2
<1>7. \A i, l \in 1..n : i # l => t[i] # t[l]
  <2> SUFFICES ASSUME NEW i \in 1..n, NEW l \in 1..n, i # l PROVE t[i] # t[l]
    OBVIOUS
  <2> DEFINE At(m) == IF m < j THEN m ELSE m + 1
  <2>1. At(i) # At(l) /\ At(i) \in 1..(n + 1) /\ At(l) \in 1..(n + 1)
    OBVIOUS
  <2>2. t[i] = q[At(i)] /\ t[l] = q[At(l)]
    BY <1>5
  <2> HIDE DEF At
  <2>3. QED
    BY <1>1, <2>1, <2>2
<1>8. t \in [1..n -> S \ {x}]
  <2>1. t = [i \in 1..n |-> t[i]]
    BY DEF Drops
  <2>2. QED
    BY <1>6, <2>1
<1> HIDE DEF x, t
<1>9. Lists(t, S \ {x})
  BY <1>3, <1>7, <1>8, Injective
<1>10. QED
  BY <1>3, <1>9 DEF x, t

LEMMA SumDropped ==
  ASSUME NEW S, IsFiniteSet(S), NEW n \in Nat, Cardinality(S) = n + 1, NEW q, Lists(q, S), NEW j \in 1..(n + 1),
         NEW k, AddsOver(k, S)
  PROVE  Value(k, 0, q) = Value(k, 0, Drops(q, n, j)) + k[q[j]]
<1> DEFINE w == [i \in 1..(n + 1) |-> k[q[i]]]
           t == Drops(q, n, j)
<1>1. Adds(k, q, n + 1, w)
  BY AddsListed
<1>2. w[j] = k[q[j]]
  OBVIOUS
<1>3. DOMAIN t = 1..n /\ \A i \in 1..n : t[i] = IF i < j THEN q[i] ELSE q[i + 1]
  BY DEF Drops
<1> HIDE DEF w, t
<1>4. Value(k, 0, q) = Value(k, 0, t) + w[j]
  BY <1>1, <1>3, SumLess
<1>5. QED
  BY <1>2, <1>4 DEF t

\* In whatever order.
THEOREM AnyOrder ==
  ASSUME NEW S, IsFiniteSet(S), NEW k, AddsOver(k, S), NEW p, Lists(p, S), NEW q, Lists(q, S)
  PROVE  Value(k, 0, p) = Value(k, 0, q)
<1> DEFINE N == Cardinality(S)
           Same(T) == \A a, b \in [1..Cardinality(T) -> T] : Lists(a, T) /\ Lists(b, T) => Value(k, 0, a) = Value(k, 0, b)
           H == {n \in 0..N : \A T \in SUBSET S : Cardinality(T) = n => Same(T)}
<1>0. N \in Nat /\ \A T \in SUBSET S : IsFiniteSet(T) /\ AddsOver(k, T)
  BY FS_CardinalityType, FS_Subset DEF AddsOver
<1> HIDE DEF N
<1>1. 0 \in H
  <2>1. ASSUME NEW T \in SUBSET S, Cardinality(T) = 0 PROVE Same(T)
    <3>1. \A a, b \in [1..0 -> T] : a = b
      OBVIOUS
    <3>2. QED
      BY <2>1, <3>1
  <2> HIDE DEF Same
  <2>2. QED
    BY <1>0, <2>1
<1>2. ASSUME NEW n \in 0..(N - 1), n \in H PROVE n + 1 \in H
  <2>1. ASSUME NEW T \in SUBSET S, Cardinality(T) = n + 1, NEW a, NEW b, Lists(a, T), Lists(b, T)
        PROVE  Value(k, 0, a) = Value(k, 0, b)
    <3>1. n \in Nat /\ n + 1 \in 1..(n + 1) /\ IsFiniteSet(T) /\ AddsOver(k, T)
      BY <1>0
    <3> DEFINE x == a[n + 1]
    <3>2. x \in T
      BY <2>1, <3>1 DEF Lists
    <3>3. PICK j \in 1..(n + 1) : b[j] = x
      BY <2>1, <3>2 DEF Lists
    <3> DEFINE c == Drops(a, n, n + 1)
               d == Drops(b, n, j)
    <3>4. Cardinality(T \ {x}) = n /\ Lists(c, T \ {x})
      BY <2>1, <3>1, Dropped
    <3>5. Lists(d, T \ {b[j]})
      BY <2>1, <3>1, Dropped
    <3>6. Value(k, 0, a) = Value(k, 0, c) + k[x]
      BY <2>1, <3>1, SumDropped
    <3>7. Value(k, 0, b) = Value(k, 0, d) + k[b[j]]
      BY <2>1, <3>1, SumDropped
    <3>8. Same(T \ {x})
      <4>1. T \ {x} \in SUBSET S
        OBVIOUS
      <4> HIDE DEF Same, x
      <4>2. QED
        BY <1>2, <3>4, <4>1
    <3> HIDE DEF c, d, x
    <3>9. c \in [1..Cardinality(T \ {x}) -> T \ {x}] /\ d \in [1..Cardinality(T \ {x}) -> T \ {x}]
      BY <3>3, <3>4, <3>5 DEF Lists
    <3>10. Lists(d, T \ {x})
      BY <3>3, <3>5
    <3>11. Value(k, 0, c) = Value(k, 0, d)
      BY <3>4, <3>8, <3>9, <3>10
    <3>12. QED
      BY <3>3, <3>6, <3>7, <3>11
  <2>2. \A T \in SUBSET S : Cardinality(T) = n + 1 => Same(T)
    BY <2>1
  <2>3. n + 1 \in 0..N
    BY <1>0
  <2> HIDE DEF Same
  <2>4. QED
    BY <2>2, <2>3
<1>3. N \in H
  <2> HIDE DEF H
  <2>1. 0..N \subseteq H
    BY <1>0, <1>1, <1>2, UpTo
  <2>2. QED
    BY <1>0, <2>1
<1>4. Same(S)
  <2> HIDE DEF Same
  <2>1. QED
    BY <1>0, <1>3 DEF N
<1>5. p \in [1..N -> S] /\ q \in [1..N -> S]
  BY DEF Lists, N
<1>6. QED
  BY <1>4, <1>5 DEF N

\* The sum over a set, of natural numbers.
SetSum(g, S) == Value(g, 0, SetToSeq(S))

LEMMA SeqLists == ASSUME NEW S, IsFiniteSet(S) PROVE Lists(SetToSeq(S), S)
<1> DEFINE q == SetToSeq(S)   n == Cardinality(S)
<1>1. /\ n \in Nat /\ q \in [1..n -> S]
      /\ \A i, j \in 1..n : i # j => q[i] # q[j]
      /\ \A x \in S : \E i \in 1..n : q[i] = x
  BY Listed
<1> HIDE DEF q
<1>2. Lists(q, S)
  BY <1>1 DEF Lists
<1>3. QED
  BY <1>2 DEF q

THEOREM SumIsNat == ASSUME NEW S, IsFiniteSet(S), NEW g, AddsOver(g, S) PROVE SetSum(g, S) \in Nat
<1> DEFINE q == SetToSeq(S)
           n == Cardinality(S)
           w == [i \in 1..n |-> g[q[i]]]
<1>1. Adds(g, q, n, w) /\ n \in Nat
  BY SeqLists, AddsListed, FS_CardinalityType
<1> HIDE DEF q, n, w
<1>2. Sums(g, q, n, w) /\ n \in 0..n
  BY <1>1, Summed
<1>3. Value(g, 0, q) \in Nat
  BY <1>2 DEF Sums
<1>4. QED
  BY <1>3 DEF SetSum, q

THEOREM SumOfNone == ASSUME NEW g PROVE SetSum(g, {}) = 0
<1> DEFINE q == SetToSeq({})
<1>1. Lists(q, {}) /\ Cardinality({}) = 0
  BY SeqLists, FS_EmptySet
<1>2. DOMAIN q = 1..0
  BY <1>1 DEF Lists
<1> HIDE DEF q
<1>3. Value(g, 0, q) = After(g, 0, q, 0) /\ After(g, 0, q, 0) = 0
  BY <1>2, Whole, Start
<1>4. QED
  BY <1>3 DEF SetSum, q

THEOREM SumLeftOut ==
  ASSUME NEW S, IsFiniteSet(S), NEW x \in S, NEW g, AddsOver(g, S), NEW h, \A y \in S \ {x} : h[y] = g[y],
         \A n \in Nat, y \in S \ {x} : Op(h, n, y) = n + h[y]
  PROVE  SetSum(g, S) = SetSum(h, S \ {x}) + g[x]
<1> DEFINE n == Cardinality(S \ {x})
           p == SetToSeq(S)
           q == SetToSeq(S \ {x})
           w == [i \in 1..n |-> h[q[i]]]
<1>1. /\ IsFiniteSet(S \ {x}) /\ n \in Nat
      /\ Cardinality(S) = n + 1
  <2>1. /\ IsFiniteSet(S \ {x})
        /\ Cardinality(S \ {x}) = IF x \in S THEN Cardinality(S) - 1 ELSE Cardinality(S)
    BY FS_RemoveElement, Zenon
  <2>2. Cardinality(S \ {x}) \in Nat /\ Cardinality(S) \in Nat
    BY <2>1, FS_CardinalityType
  <2>3. QED
    BY <2>1, <2>2
<1>2. Lists(p, S) /\ Lists(q, S \ {x})
  BY <1>1, SeqLists
<1> HIDE DEF p, q
<1>3. PICK j \in 1..(n + 1) : p[j] = x
  BY <1>1, <1>2 DEF Lists
<1> DEFINE t == Drops(p, n, j)
<1>4. Value(g, 0, p) = Value(g, 0, t) + g[p[j]]
  <2> HIDE DEF n
  <2>1. QED
    BY <1>1, <1>2, SumDropped
<1>5. Lists(t, S \ {x})
  <2>1. Lists(t, S \ {p[j]})
    <3> HIDE DEF n
    <3>1. QED
      BY <1>1, <1>2, Dropped
  <2> HIDE DEF t
  <2>2. QED
    BY <1>3, <2>1
<1> HIDE DEF t
<1>6. AddsOver(g, S \ {x}) /\ AddsOver(h, S \ {x})
  BY DEF AddsOver
<1>7. Value(g, 0, t) = Value(g, 0, q)
  BY <1>1, <1>2, <1>5, <1>6, AnyOrder
<1>8. Adds(h, q, n, w)
  BY <1>1, <1>2, <1>6, AddsListed
<1>9. Adds(g, q, n, [i \in 1..n |-> g[q[i]]])
  BY <1>1, <1>2, <1>6, AddsListed
<1>10. [i \in 1..n |-> g[q[i]]] = w
  <2>1. \A i \in 1..n : q[i] \in S \ {x}
    BY <1>2 DEF Lists
  <2>2. QED
    BY <2>1
<1> HIDE DEF w, n
<1>11. Adds(g, q, n, w)
  BY <1>9, <1>10
<1> HIDE DEF q
<1>12. Value(g, 0, q) = Value(h, 0, q)
  BY <1>8, <1>11, SameSum
<1>13. QED
  BY <1>3, <1>4, <1>7, <1>12 DEF SetSum, p, q
=============================================================================
