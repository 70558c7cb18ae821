--------------------------- MODULE MailboxProofs ---------------------------
(***************************************************************************)
(* What Mailbox.tla promises, for any recipients, blobs, limits and clock:  *)
(* types, the order and the accounts of the boxes, and that mail is held    *)
(* until it is due.  The invariant adds to them that the image on disk is   *)
(* as good as the boxes in memory (within the limits, oldest first): so a   *)
(* restart, which registers and deposits all of it again, loses none of it. *)
(***************************************************************************)
EXTENDS Mailbox, FiniteSetTheorems, SequenceTheorems, TLAPS

Item    == [id : Ids, at : Times]
Recs(b) == {fp \in Fps : b[fp] # None}

\* What a box holds, as deposit() and fetch() rely on it.
Ordered(items) ==
  \A i, j \in DOMAIN items : i < j => items[i].at <= items[j].at /\ items[i].id # items[j].id
InOrder(items) ==
  /\ Len(items) <= MaxPerRecipient
  /\ \A i \in DOMAIN items : Size[items[i].id] <= MaxBlob
  /\ Ordered(items)

Total(b) == SumOver(Recs(b), [fp \in Recs(b) |-> Bytes(b[fp].items)])
Good(b) ==
  /\ b \in Boxes
  /\ \A fp \in Recs(b) : InOrder(b[fp].items)
  /\ Cardinality(Recs(b)) <= MaxRecipients
  /\ Total(b) <= MaxTotal
Stored(u) == u \in [box : Boxes, bytes : Nat] /\ Good(u.box) /\ u.bytes = Total(u.box)

\* Nothing was deposited after t.
Past(b, t) == \A fp \in Recs(b) : \A i \in DOMAIN b[fp].items : b[fp].items[i].at <= t

IInv ==
  /\ opened \in BOOLEAN /\ pending \in BOOLEAN /\ failed \in BOOLEAN
  /\ serving \in BOOLEAN /\ leaving \in BOOLEAN
  /\ now \in Times
  /\ Stored(store) /\ Past(store.box, now)
  /\ Good(disk) /\ Past(disk, now)
  /\ QuietIsSaved

-----------------------------------------------------------------------------
(* Lists of mail.                                                          *)

OB == INSTANCE Folding WITH Op <- LAMBDA k, n, it : n + Size[it.id]
Keeps(k, r, x) == IF x \in k THEN Append(r, x) ELSE r
OO == INSTANCE Folding WITH Op <- Keeps

LEMMA BoxIs == Box = [seen : Times, items : Seq(Item)]
  BY DEF Box, Item

LEMMA LimitsAreNumbers ==
  /\ MaxBlob \in Nat /\ MaxPerRecipient \in Nat /\ MaxTotal \in Nat /\ MaxRecipients \in Nat
  /\ Ttl \in Nat /\ EndOfTime \in Nat
  BY LimitsAssumption

LEMMA ItemsOf ==
  ASSUME NEW items \in Seq(Item)
  PROVE  /\ Len(items) \in Nat /\ DOMAIN items = 1..Len(items)
         /\ \A i \in 1..Len(items) : /\ items[i] \in Item /\ items[i].id \in Ids /\ items[i].at \in Times
                                     /\ Size[items[i].id] \in Nat
<1>1. Len(items) \in Nat /\ DOMAIN items = 1..Len(items) /\ \A i \in 1..Len(items) : items[i] \in Item
  OBVIOUS
<1>2. \A it \in Item : it.id \in Ids /\ it.at \in Times /\ Size[it.id] \in Nat
  BY SizeAssumption DEF Item
<1>3. QED
  BY <1>1, <1>2

LEMMA BytesIs == ASSUME NEW items PROVE Bytes(items) = OB!Value(0, 0, items)
  BY DEF Bytes, FoldLeft, MapThenFoldSet, OB!Value, OB!FoldOf, OB!Folds, OB!Max, Max

LEMMA BytesAdds ==
  ASSUME NEW items \in Seq(Item)
  PROVE  OB!Adds(0, items, Len(items), [i \in 1..Len(items) |-> Size[items[i].id]])
<1> DEFINE n == Len(items)
           w == [i \in 1..n |-> Size[items[i].id]]
<1>1. n \in Nat /\ DOMAIN items = 1..n /\ \A i \in 1..n : Size[items[i].id] \in Nat
  BY ItemsOf
<1>2. w \in [1..n -> Nat] /\ \A i \in 1..n : w[i] = Size[items[i].id]
  BY <1>1
<1> HIDE DEF w, n
<1>3. \A x \in Nat, i \in 1..n : x + Size[items[i].id] = x + w[i]
  BY <1>2
<1>4. QED
  BY <1>1, <1>2, <1>3 DEF OB!Adds, w, n

\* The bytes of the first m items.
Sized(items, m) == OB!After(0, 0, items, m)

LEMMA BytesSum ==
  ASSUME NEW items \in Seq(Item)
  PROVE  /\ Bytes(items) \in Nat /\ Sized(items, 0) = 0 /\ Bytes(items) = Sized(items, Len(items))
         /\ \A m \in 0..Len(items) : Sized(items, m) \in Nat /\ Sized(items, m) <= Bytes(items)
         /\ \A m \in 1..Len(items) : Sized(items, m) = Sized(items, m - 1) + Size[items[m].id]
<1> DEFINE n == Len(items)
           w == [i \in 1..n |-> Size[items[i].id]]
<1>1. n \in Nat /\ \A i \in 1..n : w[i] = Size[items[i].id]
  BY ItemsOf
<1>2. OB!Adds(0, items, n, w)
  BY BytesAdds
<1> HIDE DEF w, n
<1>3. OB!Sums(0, items, n, w)
  BY <1>2, OB!Summed
<1>4. /\ OB!After(0, 0, items, 0) = 0 /\ OB!Value(0, 0, items) = OB!After(0, 0, items, n)
      /\ \A m \in 0..n : OB!After(0, 0, items, m) \in Nat /\ OB!After(0, 0, items, m) <= OB!Value(0, 0, items)
      /\ \A m \in 1..n : OB!After(0, 0, items, m) = OB!After(0, 0, items, m - 1) + w[m]
  BY <1>3 DEF OB!Sums
<1>5. n \in 0..n
  BY <1>1
<1>6. QED
  BY <1>1, <1>4, <1>5, BytesIs DEF Sized, n

LEMMA BytesOfNone == Bytes(<<>>) = 0
<1>1. <<>> \in Seq(Item) /\ Len(<<>>) = 0
  OBVIOUS
<1>2. QED
  BY <1>1, BytesSum

\* One more item.
LEMMA BytesMore ==
  ASSUME NEW items \in Seq(Item), NEW it \in Item
  PROVE  Bytes(Append(items, it)) = Bytes(items) + Size[it.id]
<1> DEFINE q == Append(items, it)
           n == Len(items)
<1>1. q \in Seq(Item) /\ Len(q) = n + 1 /\ q[n + 1] = it /\ \A i \in 1..n : q[i] = items[i]
  OBVIOUS
<1>2. n \in Nat /\ n + 1 \in 1..(n + 1) /\ n \in 0..(n + 1) /\ (n + 1) - 1 = n /\ DOMAIN items = 1..n
  BY ItemsOf
<1> HIDE DEF q, n
<1>3. DOMAIN q = 1..(n + 1)
  BY <1>1
<1>4. OB!Value(0, 0, items) = OB!After(0, 0, q, n)
  <2>1. n + 1 \in Nat /\ \A i \in 1..n : items[i] = q[i]
    BY <1>1, <1>2
  <2>2. QED
    BY <1>2, <1>3, <2>1, OB!Prefix
<1>5. Bytes(q) = Sized(q, n + 1) /\ Sized(q, n + 1) = Sized(q, n) + Size[q[n + 1].id]
  BY <1>1, <1>2, BytesSum
<1>6. Bytes(items) = Sized(q, n)
  BY <1>4, BytesIs DEF Sized
<1>7. QED
  BY <1>1, <1>5, <1>6 DEF q

\* filter(): what is left is in order, and no longer.
LEMMA OnlyFits ==
  ASSUME NEW items \in Seq(Item), NEW S, NEW r, r = Only(items, S)
  PROVE  /\ r \in Seq(Item) /\ (InOrder(items) => InOrder(r))
         /\ \A i \in DOMAIN r : r[i] \in S /\ \E j \in DOMAIN items : r[i] = items[j]
         /\ \A j \in DOMAIN items : items[j] \in S => \E i \in DOMAIN r : r[i] = items[j]
         /\ Bytes(r) <= Bytes(items)
<1> DEFINE n == Len(items)
<1>1. r = OO!Value(S, <<>>, items)
  BY DEF Only, FoldLeft, MapThenFoldSet, OO!Value, OO!FoldOf, OO!Folds, OO!Max, Max, Keeps
<1>2. \A q \in Seq(Item), x \in Item : Keeps(S, q, x) = IF x \in S THEN Append(q, x) ELSE q
  BY DEF Keeps
<1>3. /\ OO!Value(S, <<>>, items) \in Seq(Item)
      /\ \E f : OO!Picked(S, items, n, OO!Value(S, <<>>, items), f)
  BY <1>2, OO!Picks
<1>4. r \in Seq(Item) /\ \E f : OO!Picked(S, items, n, r, f)
  BY <1>1, <1>3
<1>5. PICK f : OO!Picked(S, items, n, r, f)
  BY <1>4
<1>6. n \in Nat /\ DOMAIN items = 1..n /\ DOMAIN r = 1..Len(r) /\ Len(r) \in Nat
  BY <1>4, ItemsOf
<1>7. /\ f \in [1..Len(r) -> 1..n]
      /\ \A i \in 1..Len(r) : r[i] = items[f[i]] /\ items[f[i]] \in S
      /\ \A i, j \in 1..Len(r) : i < j => f[i] < f[j]
      /\ \A p \in 1..n : items[p] \in S => \E i \in 1..Len(r) : f[i] = p
  BY <1>5 DEF OO!Picked
<1> HIDE DEF n
<1>8. \A i \in DOMAIN r : r[i] \in S /\ \E j \in DOMAIN items : r[i] = items[j]
  BY <1>6, <1>7
<1>9. \A j \in DOMAIN items : items[j] \in S => \E i \in DOMAIN r : r[i] = items[j]
  BY <1>6, <1>7
<1>10. Len(r) <= n
  <2> DEFINE l == Len(r)
             H == {m \in 0..l : m > 0 => f[m] >= m}
  <2>1. l \in Nat /\ f \in [1..l -> 1..n] /\ \A i, j \in 1..l : i < j => f[i] < f[j]
    BY <1>6, <1>7
  <2> HIDE DEF l
  <2>2. 0 \in H
    BY <2>1
  <2>3. ASSUME NEW m \in 0..(l - 1), m \in H PROVE m + 1 \in H
    <3>1. m + 1 \in 1..l /\ m + 1 \in 0..l /\ f[m + 1] \in 1..n
      BY <2>1
    <3>2. CASE m = 0
      BY <1>6, <3>1, <3>2
    <3>3. CASE m > 0
      <4>1. m \in 1..l /\ f[m] \in 1..n /\ f[m] >= m
        BY <2>1, <2>3, <3>3
      <4>2. f[m] < f[m + 1]
        BY <2>1, <3>1, <4>1
      <4>3. f[m + 1] >= m + 1
        BY <1>6, <3>1, <4>1, <4>2
      <4>4. QED
        BY <3>1, <4>3
    <3>4. QED
      BY <2>1, <3>2, <3>3
  <2>4. 0..l \subseteq H
    <3> HIDE DEF H
    <3>1. QED
      BY <2>1, <2>2, <2>3, OO!UpTo
  <2>5. l \in H
    BY <2>1, <2>4
  <2>6. CASE l > 0
    <3>1. f[l] \in 1..n /\ f[l] >= l
      BY <2>1, <2>5, <2>6
    <3>2. QED
      BY <1>6, <2>1, <3>1 DEF l
  <2>7. QED
    BY <1>6, <2>1, <2>6 DEF l
<1>11. ASSUME InOrder(items) PROVE InOrder(r)
  <2>1. Len(r) <= MaxPerRecipient
    BY <1>6, <1>10, <1>11, LimitsAreNumbers DEF InOrder, n
  <2>2. \A i \in 1..Len(r) : f[i] \in 1..n /\ r[i] = items[f[i]]
    BY <1>7
  <2>3. \A i \in DOMAIN r : Size[r[i].id] <= MaxBlob
    BY <1>6, <1>11, <2>2 DEF InOrder
  <2>4. Ordered(r)
    <3> SUFFICES ASSUME NEW i \in 1..Len(r), NEW j \in 1..Len(r), i < j
                 PROVE  r[i].at <= r[j].at /\ r[i].id # r[j].id
      BY <1>6 DEF Ordered
    <3>1. f[i] < f[j] /\ f[i] \in DOMAIN items /\ f[j] \in DOMAIN items
      BY <1>6, <1>7
    <3>2. items[f[i]].at <= items[f[j]].at /\ items[f[i]].id # items[f[j]].id
      BY <1>11, <3>1 DEF InOrder, Ordered
    <3>3. QED
      BY <2>2, <3>2
  <2>5. QED
    BY <2>1, <2>3, <2>4 DEF InOrder
<1>12. Bytes(r) <= Bytes(items)
  <2> DEFINE A(m) == OO!After(S, <<>>, items, m)
             H == {m \in 0..n : A(m) \in Seq(Item) /\ Bytes(A(m)) <= Sized(items, m)}
  <2>1. A(0) = <<>> /\ \A m \in 1..n : A(m) = IF items[m] \in S THEN Append(A(m - 1), items[m]) ELSE A(m - 1)
    <3>1. A(0) = <<>>
      BY <1>6, OO!Start
    <3>2. ASSUME NEW m \in 1..n
          PROVE  A(m) = IF items[m] \in S THEN Append(A(m - 1), items[m]) ELSE A(m - 1)
      <4>1. A(m) = Keeps(S, A(m - 1), items[m])
        BY <1>6, OO!Steps
      <4>2. QED
        BY <4>1 DEF Keeps
    <3>3. QED
      BY <3>1, <3>2
  <2>2. r = A(n)
    BY <1>1, <1>6, OO!Whole
  <2> HIDE DEF A
  <2>3. /\ Bytes(items) \in Nat /\ Sized(items, 0) = 0 /\ Bytes(items) = Sized(items, n)
        /\ \A m \in 0..n : Sized(items, m) \in Nat
        /\ \A m \in 1..n : Sized(items, m) = Sized(items, m - 1) + Size[items[m].id]
    BY BytesSum DEF n
  <2>4. 0 \in H
    <3> HIDE DEF H
    <3>a. <<>> \in Seq(Item)
      OBVIOUS
    <3>1. A(0) \in Seq(Item) /\ Bytes(A(0)) = 0
      BY <2>1, <3>a, BytesOfNone, Zenon
    <3> USE DEF H
    <3>2. QED
      BY <1>6, <2>3, <3>1
  <2>5. ASSUME NEW m \in 0..(n - 1), m \in H PROVE m + 1 \in H
    <3>1. m + 1 \in 1..n /\ m + 1 \in 0..n /\ m \in 0..n /\ (m + 1) - 1 = m
      BY <1>6
    <3>2. items[m + 1] \in Item /\ Size[items[m + 1].id] \in Nat
      BY <3>1, ItemsOf DEF n
    <3>3. A(m) \in Seq(Item) /\ Bytes(A(m)) <= Sized(items, m)
      BY <2>5
    <3>4. /\ Bytes(A(m)) \in Nat /\ Sized(items, m) \in Nat
          /\ Sized(items, m + 1) = Sized(items, m) + Size[items[m + 1].id]
      BY <2>3, <3>1, <3>3, BytesSum
    <3>5. CASE items[m + 1] \in S
      <4>1. A(m + 1) = Append(A(m), items[m + 1])
        BY <2>1, <3>1, <3>5
      <4>2. A(m + 1) \in Seq(Item)
        BY <3>2, <3>3, <4>1
      <4>3. Bytes(A(m + 1)) = Bytes(A(m)) + Size[items[m + 1].id]
        BY <3>2, <3>3, <4>1, BytesMore
      <4>4. Bytes(A(m + 1)) <= Sized(items, m + 1)
        BY <3>2, <3>3, <3>4, <4>3
      <4>5. QED
        BY <3>1, <4>2, <4>4
    <3>6. CASE items[m + 1] \notin S
      <4>1. A(m + 1) = A(m)
        BY <2>1, <3>1, <3>6
      <4>2. Bytes(A(m + 1)) <= Sized(items, m + 1)
        BY <3>2, <3>3, <3>4, <4>1
      <4>3. QED
        BY <3>1, <3>3, <4>1, <4>2
    <3>7. QED
      BY <3>5, <3>6
  <2>6. 0..n \subseteq H
    <3> HIDE DEF H
    <3>1. QED
      BY <1>6, <2>4, <2>5, OO!UpTo
  <2>7. n \in H
    BY <1>6, <2>6
  <2>8. QED
    BY <2>2, <2>3, <2>7
<1>13. QED
  BY <1>4, <1>8, <1>9, <1>11, <1>12

-----------------------------------------------------------------------------
(* Boxes.                                                                  *)

OS == INSTANCE Folding WITH Op <- LAMBDA k, n, x : n + k[x]

LEMMA SumIs == ASSUME NEW S, NEW g PROVE SumOver(S, g) = OS!SetSum(g, S)
<1>1. SetToSeq(S) = OS!SetToSeq(S)
  BY DEF SetToSeq, OS!SetToSeq, IsInjective, OS!IsInjective, Cardinality, OS!Cardinality
<1> DEFINE q == SetToSeq(S)
<1>2. FoldLeft(LAMBDA n, x : n + g[x], 0, q) = OS!Value(g, 0, q)
  <2> HIDE DEF q
  <2>1. QED
    BY DEF FoldLeft, MapThenFoldSet, OS!Value, OS!FoldOf, OS!Folds, OS!Max, Max
<1>3. QED
  BY <1>1, <1>2 DEF SumOver, OS!SetSum

LEMMA Counted ==
  ASSUME NEW b
  PROVE  IsFiniteSet(Recs(b)) /\ OS!IsFiniteSet(Recs(b)) /\ Cardinality(Recs(b)) \in Nat
<1>1. IsFiniteSet(Recs(b))
  BY FpsAssumption, FS_Subset DEF Recs
<1>2. QED
  BY <1>1, FS_CardinalityType DEF OS!IsFiniteSet, IsFiniteSet

LEMMA InBox ==
  ASSUME NEW b \in Boxes, NEW fp \in Recs(b)
  PROVE  /\ fp \in Fps /\ b[fp] # None /\ b[fp] \in Box /\ b[fp].seen \in Times
         /\ b[fp].items \in Seq(Item) /\ Bytes(b[fp].items) \in Nat
<1>1. fp \in Fps /\ b[fp] # None /\ b[fp] \in Box
  BY DEF Boxes, Recs
<1>2. b[fp].seen \in Times /\ b[fp].items \in Seq(Item)
  BY <1>1, BoxIs
<1>3. QED
  BY <1>1, <1>2, BytesSum

LEMMA TotalIsNat == ASSUME NEW b \in Boxes PROVE Total(b) \in Nat
<1> DEFINE S == Recs(b)
           g == [fp \in S |-> Bytes(b[fp].items)]
<1>1. \A y \in S : g[y] \in Nat
  BY InBox
<1>2. OS!IsFiniteSet(S)
  BY Counted
<1>3. Total(b) = OS!SetSum(g, S)
  BY SumIs DEF Total
<1> HIDE DEF S, g
<1>4. OS!AddsOver(g, S)
  BY <1>1 DEF OS!AddsOver
<1>5. QED
  BY <1>2, <1>3, <1>4, OS!SumIsNat

LEMMA TotalOfNone == ASSUME NEW b, Recs(b) = {} PROVE Total(b) = 0
  BY SumIs, OS!SumOfNone DEF Total

Having(b, fp, x) == [b EXCEPT ![fp] = x]

\* A box that goes takes its bytes with it.
LEMMA Leaves ==
  ASSUME NEW b \in Boxes, NEW fp \in Recs(b), NEW c, c = Having(b, fp, None)
  PROVE  /\ c \in Boxes /\ Recs(c) = Recs(b) \ {fp}
         /\ Cardinality(Recs(b)) = Cardinality(Recs(c)) + 1
         /\ Total(b) = Total(c) + Bytes(b[fp].items)
<1> DEFINE S == Recs(b)
           g == [x \in S |-> Bytes(b[x].items)]
           h == [x \in Recs(c) |-> Bytes(c[x].items)]
<1>1. c \in Boxes
  BY DEF Boxes, Having
<1>2. Recs(c) = S \ {fp}
  BY DEF Boxes, Recs, Having
<1>3. \A x \in S \ {fp} : c[x] = b[x]
  BY DEF Boxes, Recs, Having
<1>4. g[fp] = Bytes(b[fp].items)
  OBVIOUS
<1>5. ASSUME NEW x \in S \ {fp} PROVE h[x] = g[x]
  <2>1. x \in Recs(c) /\ x \in S /\ c[x] = b[x]
    BY <1>2, <1>3
  <2> HIDE DEF S
  <2>2. h[x] = Bytes(c[x].items) /\ g[x] = Bytes(b[x].items)
    BY <2>1
  <2> HIDE DEF g, h
  <2>3. QED
    BY <2>1, <2>2
<1>6. \A y \in S : g[y] \in Nat
  BY InBox
<1>7. OS!IsFiniteSet(S) /\ IsFiniteSet(S) /\ Cardinality(S) \in Nat
  BY Counted
<1>8. Total(b) = OS!SetSum(g, S) /\ Total(c) = OS!SetSum(h, S \ {fp})
  BY <1>2, SumIs DEF Total
<1> HIDE DEF S, g, h
<1>9. OS!AddsOver(g, S)
  BY <1>6 DEF OS!AddsOver
<1>10. fp \in S
  BY DEF S
<1>11. OS!SetSum(g, S) = OS!SetSum(h, S \ {fp}) + g[fp]
  <2>1. \A n \in Nat, y \in S \ {fp} : n + h[y] = n + h[y]
    OBVIOUS
  <2>2. QED
    BY <1>5, <1>7, <1>9, <1>10, <2>1, OS!SumLeftOut
<1>12. Cardinality(S) = Cardinality(S \ {fp}) + 1
  <2>1. /\ IsFiniteSet(S \ {fp})
        /\ Cardinality(S \ {fp}) = IF fp \in S THEN Cardinality(S) - 1 ELSE Cardinality(S)
    BY <1>7, FS_RemoveElement, Zenon
  <2>2. QED
    BY <1>7, <1>10, <2>1
<1>13. QED
  BY <1>1, <1>2, <1>4, <1>8, <1>11, <1>12 DEF S

LEMMA LeavesGood ==
  ASSUME NEW b, Good(b), NEW fp \in Recs(b), NEW c, c = Having(b, fp, None)
  PROVE  /\ Good(c) /\ Total(c) = Total(b) - Bytes(b[fp].items)
         /\ Cardinality(Recs(c)) < MaxRecipients
         /\ Total(c) + Bytes(b[fp].items) <= MaxTotal
<1>1. b \in Boxes
  BY DEF Good
<1>2. /\ c \in Boxes /\ Recs(c) = Recs(b) \ {fp}
      /\ Cardinality(Recs(b)) = Cardinality(Recs(c)) + 1
      /\ Total(b) = Total(c) + Bytes(b[fp].items)
  BY <1>1, Leaves
<1>3. /\ Total(b) \in Nat /\ Total(c) \in Nat /\ Bytes(b[fp].items) \in Nat
      /\ Cardinality(Recs(b)) \in Nat /\ Cardinality(Recs(c)) \in Nat
  BY <1>1, <1>2, TotalIsNat, InBox, Counted
<1>a. Total(b) <= MaxTotal /\ Cardinality(Recs(b)) <= MaxRecipients
  BY DEF Good
<1>4. Total(c) = Total(b) - Bytes(b[fp].items) /\ Total(c) <= MaxTotal /\ Cardinality(Recs(c)) < MaxRecipients
  BY <1>2, <1>3, <1>a, LimitsAreNumbers
<1>5. \A x \in Recs(c) : InOrder(c[x].items)
  <2>1. \A x \in Recs(c) : x \in Recs(b) /\ c[x] = b[x]
    BY <1>1, <1>2 DEF Boxes, Recs, Having
  <2>2. QED
    BY <2>1 DEF Good
<1>6. Total(c) + Bytes(b[fp].items) <= MaxTotal
  BY <1>2 DEF Good
<1>7. Cardinality(Recs(c)) <= MaxRecipients
  BY <1>3, <1>4, LimitsAreNumbers
<1>8. QED
  BY <1>2, <1>4, <1>5, <1>6, <1>7 DEF Good

\* A box that comes brings its bytes.
LEMMA Comes ==
  ASSUME NEW b \in Boxes, NEW fp \in Fps, b[fp] = None, NEW x \in Box, NEW c, c = Having(b, fp, x)
  PROVE  /\ c \in Boxes /\ Recs(c) = Recs(b) \cup {fp} /\ c[fp] = x /\ b = Having(c, fp, None)
         /\ Cardinality(Recs(c)) = Cardinality(Recs(b)) + 1
         /\ Total(c) = Total(b) + Bytes(x.items)
<1>1. c \in Boxes /\ c[fp] = x /\ x # None
  BY NoneAssumption DEF Boxes, Having
<1>2. b = Having(c, fp, None)
  <2>1. c = [y \in Fps |-> IF y = fp THEN x ELSE b[y]] /\ b = [y \in Fps |-> b[y]]
    BY DEF Boxes, Having
  <2>2. QED
    BY <2>1 DEF Having
<1>3. Recs(c) = Recs(b) \cup {fp} /\ fp \in Recs(c)
  BY <1>1 DEF Boxes, Recs, Having
<1>4. /\ Cardinality(Recs(c)) = Cardinality(Recs(b)) + 1
      /\ Total(c) = Total(b) + Bytes(c[fp].items)
  BY <1>1, <1>2, <1>3, Leaves
<1>5. QED
  BY <1>1, <1>2, <1>3, <1>4

\* One box of b is changed or added, within the limits.
LEMMA Changes ==
  ASSUME NEW b, Good(b), NEW fp \in Fps, NEW x \in Box, InOrder(x.items), NEW c, c = Having(b, fp, x),
         NEW n \in Int,
         IF b[fp] = None THEN n = Total(b) + Bytes(x.items) /\ Cardinality(Recs(b)) < MaxRecipients
                         ELSE n = Total(b) - Bytes(b[fp].items) + Bytes(x.items),
         n <= MaxTotal
  PROVE  Good(c) /\ Total(c) = n /\ n \in Nat
<1> DEFINE d == Having(b, fp, None)
<1>1. b \in Boxes
  BY DEF Good
<1>2. d \in Boxes /\ d[fp] = None
  BY <1>1 DEF Boxes, Having
<1>3. c = Having(d, fp, x)
  <2>1. b = [y \in Fps |-> b[y]]
    BY <1>1 DEF Boxes
  <2>2. QED
    BY <2>1 DEF Having
<1>4. /\ Total(d) = IF b[fp] = None THEN Total(b) ELSE Total(b) - Bytes(b[fp].items)
      /\ Good(d) /\ Cardinality(Recs(d)) < MaxRecipients
  <2>1. CASE b[fp] = None
    <3>1. d = b
      <4>1. b = [y \in Fps |-> b[y]]
        BY <1>1 DEF Boxes
      <4>2. QED
        BY <2>1, <4>1 DEF Having
    <3>2. QED
      BY <2>1, <3>1
  <2>2. CASE b[fp] # None
    <3>1. fp \in Recs(b)
      BY <2>2 DEF Recs
    <3> HIDE DEF d
    <3>2. Good(d) /\ Total(d) = Total(b) - Bytes(b[fp].items) /\ Cardinality(Recs(d)) < MaxRecipients
      BY <3>1, LeavesGood DEF d
    <3>3. QED
      BY <2>2, <3>2
  <2>3. QED
    BY <2>1, <2>2
<1> HIDE DEF d
<1>5. /\ c \in Boxes /\ Recs(c) = Recs(d) \cup {fp} /\ c[fp] = x
      /\ Cardinality(Recs(c)) = Cardinality(Recs(d)) + 1
      /\ Total(c) = Total(d) + Bytes(x.items)
  BY <1>2, <1>3, Comes
<1>6. Total(c) = n
  <2>1. CASE b[fp] = None
    BY <1>4, <1>5, <2>1
  <2>2. CASE b[fp] # None
    BY <1>4, <1>5, <2>2
  <2>3. QED
    BY <2>1, <2>2
<1>7. \A y \in Recs(c) : InOrder(c[y].items)
  <2>1. \A y \in Recs(c) : y = fp \/ (y \in Recs(d) /\ c[y] = d[y])
    BY <1>2, <1>3, <1>5 DEF Boxes, Recs, Having
  <2>2. QED
    BY <1>4, <1>5, <2>1 DEF Good
<1>8. Cardinality(Recs(c)) <= MaxRecipients
  BY <1>4, <1>5, Counted, LimitsAreNumbers
<1>9. QED
  BY <1>5, <1>6, <1>7, <1>8, TotalIsNat DEF Good

-----------------------------------------------------------------------------
(* The operations of the store.                                            *)

StoreOf(b, n) == [box |-> b, bytes |-> n]

LEMMA StoreIs ==
  ASSUME NEW u, Stored(u)
  PROVE  u = StoreOf(u.box, u.bytes) /\ u.box \in Boxes /\ Good(u.box) /\ u.bytes = Total(u.box) /\ u.bytes \in Nat
<1>1. u \in [box : Boxes, bytes : Nat]
  BY DEF Stored
<1>2. u = [box |-> u.box, bytes |-> u.bytes]
  BY <1>1
<1>3. QED
  BY <1>1, <1>2 DEF Stored, StoreOf

LEMMA StoredOf ==
  ASSUME NEW b, Good(b), NEW n, n = Total(b), n \in Nat
  PROVE  Stored(StoreOf(b, n)) /\ StoreOf(b, n).box = b
<1>1. b \in Boxes
  BY DEF Good
<1>2. StoreOf(b, n) \in [box : Boxes, bytes : Nat] /\ StoreOf(b, n).box = b /\ StoreOf(b, n).bytes = n
  BY <1>1 DEF StoreOf
<1>3. QED
  BY <1>2 DEF Stored

\* c is b with other mail, or none, for fp.
LEMMA HavingOthers ==
  ASSUME NEW b \in Boxes, NEW fp \in Fps, NEW x
  PROVE  Having(b, fp, x)[fp] = x /\ \A q \in Fps : q # fp => Having(b, fp, x)[q] = b[q]
  BY DEF Having, Boxes

LEMMA ChangesStored ==
  ASSUME NEW u, Stored(u), NEW fp \in Fps, NEW x \in Box, InOrder(x.items), NEW n \in Int,
         IF u.box[fp] = None THEN n = u.bytes + Bytes(x.items) /\ Cardinality(Recs(u.box)) < MaxRecipients
                             ELSE n = u.bytes - Bytes(u.box[fp].items) + Bytes(x.items),
         n <= MaxTotal, NEW v, v = StoreOf(Having(u.box, fp, x), n)
  PROVE  /\ Stored(v) /\ v.box[fp] = x /\ x # None
         /\ \A q \in Fps : q # fp => v.box[q] = u.box[q]
<1> DEFINE c == Having(u.box, fp, x)
<1>1. Good(u.box) /\ u.bytes = Total(u.box) /\ u.box \in Boxes
  BY StoreIs
<1>2. Good(c) /\ Total(c) = n /\ n \in Nat
  BY <1>1, Changes
<1>3. c[fp] = x /\ \A q \in Fps : q # fp => c[q] = u.box[q]
  BY <1>1, HavingOthers
<1> HIDE DEF c
<1>4. v = StoreOf(c, n)
  BY DEF c
<1>5. Stored(v) /\ v.box = c
  BY <1>2, <1>4, StoredOf
<1>6. QED
  BY <1>3, <1>5, NoneAssumption

SameMail(u, v) ==
  /\ \A q \in Fps : u.box[q] # None => v.box[q] # None /\ v.box[q].items = u.box[q].items
  /\ \A q \in Fps : u.box[q] = None /\ v.box[q] # None => v.box[q].items = <<>>
NoNewBox(u, v) == \A q \in Fps : u.box[q] = None => v.box[q] = None

\* register(): as before, or seen again, or an empty box.
LEMMA Registers ==
  ASSUME NEW u, Stored(u), NEW fp \in Fps, NEW t \in Times, NEW v, v = Register(u, fp, t)
  PROVE  /\ Stored(v) /\ SameMail(u, v)
         /\ u.box[fp] # None => NoNewBox(u, v)
         /\ ~HasRoom(u, fp) => v = u
         /\ u.box[fp] = None /\ HasRoom(u, fp) => v = StoreOf(Having(u.box, fp, [seen |-> t, items |-> <<>>]), u.bytes)
<1>1. u = StoreOf(u.box, u.bytes) /\ u.box \in Boxes /\ Good(u.box) /\ u.bytes = Total(u.box) /\ u.bytes \in Nat
  BY StoreIs
<1>2. u.bytes <= MaxTotal
  BY <1>1 DEF Good
<1>3. CASE u.box[fp] # None
  <2> DEFINE at == IF t > u.box[fp].seen THEN t ELSE u.box[fp].seen
             x == [seen |-> at, items |-> u.box[fp].items]
  <2>1. u.box[fp] \in Box /\ u.box[fp].seen \in Times /\ u.box[fp].items \in Seq(Item) /\ fp \in Recs(u.box)
        /\ Bytes(u.box[fp].items) \in Nat
    <3>1. fp \in Recs(u.box)
      BY <1>3 DEF Recs
    <3>2. QED
      BY <1>1, <3>1, InBox
  <2>2. v = StoreOf(Having(u.box, fp, x), u.bytes)
    <3>1. Registered(u, fp)
      BY <1>3 DEF Registered
    <3>2. v = [u EXCEPT !.box[fp].seen = at]
      BY <3>1 DEF Register
    <3>3. [u.box[fp] EXCEPT !.seen = at] = x
      BY <2>1, BoxIs
    <3>4. v = StoreOf(Having(u.box, fp, [u.box[fp] EXCEPT !.seen = at]), u.bytes)
      <4> HIDE DEF at, x
      <4>1. QED
        BY <1>1, <3>2 DEF StoreOf, Having
    <3>5. QED
      BY <3>3, <3>4
  <2>3. x \in Box /\ x.items = u.box[fp].items
    <3>1. at \in Times
      BY <2>1
    <3> HIDE DEF at
    <3>2. QED
      BY <2>1, <3>1, BoxIs
  <2>4. InOrder(x.items)
    BY <1>1, <2>1, <2>3 DEF Good
  <2>5. u.bytes = u.bytes - Bytes(u.box[fp].items) + Bytes(x.items)
    BY <1>1, <2>1, <2>3
  <2> HIDE DEF x, at
  <2>6. /\ Stored(v) /\ v.box[fp] = x /\ x # None
        /\ \A q \in Fps : q # fp => v.box[q] = u.box[q]
    <3>1. u.bytes \in Int
      BY <1>1
    <3>2. QED
      BY <1>2, <1>3, <2>2, <2>3, <2>4, <2>5, <3>1, ChangesStored
  <2>7. HasRoom(u, fp)
    BY <1>3 DEF HasRoom, Registered
  <2>8. QED
    BY <1>3, <2>3, <2>6, <2>7 DEF SameMail, NoNewBox
<1>4. CASE u.box[fp] = None /\ HasRoom(u, fp)
  <2> DEFINE x == [seen |-> t, items |-> <<>>]
  <2>1. v = StoreOf(Having(u.box, fp, x), u.bytes)
    <3>1. ~Registered(u, fp)
      BY <1>4 DEF Registered
    <3>2. v = [u EXCEPT !.box[fp] = x]
      BY <1>4, <3>1 DEF Register
    <3> HIDE DEF x
    <3>3. QED
      BY <1>1, <3>2 DEF StoreOf, Having
  <2>2. x \in Box /\ x.items = <<>> /\ Len(<<>>) = 0
    BY BoxIs
  <2>3. InOrder(x.items)
    BY <2>2, LimitsAreNumbers DEF InOrder, Ordered
  <2>4. Cardinality(Recs(u.box)) < MaxRecipients
    BY <1>4 DEF HasRoom, Registered, Recipients, Recs
  <2>5. u.bytes = u.bytes + Bytes(x.items) /\ u.bytes \in Int
    BY <1>1, <2>2, BytesOfNone
  <2> HIDE DEF x
  <2>6. /\ Stored(v) /\ v.box[fp] = x /\ x # None
        /\ \A q \in Fps : q # fp => v.box[q] = u.box[q]
    BY <1>2, <1>4, <2>1, <2>2, <2>3, <2>4, <2>5, ChangesStored
  <2>7. QED
    BY <1>4, <2>1, <2>2, <2>6 DEF x, SameMail, NoNewBox
<1>5. CASE u.box[fp] = None /\ ~HasRoom(u, fp)
  <2>1. v = u
    BY <1>5 DEF Register, Registered
  <2>2. QED
    BY <1>5, <2>1 DEF SameMail, NoNewBox
<1>6. QED
  BY <1>3, <1>4, <1>5

\* One more item, where it fits.
LEMMA Deposits ==
  ASSUME NEW u, Stored(u), NEW fp \in Fps, NEW id \in Ids, NEW t \in Times,
         Takes(u, fp, id), ~Holds(u, fp, id),
         \A i \in DOMAIN u.box[fp].items : u.box[fp].items[i].at <= t, NEW v, v = Deposit(u, fp, id, t)
  PROVE  /\ Stored(v) /\ v.bytes = u.bytes + Size[id]
         /\ u.box[fp] # None /\ v.box[fp] # None
         /\ v.box[fp] = [seen |-> u.box[fp].seen, items |-> Append(u.box[fp].items, [id |-> id, at |-> t])]
         /\ v = StoreOf(Having(u.box, fp, v.box[fp]), u.bytes + Size[id])
         /\ \A q \in Fps : q # fp => v.box[q] = u.box[q]
<1> DEFINE items == u.box[fp].items
           it == [id |-> id, at |-> t]
           more == Append(items, it)
           x == [seen |-> u.box[fp].seen, items |-> more]
           n == u.bytes + Size[id]
<1>1. u = StoreOf(u.box, u.bytes) /\ u.box \in Boxes /\ Good(u.box) /\ u.bytes = Total(u.box) /\ u.bytes \in Nat
  BY StoreIs
<1>2. u.box[fp] # None /\ fp \in Recs(u.box)
  BY DEF Takes, Registered, Recs
<1>3. u.box[fp] \in Box /\ u.box[fp].seen \in Times /\ items \in Seq(Item) /\ Bytes(items) \in Nat
  BY <1>1, <1>2, InBox
<1>4. Size[id] \in Nat /\ it \in Item /\ it.id = id /\ it.at = t
  BY SizeAssumption DEF Item
<1>5. Size[id] <= MaxBlob /\ Len(items) < MaxPerRecipient /\ n <= MaxTotal
  BY DEF Takes, Fits
<1>6. \A i \in DOMAIN items : items[i].id # id
  <2>1. ~(\E y \in ToSet(items) : y.id = id)
    BY <1>2 DEF Holds, Registered
  <2>2. QED
    BY <2>1 DEF ToSet
<1>7. v = [box |-> [u.box EXCEPT ![fp].items = Append(@, it)], bytes |-> n]
  BY DEF Deposit
<1>8. [u.box[fp] EXCEPT !.items = more] = x
  <2> HIDE DEF more
  <2>1. QED
    BY <1>3, BoxIs
<1>9. v = StoreOf(Having(u.box, fp, [u.box[fp] EXCEPT !.items = more]), n)
  <2>1. [u.box EXCEPT ![fp].items = Append(@, it)] = [u.box EXCEPT ![fp] = [u.box[fp] EXCEPT !.items = more]]
    <3> HIDE DEF it
    <3>1. QED
      BY <1>1 DEF Boxes
  <2> HIDE DEF it, more, n
  <2>2. QED
    BY <1>7, <2>1 DEF StoreOf, Having
<1>10. Bytes(more) = Bytes(items) + Size[id] /\ more \in Seq(Item)
  <2> HIDE DEF items, it
  <2>1. Bytes(Append(items, it)) = Bytes(items) + Size[it.id]
    BY <1>3, <1>4, BytesMore
  <2>2. QED
    BY <1>3, <1>4, <2>1
<1>11. /\ Len(more) = Len(items) + 1 /\ more[Len(items) + 1] = it
       /\ \A i \in 1..Len(items) : more[i] = items[i]
       /\ DOMAIN items = 1..Len(items) /\ DOMAIN more = 1..(Len(items) + 1) /\ Len(items) \in Nat
  <2> HIDE DEF items, it
  <2>1. QED
    BY <1>3, <1>4
<1>12. \A i \in DOMAIN items : items[i].at <= t
  OBVIOUS
<1>13. InOrder(items)
  BY <1>1, <1>2 DEF Good
<1> HIDE DEF more, it, items, n
<1>14. InOrder(more)
  <2>1. \A i \in DOMAIN more : i = Len(items) + 1 \/ i \in DOMAIN items
    BY <1>11
  <2>2. \A i \in DOMAIN more : Size[more[i].id] <= MaxBlob
    BY <1>4, <1>5, <1>11, <1>13, <2>1 DEF InOrder
  <2>3. ASSUME NEW i \in DOMAIN more, NEW j \in DOMAIN more, i < j
        PROVE  more[i].at <= more[j].at /\ more[i].id # more[j].id
    <3>1. i \in DOMAIN items /\ more[i] = items[i]
      BY <1>11, <2>1, <2>3
    <3>2. CASE j \in DOMAIN items
      BY <1>11, <1>13, <2>3, <3>1, <3>2 DEF InOrder, Ordered
    <3>3. CASE j = Len(items) + 1
      BY <1>4, <1>6, <1>11, <1>12, <3>1, <3>3
    <3>4. QED
      BY <2>1, <3>2, <3>3
  <2>4. Ordered(more)
    BY <2>3 DEF Ordered
  <2>5. Len(more) <= MaxPerRecipient
    BY <1>5, <1>11, LimitsAreNumbers
  <2>6. QED
    BY <2>2, <2>4, <2>5 DEF InOrder
<1>15. x \in Box /\ x.items = more
  BY <1>3, <1>10, BoxIs
<1>16. n \in Int /\ n = u.bytes - Bytes(items) + Bytes(x.items)
  BY <1>1, <1>3, <1>4, <1>10, <1>15 DEF n
<1>17. v = StoreOf(Having(u.box, fp, x), n)
  BY <1>8, <1>9
<1>18. x = [seen |-> u.box[fp].seen, items |-> more]
  OBVIOUS
<1> HIDE DEF x
<1>19. /\ Stored(v) /\ v.box[fp] = x /\ x # None
       /\ \A q \in Fps : q # fp => v.box[q] = u.box[q]
  BY <1>2, <1>5, <1>14, <1>15, <1>16, <1>17, ChangesStored DEF items
<1>20. v.bytes = n
  BY <1>17 DEF StoreOf
<1>21. QED
  BY <1>2, <1>17, <1>18, <1>19, <1>20 DEF n, more, items, it

\* Nothing in c that b does not hold.
Less(b, c) ==
  \A q \in Recs(c) : q \in Recs(b) /\ \A i \in DOMAIN c[q].items : c[q].items[i] \in ToSet(b[q].items)

LEMMA LessIsPast == ASSUME NEW b, NEW c, NEW t, Past(b, t), Less(b, c) PROVE Past(c, t)
<1> SUFFICES ASSUME NEW q \in Recs(c), NEW i \in DOMAIN c[q].items PROVE c[q].items[i].at <= t
  BY DEF Past
<1>1. q \in Recs(b) /\ c[q].items[i] \in ToSet(b[q].items)
  BY DEF Less
<1>2. PICK j \in DOMAIN b[q].items : c[q].items[i] = b[q].items[j]
  BY <1>1 DEF ToSet
<1>3. QED
  BY <1>1, <1>2 DEF Past

\* ack() and the mail that is due: nothing leaves but what is named.
LEMMA Withouts ==
  ASSUME NEW u, Stored(u), NEW fp \in Fps, u.box[fp] # None, NEW ids, NEW v, v = Without(u, fp, ids)
  PROVE  /\ Stored(v) /\ Less(u.box, v.box)
         /\ \A q \in Fps : q # fp => v.box[q] = u.box[q]
         /\ v.box[fp] # None /\ v.box[fp].seen = u.box[fp].seen
         /\ \A it \in ToSet(v.box[fp].items) : it \in ToSet(u.box[fp].items)
         /\ \A it \in ToSet(u.box[fp].items) : it.id \notin ids => it \in ToSet(v.box[fp].items)
<1> DEFINE items == u.box[fp].items
           S == {it \in ToSet(items) : it.id \notin ids}
           left == Only(items, S)
           x == [seen |-> u.box[fp].seen, items |-> left]
           n == u.bytes - Bytes(items) + Bytes(left)
<1>1. u = StoreOf(u.box, u.bytes) /\ u.box \in Boxes /\ Good(u.box) /\ u.bytes = Total(u.box) /\ u.bytes \in Nat
  BY StoreIs
<1>2. fp \in Recs(u.box)
  BY DEF Recs
<1>3. u.box[fp] \in Box /\ u.box[fp].seen \in Times /\ items \in Seq(Item) /\ Bytes(items) \in Nat
  BY <1>1, <1>2, InBox
<1>4. InOrder(items) /\ u.bytes <= MaxTotal
  BY <1>1, <1>2 DEF Good
<1>5. v = [box |-> [u.box EXCEPT ![fp].items = left], bytes |-> n]
  BY DEF Without
<1>6. \A it \in ToSet(items) : it.id \notin ids => it \in S
  OBVIOUS
<1>7. \A it \in S : it \in ToSet(items)
  OBVIOUS
<1> HIDE DEF S, items
<1>8. /\ left \in Seq(Item) /\ InOrder(left) /\ Bytes(left) <= Bytes(items)
      /\ \A i \in DOMAIN left : left[i] \in S
      /\ \A j \in DOMAIN items : items[j] \in S => \E i \in DOMAIN left : left[i] = items[j]
  BY <1>3, <1>4, OnlyFits
<1> HIDE DEF left
<1>9. Bytes(left) \in Nat
  BY <1>8, BytesSum
<1>10. n \in Int /\ n <= MaxTotal
  BY <1>1, <1>3, <1>4, <1>8, <1>9, LimitsAreNumbers
<1>11. x \in Box /\ x.items = left
  BY <1>3, <1>8, BoxIs
<1>12. v = StoreOf(Having(u.box, fp, x), n)
  <2>1. [u.box[fp] EXCEPT !.items = left] = x
    BY <1>3, BoxIs
  <2>2. [u.box EXCEPT ![fp].items = left] = [u.box EXCEPT ![fp] = [u.box[fp] EXCEPT !.items = left]]
    BY <1>1 DEF Boxes
  <2> HIDE DEF n, x
  <2>3. QED
    BY <1>5, <2>1, <2>2 DEF StoreOf, Having
<1>13. x.seen = u.box[fp].seen
  OBVIOUS
<1>14. n = u.bytes - Bytes(u.box[fp].items) + Bytes(x.items)
  BY DEF items
<1> HIDE DEF x, n
<1>15. /\ Stored(v) /\ v.box[fp] = x /\ x # None
       /\ \A q \in Fps : q # fp => v.box[q] = u.box[q]
  BY <1>8, <1>10, <1>11, <1>12, <1>14, ChangesStored
<1>16. \A it \in ToSet(left) : it \in ToSet(items)
  BY <1>7, <1>8 DEF ToSet
<1>17. \A it \in ToSet(items) : it.id \notin ids => it \in ToSet(left)
  <2> SUFFICES ASSUME NEW it \in ToSet(items), it.id \notin ids PROVE it \in ToSet(left)
    OBVIOUS
  <2>1. it \in S
    BY <1>6
  <2>2. PICK j \in DOMAIN items : it = items[j]
    BY DEF ToSet
  <2>3. QED
    BY <1>8, <2>1, <2>2 DEF ToSet
<1>18. Less(u.box, v.box)
  <2> SUFFICES ASSUME NEW q \in Recs(v.box)
               PROVE  q \in Recs(u.box) /\ \A i \in DOMAIN v.box[q].items : v.box[q].items[i] \in ToSet(u.box[q].items)
    BY DEF Less
  <2>1. q \in Fps /\ v.box[q] # None
    BY DEF Recs
  <2>2. CASE q = fp
    <3>1. \A i \in DOMAIN left : left[i] \in ToSet(items)
      BY <1>7, <1>8
    <3>2. QED
      BY <1>2, <1>11, <1>15, <2>2, <3>1 DEF items
  <2>3. CASE q # fp
    <3>1. v.box[q] = u.box[q]
      BY <1>15, <2>1, <2>3
    <3>2. QED
      BY <2>1, <3>1 DEF Recs, ToSet
  <2>4. QED
    BY <2>2, <2>3
<1>19. QED
  BY <1>11, <1>13, <1>15, <1>16, <1>17, <1>18 DEF items

LEMMA Unregisters ==
  ASSUME NEW u, Stored(u), NEW fp \in Fps, u.box[fp] # None, NEW v, v = Unregister(u, fp)
  PROVE  /\ Stored(v) /\ Less(u.box, v.box)
         /\ \A q \in Fps : q # fp => v.box[q] = u.box[q]
<1> DEFINE c == Having(u.box, fp, None)
           n == u.bytes - Bytes(u.box[fp].items)
<1>1. u = StoreOf(u.box, u.bytes) /\ u.box \in Boxes /\ Good(u.box) /\ u.bytes = Total(u.box) /\ u.bytes \in Nat
  BY StoreIs
<1>2. fp \in Recs(u.box)
  BY DEF Recs
<1>3. v = StoreOf(c, n)
  BY DEF Unregister, StoreOf, Having
<1>4. c[fp] = None /\ \A q \in Fps : q # fp => c[q] = u.box[q]
  BY <1>1, HavingOthers
<1>5. c = Having(u.box, fp, None)
  OBVIOUS
<1> HIDE DEF c
<1>6. Good(c) /\ Total(c) = n
  BY <1>1, <1>2, <1>5, LeavesGood
<1>7. n \in Nat
  <2>1. c \in Boxes
    BY <1>6 DEF Good
  <2>2. QED
    BY <1>6, <2>1, TotalIsNat
<1> HIDE DEF n
<1>8. Stored(v) /\ v.box = c
  BY <1>3, <1>6, <1>7, StoredOf
<1>9. Less(u.box, v.box)
  <2> SUFFICES ASSUME NEW q \in Recs(c)
               PROVE  q \in Recs(u.box) /\ \A i \in DOMAIN c[q].items : c[q].items[i] \in ToSet(u.box[q].items)
    BY <1>8 DEF Less
  <2>1. q \in Fps /\ c[q] # None /\ c[q] = u.box[q]
    BY <1>4 DEF Recs
  <2>2. QED
    BY <2>1 DEF Recs, ToSet
<1>10. QED
  BY <1>4, <1>8, <1>9

-----------------------------------------------------------------------------
(* prune().                                                                *)

LEMMA LessOver ==
  ASSUME NEW b, NEW c, NEW d, Less(b, c), Less(c, d)
  PROVE  Less(b, d)
<1> SUFFICES ASSUME NEW q \in Recs(d)
             PROVE  q \in Recs(b) /\ \A i \in DOMAIN d[q].items : d[q].items[i] \in ToSet(b[q].items)
  BY DEF Less
<1>1. q \in Recs(c) /\ q \in Recs(b)
  BY DEF Less
<1>2. ASSUME NEW i \in DOMAIN d[q].items PROVE d[q].items[i] \in ToSet(b[q].items)
  <2>1. d[q].items[i] \in ToSet(c[q].items)
    BY DEF Less
  <2>2. PICK j \in DOMAIN c[q].items : d[q].items[i] = c[q].items[j]
    BY <2>1 DEF ToSet
  <2>3. c[q].items[j] \in ToSet(b[q].items)
    BY <1>1 DEF Less
  <2>4. QED
    BY <2>2, <2>3
<1>3. QED
  BY <1>1, <1>2

LEMMA LessSame == ASSUME NEW b PROVE Less(b, b)
  BY DEF Less, ToSet

LEMMA PrunesBox ==
  ASSUME NEW u, Stored(u), NEW fp \in Fps, NEW t, NEW v, v = PruneBox(u, fp, t)
  PROVE  /\ Stored(v) /\ Less(u.box, v.box)
         /\ \A q \in Fps : q # fp => v.box[q] = u.box[q]
         /\ u.box[fp] = None => v.box[fp] = None
         /\ u.box[fp] # None /\ ~Due(t, u.box[fp].seen) =>
              /\ v.box[fp] # None /\ v.box[fp].seen = u.box[fp].seen
              /\ \A it \in ToSet(u.box[fp].items) : ~Due(t, it.at) => it \in ToSet(v.box[fp].items)
<1>1. CASE u.box[fp] = None
  <2>1. v = u
    BY <1>1 DEF PruneBox, Registered
  <2>2. QED
    BY <1>1, <2>1, LessSame
<1>2. CASE u.box[fp] # None /\ Due(t, u.box[fp].seen)
  <2>1. v = Unregister(u, fp)
    BY <1>2 DEF PruneBox, Registered
  <2>2. QED
    BY <1>2, <2>1, Unregisters
<1>3. CASE u.box[fp] # None /\ ~Due(t, u.box[fp].seen)
  <2> DEFINE old == {x \in ToSet(u.box[fp].items) : Due(t, x.at)}
             ids == {it.id : it \in old}
  <2>1. v = Without(u, fp, ids)
    BY <1>3 DEF PruneBox, Registered
  <2>2. ASSUME NEW it \in ToSet(u.box[fp].items), ~Due(t, it.at) PROVE it.id \notin ids
    <3> SUFFICES ASSUME NEW x \in old, it.id = x.id PROVE FALSE
      OBVIOUS
    <3> DEFINE items == u.box[fp].items
    <3>1. PICK i \in DOMAIN items : it = items[i]
      BY DEF ToSet
    <3>2. PICK j \in DOMAIN items : x = items[j]
      BY DEF ToSet
    <3>3. items \in Seq(Item) /\ InOrder(items)
      <4>1. fp \in Recs(u.box) /\ u.box \in Boxes /\ Good(u.box)
        BY <1>3, StoreIs DEF Recs
      <4>2. QED
        BY <4>1, InBox DEF Good
    <3>4. i = j
      <4>1. i \in Nat /\ j \in Nat
        BY <3>3
      <4>2. ~(i < j) /\ ~(j < i)
        BY <3>1, <3>2, <3>3 DEF InOrder, Ordered
      <4>3. QED
        BY <4>1, <4>2
    <3>5. QED
      BY <2>2, <3>1, <3>2, <3>4
  <2> HIDE DEF ids, old
  <2>3. QED
    BY <1>3, <2>1, <2>2, Withouts
<1>4. QED
  BY <1>1, <1>2, <1>3

OP == INSTANCE Folding WITH Op <- LAMBDA k, u, fp : PruneBox(u, fp, k)

\* Mail of u that is not due at t, for a recipient who is not, is in w.
Spared(u, w, t) ==
  \A fp \in Fps : u.box[fp] # None /\ ~Due(t, u.box[fp].seen) =>
    /\ w.box[fp] # None /\ w.box[fp].seen = u.box[fp].seen
    /\ \A it \in ToSet(u.box[fp].items) : ~Due(t, it.at) => it \in ToSet(w.box[fp].items)

LEMMA PrunesMore ==
  ASSUME NEW u, NEW w, Stored(w), NEW t, Less(u.box, w.box), Spared(u, w, t), NEW q \in Fps,
         NEW v, v = PruneBox(w, q, t)
  PROVE  Stored(v) /\ Less(u.box, v.box) /\ Spared(u, v, t)
<1>1. /\ Stored(v) /\ Less(w.box, v.box)
      /\ \A x \in Fps : x # q => v.box[x] = w.box[x]
      /\ w.box[q] # None /\ ~Due(t, w.box[q].seen) =>
           /\ v.box[q] # None /\ v.box[q].seen = w.box[q].seen
           /\ \A it \in ToSet(w.box[q].items) : ~Due(t, it.at) => it \in ToSet(v.box[q].items)
  BY PrunesBox
<1>2. Less(u.box, v.box)
  BY <1>1, LessOver
<1>3. Spared(u, v, t)
  <2> SUFFICES ASSUME NEW fp \in Fps, u.box[fp] # None, ~Due(t, u.box[fp].seen)
               PROVE  /\ v.box[fp] # None /\ v.box[fp].seen = u.box[fp].seen
                      /\ \A it \in ToSet(u.box[fp].items) : ~Due(t, it.at) => it \in ToSet(v.box[fp].items)
    BY DEF Spared
  <2>1. /\ w.box[fp] # None /\ w.box[fp].seen = u.box[fp].seen
        /\ \A it \in ToSet(u.box[fp].items) : ~Due(t, it.at) => it \in ToSet(w.box[fp].items)
    BY DEF Spared
  <2>2. CASE fp = q
    <3>1. ~Due(t, w.box[q].seen)
      BY <2>1, <2>2
    <3>2. QED
      BY <1>1, <2>1, <2>2, <3>1
  <2>3. CASE fp # q
    BY <1>1, <2>1, <2>3
  <2>4. QED
    BY <2>2, <2>3
<1>4. QED
  BY <1>1, <1>2, <1>3

LEMMA Prunes ==
  ASSUME NEW u, Stored(u), NEW t, NEW v, v = Prune(u, t)
  PROVE  Stored(v) /\ Less(u.box, v.box) /\ Spared(u, v, t)
<1> DEFINE q == SetToSeq(Fps)
           n == Cardinality(Fps)
           D == {w \in [box : Boxes, bytes : Nat] : Stored(w) /\ Less(u.box, w.box) /\ Spared(u, w, t)}
<1>1. v = OP!Value(t, u, q)
  <2> HIDE DEF q
  <2>1. Prune(u, t) = FoldLeft(LAMBDA w, fp : PruneBox(w, fp, t), u, q)
    BY DEF Prune, q
  <2>2. QED
    BY <2>1 DEF FoldLeft, MapThenFoldSet, OP!Value, OP!FoldOf, OP!Folds, OP!Max, Max
<1>2. n \in Nat /\ DOMAIN q = 1..n /\ \A i \in 1..n : q[i] \in Fps
  <2>1. OS!Lists(OS!SetToSeq(Fps), Fps)
    BY FpsAssumption, OS!SeqLists DEF OS!IsFiniteSet, IsFiniteSet
  <2>2. SetToSeq(Fps) = OS!SetToSeq(Fps) /\ n = OS!Cardinality(Fps)
    BY DEF SetToSeq, OS!SetToSeq, IsInjective, OS!IsInjective, Cardinality, OS!Cardinality
  <2>3. n \in Nat
    BY FpsAssumption, FS_CardinalityType
  <2> HIDE DEF n
  <2>4. OS!SetToSeq(Fps) \in [1..n -> Fps]
    BY <2>1, <2>2 DEF OS!Lists
  <2>5. QED
    BY <2>2, <2>3, <2>4
<1> HIDE DEF q, n
<1>3. u \in D
  <2>1. u \in [box : Boxes, bytes : Nat]
    BY DEF Stored
  <2>2. Less(u.box, u.box) /\ Spared(u, u, t)
    BY LessSame DEF Spared
  <2>3. QED
    BY <2>1, <2>2
<1>4. ASSUME NEW w \in D, NEW i \in 1..n PROVE PruneBox(w, q[i], t) \in D
  <2> DEFINE x == PruneBox(w, q[i], t)
  <2>1. Stored(w) /\ Less(u.box, w.box) /\ Spared(u, w, t) /\ q[i] \in Fps
    BY <1>2
  <2>2. Stored(x) /\ Less(u.box, x.box) /\ Spared(u, x, t)
    BY <2>1, PrunesMore
  <2> HIDE DEF x
  <2>3. x \in [box : Boxes, bytes : Nat]
    BY <2>2 DEF Stored
  <2>4. x \in D
    BY <2>2, <2>3
  <2>5. QED
    BY <2>4 DEF x
<1>5. OP!Value(t, u, q) \in D
  <2> HIDE DEF D
  <2>1. QED
    BY <1>2, <1>3, <1>4, OP!Run
<1>6. QED
  BY <1>1, <1>5

-----------------------------------------------------------------------------
(* fromJSON().                                                             *)

\* The first m items.
Pre(items, m) == [i \in 1..m |-> items[i]]

LEMMA PreNext ==
  ASSUME NEW items \in Seq(Item)
  PROVE  /\ Pre(items, 0) = <<>> /\ Pre(items, Len(items)) = items
         /\ \A m \in 0..Len(items) : /\ Pre(items, m) \in Seq(Item) /\ Len(Pre(items, m)) = m
                                     /\ DOMAIN Pre(items, m) = 1..m
                                     /\ \A i \in 1..m : Pre(items, m)[i] = items[i]
         /\ \A m \in 1..Len(items) : Append(Pre(items, m - 1), items[m]) = Pre(items, m)
<1> DEFINE n == Len(items)
<1>1. n \in Nat /\ \A i \in 1..n : items[i] \in Item
  BY ItemsOf
<1>2. ASSUME NEW m \in 0..n
      PROVE  /\ Pre(items, m) \in Seq(Item) /\ Len(Pre(items, m)) = m
             /\ DOMAIN Pre(items, m) = 1..m /\ \A i \in 1..m : Pre(items, m)[i] = items[i]
  <2>1. m \in Nat /\ \A i \in 1..m : items[i] \in Item
    <3> HIDE DEF n
    <3>1. QED
      BY <1>1
  <2>2. Pre(items, m) \in [1..m -> Item] /\ DOMAIN Pre(items, m) = 1..m /\ \A i \in 1..m : Pre(items, m)[i] = items[i]
    BY <2>1 DEF Pre
  <2>3. Pre(items, m) \in Seq(Item)
    BY <2>1, <2>2, SeqDef
  <2>4. Len(Pre(items, m)) \in Nat /\ DOMAIN Pre(items, m) = 1..Len(Pre(items, m))
    BY <2>3
  <2>5. Len(Pre(items, m)) = m
    <3> HIDE DEF n
    <3>1. QED
      BY <2>1, <2>2, <2>4
  <2>6. QED
    BY <2>2, <2>3, <2>5
<1>3. ASSUME NEW m \in 1..n PROVE Append(Pre(items, m - 1), items[m]) = Pre(items, m)
  <2> DEFINE s == Append(Pre(items, m - 1), items[m])
             p == Pre(items, m - 1)
             q == Pre(items, m)
  <2>1. m \in 0..n /\ m - 1 \in 0..n /\ (m - 1) + 1 = m /\ items[m] \in Item
    <3> HIDE DEF n
    <3>1. QED
      BY <1>1
  <2>2. /\ p \in Seq(Item) /\ Len(p) = m - 1 /\ \A i \in 1..(m - 1) : p[i] = items[i]
        /\ q \in Seq(Item) /\ Len(q) = m /\ \A i \in 1..m : q[i] = items[i]
    BY <1>2, <2>1
  <2> HIDE DEF p, q, n
  <2>3. /\ Append(p, items[m]) \in Seq(Item) /\ Len(Append(p, items[m])) = m
        /\ \A i \in 1..(m - 1) : Append(p, items[m])[i] = p[i]
        /\ Append(p, items[m])[m] = items[m]
    BY <2>1, <2>2
  <2>4. \A i \in 1..m : Append(p, items[m])[i] = q[i]
    <3>1. \A i \in 1..m : i = m \/ i \in 1..(m - 1)
      BY <2>1
    <3>2. QED
      BY <2>2, <2>3, <3>1
  <2>5. Append(p, items[m]) = q
    BY <2>2, <2>3, <2>4, SeqEqual
  <2>6. QED
    BY <2>5 DEF p, q
<1>4. Pre(items, 0) = <<>>
  BY DEF Pre
<1>5. Pre(items, n) = items
  <2>1. n \in 0..n
    BY <1>1
  <2>2. Pre(items, n) \in Seq(Item) /\ Len(Pre(items, n)) = n /\ \A i \in 1..n : Pre(items, n)[i] = items[i]
    BY <1>2, <2>1
  <2>3. QED
    BY <2>2, SeqEqual
<1>6. QED
  BY <1>2, <1>3, <1>4, <1>5

LEMMA HavingAgain ==
  ASSUME NEW b \in Boxes, NEW fp \in Fps, NEW x, NEW y
  PROVE  /\ Having(Having(b, fp, x), fp, y) = Having(b, fp, y)
         /\ Having(Having(b, fp, x), fp, b[fp]) = b
<1>1. b = [q \in Fps |-> b[q]]
  BY DEF Boxes
<1>2. QED
  BY <1>1 DEF Having

OD == INSTANCE Folding WITH Op <- LAMBDA k, u, it : Deposit(u, k, it.id, it.at)

\* A box is filled again with what was in it.
Fills(image, s, fp) ==
  IF HasRoom(s, fp) THEN FoldLeft(LAMBDA u, it : Deposit(u, fp, it.id, it.at),
                                  Register(s, fp, image[fp].seen), image[fp].items)
                    ELSE s

LEMMA Filled ==
  ASSUME NEW c, Good(c), NEW fp \in Recs(c), NEW b, b = Having(c, fp, None), NEW image, image[fp] = c[fp]
  PROVE  Fills(image, StoreOf(b, Total(b)), fp) = StoreOf(c, Total(c))
<1> DEFINE items == c[fp].items
           n == Len(items)
           u == StoreOf(b, Total(b))
           v == Register(u, fp, c[fp].seen)
           A(m) == OD!After(fp, v, items, m)
           x(m) == [seen |-> c[fp].seen, items |-> Pre(items, m)]
           H == {m \in 0..n : Stored(A(m)) /\ A(m) = StoreOf(Having(b, fp, x(m)), Total(b) + Sized(items, m))}
<1>1. c \in Boxes /\ fp \in Fps
  BY DEF Good, Recs
<1>2. c[fp].seen \in Times /\ items \in Seq(Item) /\ c[fp] # None /\ c[fp] \in Box
  BY <1>1, InBox
<1>3. /\ Good(b) /\ Cardinality(Recs(b)) < MaxRecipients
      /\ Total(b) + Bytes(items) <= MaxTotal /\ Total(b) = Total(c) - Bytes(items)
  BY LeavesGood
<1>4. b \in Boxes /\ b[fp] = None
  BY <1>1, <1>3, HavingOthers DEF Good
<1>5. Total(b) \in Nat /\ Total(c) \in Nat
  BY <1>1, <1>4, TotalIsNat
<1>6. InOrder(items)
  BY DEF Good
<1>7. Stored(u) /\ u.box = b /\ u.bytes = Total(b)
  BY <1>3, <1>5, StoredOf DEF StoreOf
<1>8. HasRoom(u, fp)
  BY <1>3, <1>7 DEF HasRoom, Recipients, Registered, Recs
<1>9. /\ n \in Nat /\ DOMAIN items = 1..n
      /\ \A i \in 1..n : /\ items[i] \in Item /\ items[i].id \in Ids /\ items[i].at \in Times
                         /\ Size[items[i].id] \in Nat
  BY <1>2, ItemsOf
<1>10. /\ Pre(items, 0) = <<>> /\ Pre(items, n) = items
       /\ \A m \in 0..n : /\ Pre(items, m) \in Seq(Item) /\ Len(Pre(items, m)) = m
                          /\ DOMAIN Pre(items, m) = 1..m
                          /\ \A i \in 1..m : Pre(items, m)[i] = items[i]
       /\ \A m \in 1..n : Append(Pre(items, m - 1), items[m]) = Pre(items, m)
  BY <1>2, PreNext
<1>11. /\ Bytes(items) \in Nat /\ Sized(items, 0) = 0 /\ Bytes(items) = Sized(items, n)
       /\ \A m \in 0..n : Sized(items, m) \in Nat /\ Sized(items, m) <= Bytes(items)
       /\ \A m \in 1..n : Sized(items, m) = Sized(items, m - 1) + Size[items[m].id]
  BY <1>2, BytesSum
<1>12. Fills(image, u, fp) = OD!Value(fp, v, items)
  <2>1. Fills(image, u, fp) = FoldLeft(LAMBDA w, it : Deposit(w, fp, it.id, it.at), v, items)
    <3> HIDE DEF u
    <3>1. QED
      BY <1>8 DEF Fills
  <2> HIDE DEF v, items
  <2>2. QED
    BY <2>1 DEF FoldLeft, MapThenFoldSet, OD!Value, OD!FoldOf, OD!Folds, OD!Max, Max
<1>13. /\ Stored(v) /\ v = StoreOf(Having(b, fp, [seen |-> c[fp].seen, items |-> <<>>]), Total(b))
  <2> HIDE DEF u, items
  <2>1. QED
    BY <1>1, <1>2, <1>4, <1>7, <1>8, Registers
<1> HIDE DEF items, n, u, v
<1>14. A(0) = v /\ OD!Value(fp, v, items) = A(n)
  BY <1>9, OD!Start, OD!Whole
<1>15. ASSUME NEW m \in 1..n PROVE A(m) = Deposit(A(m - 1), fp, items[m].id, items[m].at)
  BY <1>9, OD!Steps
<1> HIDE DEF A
<1>16. 0 \in H
  <2>1. x(0) = [seen |-> c[fp].seen, items |-> <<>>] /\ Total(b) + Sized(items, 0) = Total(b)
    BY <1>5, <1>10, <1>11
  <2> HIDE DEF x
  <2>2. Stored(A(0)) /\ A(0) = StoreOf(Having(b, fp, x(0)), Total(b) + Sized(items, 0))
    BY <1>13, <1>14, <2>1
  <2>3. 0 \in 0..n
    BY <1>9
  <2>4. QED
    BY <2>2, <2>3
<1>17. ASSUME NEW l \in 0..(n - 1), l \in H PROVE l + 1 \in H
  <2> DEFINE m == l + 1
             w == A(l)
             id == items[m].id
             at == items[m].at
             old == Pre(items, l)
  <2>1. m \in 1..n /\ m \in 0..n /\ l \in 0..n /\ m - 1 = l
    BY <1>9
  <2>2. id \in Ids /\ at \in Times /\ Size[id] \in Nat /\ items[m] \in Item
    BY <1>9, <2>1
  <2>3. Stored(w) /\ w = StoreOf(Having(b, fp, x(l)), Total(b) + Sized(items, l))
    BY <1>17
  <2>4. w.box = Having(b, fp, x(l)) /\ w.bytes = Total(b) + Sized(items, l)
    <3> HIDE DEF x, w
    <3>1. QED
      BY <2>3 DEF StoreOf
  <2>5. w.box[fp] = x(l) /\ x(l).items = old /\ x(l).seen = c[fp].seen
    <3>1. x(l).items = old /\ x(l).seen = c[fp].seen
      OBVIOUS
    <3> HIDE DEF x, w
    <3>2. QED
      BY <1>1, <1>4, <2>4, <3>1, HavingOthers
  <2>6. x(l) # None
    <3>1. x(l) \in Box
      BY <1>2, <1>10, <2>1, BoxIs
    <3>2. QED
      BY <3>1, NoneAssumption
  <2>7. A(m) = Deposit(w, fp, id, at)
    BY <1>15, <2>1
  <2>8. /\ old \in Seq(Item) /\ Len(old) = l /\ DOMAIN old = 1..l
        /\ \A i \in 1..l : old[i] = items[i] /\ i \in 1..n /\ i < m
        /\ Append(old, items[m]) = Pre(items, m)
    <3>1. /\ old \in Seq(Item) /\ Len(old) = l /\ DOMAIN old = 1..l
          /\ \A i \in 1..l : old[i] = items[i]
      BY <1>10, <2>1
    <3>2. \A i \in 1..l : i \in 1..n /\ i < m
      BY <1>9, <2>1
    <3> HIDE DEF m
    <3>3. Append(Pre(items, l), items[m]) = Pre(items, m)
      BY <1>10, <2>1
    <3>4. QED
      BY <3>1, <3>2, <3>3
  <2> HIDE DEF x, w, id, at, old
  <2>9. \A i \in DOMAIN old : old[i].at <= at /\ old[i].id # id
    <3>1. \A i \in DOMAIN old : i \in DOMAIN items /\ m \in DOMAIN items /\ i < m /\ old[i] = items[i]
      BY <1>9, <2>1, <2>8
    <3> HIDE DEF m
    <3>2. QED
      BY <1>6, <3>1 DEF InOrder, Ordered, id, at
  <2>10. ~Holds(w, fp, id)
    BY <2>5, <2>9 DEF Holds, ToSet
  <2>11. Takes(w, fp, id)
    <3>1. Size[id] <= MaxBlob
      BY <1>6, <1>9, <2>1 DEF InOrder, id
    <3>2. Len(w.box[fp].items) < MaxPerRecipient
      BY <1>6, <1>9, <2>1, <2>5, <2>8, LimitsAreNumbers DEF InOrder, n
    <3>3. w.bytes + Size[id] <= MaxTotal
      <4>1. Sized(items, m) = Sized(items, l) + Size[id] /\ Sized(items, m) <= Bytes(items)
        BY <1>11, <2>1 DEF id
      <4>2. Sized(items, l) \in Nat /\ Sized(items, m) \in Nat /\ Bytes(items) \in Nat
        BY <1>11, <2>1
      <4>3. QED
        BY <1>3, <1>5, <2>2, <2>4, <4>1, <4>2, LimitsAreNumbers
    <3>4. QED
      BY <2>5, <2>6, <3>1, <3>2, <3>3 DEF Takes, Fits, Registered
  <2>12. \A i \in DOMAIN w.box[fp].items : w.box[fp].items[i].at <= at
    BY <2>5, <2>9
  <2> DEFINE d == Deposit(w, fp, id, at)
  <2>13. /\ Stored(d)
         /\ d.box[fp] = [seen |-> w.box[fp].seen, items |-> Append(w.box[fp].items, [id |-> id, at |-> at])]
         /\ d = StoreOf(Having(w.box, fp, d.box[fp]), w.bytes + Size[id])
    <3>1. d = Deposit(w, fp, id, at)
      OBVIOUS
    <3>2. fp \in Fps /\ id \in Ids /\ at \in Times /\ Stored(w) /\ Takes(w, fp, id) /\ ~Holds(w, fp, id)
      BY <1>1, <2>2, <2>3, <2>10, <2>11
    <3> HIDE DEF d, n, m, A, H
    <3>3. QED
      BY <2>12, <3>1, <3>2, Deposits
  <2>14. [id |-> id, at |-> at] = items[m]
    BY <2>2 DEF Item, id, at
  <2>15. d.box[fp] = x(m)
    BY <2>5, <2>8, <2>13, <2>14 DEF x
  <2>16. Having(w.box, fp, x(m)) = Having(b, fp, x(m))
    BY <1>1, <1>4, <2>4, HavingAgain
  <2>17. w.bytes + Size[id] = Total(b) + Sized(items, m)
    <3>1. Sized(items, m) = Sized(items, l) + Size[id] /\ Sized(items, l) \in Nat
      BY <1>11, <2>1 DEF id
    <3>2. QED
      BY <1>5, <2>2, <2>4, <3>1
  <2> HIDE DEF d, m
  <2>18. Stored(A(m)) /\ A(m) = StoreOf(Having(b, fp, x(m)), Total(b) + Sized(items, m))
    BY <2>7, <2>13, <2>15, <2>16, <2>17 DEF d
  <2>19. QED
    BY <2>1, <2>18 DEF m, x
<1>18. n \in H
  <2>1. 0..n \subseteq H
    <3> HIDE DEF H
    <3>1. QED
      BY <1>9, <1>16, <1>17, OD!UpTo
  <2>2. n \in 0..n
    BY <1>9
  <2>3. QED
    BY <2>1, <2>2
<1>19. A(n) = StoreOf(Having(b, fp, x(n)), Total(b) + Sized(items, n))
  BY <1>18
<1>20. x(n) = c[fp]
  BY <1>2, <1>10, BoxIs DEF items
<1>21. Total(b) + Sized(items, n) = Total(c)
  BY <1>3, <1>5, <1>11
<1>22. Having(b, fp, c[fp]) = c
  BY <1>1, HavingAgain
<1> HIDE DEF x
<1>23. A(n) = StoreOf(c, Total(c))
  BY <1>19, <1>20, <1>21, <1>22
<1>24. QED
  BY <1>12, <1>14, <1>23 DEF u

OX == INSTANCE Folding WITH Op <- Fills

LEMMA SameOrder == ASSUME NEW S, NEW by PROVE SortedBy(S, by) = OX!SortedBy(S, by)
  BY DEF SortedBy, OX!SortedBy, SetToSeqs, OX!SetToSeqs, Cardinality, OX!Cardinality

\* What fits in the boxes fits in them again.
THEOREM Restores == ASSUME NEW image, Good(image) PROVE Restore(image) = StoreOf(image, Total(image))
<1> DEFINE there == Recs(image)
           by == [fp \in there |-> 0 - image[fp].seen]
           order == SortedBy(there, by)
           n == Cardinality(there)
           got(m) == {order[i] : i \in 1..m}
           part(m) == [fp \in Fps |-> IF fp \in got(m) THEN image[fp] ELSE None]
           A(m) == OX!After(image, Empty, order, m)
           G == {m \in 0..n : Good(part(n - m))}
           H == {m \in 0..n : A(m) = StoreOf(part(m), Total(part(m)))}
<1>1. image \in Boxes
  BY DEF Good
<1>2. Restore(image) = OX!Value(image, Empty, order)
  <2>1. Restore(image) = FoldLeft(LAMBDA s, fp : Fills(image, s, fp), Empty, order)
    BY DEF Restore, Recs, Fills
  <2> HIDE DEF order
  <2>2. QED
    BY <2>1 DEF FoldLeft, MapThenFoldSet, OX!Value, OX!FoldOf, OX!Folds, OX!Max, Max
<1>3. \A fp \in there : by[fp] \in Int
  <2>1. \A fp \in there : image[fp].seen \in Times
    BY <1>1, InBox
  <2>2. QED
    BY <2>1 DEF Times
<1>4. OX!IsFiniteSet(there) /\ n = OX!Cardinality(there) /\ order = OX!SortedBy(there, by)
  <2>1. OX!IsFiniteSet(there)
    BY Counted DEF OX!IsFiniteSet, IsFiniteSet
  <2>2. n = OX!Cardinality(there)
    BY DEF OX!Cardinality, Cardinality
  <2>3. QED
    BY <2>1, <2>2, SameOrder
<1> HIDE DEF there, by, order, n
<1>5. /\ n \in Nat /\ order \in [1..n -> there]
      /\ \A i, j \in 1..n : i # j => order[i] # order[j]
      /\ \A x \in there : \E i \in 1..n : order[i] = x
  BY <1>3, <1>4, OX!Sorted
<1>6. /\ DOMAIN order = 1..n
      /\ \A i \in 1..n : order[i] \in there /\ order[i] \in Fps /\ image[order[i]] # None
                         /\ image[order[i]] \in Box
  BY <1>1, <1>5, InBox DEF there
<1>7. part(n) = image
  <2>1. image = [fp \in Fps |-> image[fp]]
    BY <1>1 DEF Boxes
  <2>2. \A fp \in Fps : fp \notin got(n) => image[fp] = None
    BY <1>5 DEF there, Recs
  <2>3. QED
    BY <2>1, <2>2
<1>8. ASSUME NEW m \in 1..n
      PROVE  /\ order[m] \in Recs(part(m)) /\ part(m)[order[m]] = image[order[m]]
             /\ part(m - 1) = Having(part(m), order[m], None)
  <2> DEFINE fp == order[m]
  <2>1. got(m) = got(m - 1) \cup {fp} /\ fp \notin got(m - 1)
    <3>1. 1..m = (1..(m - 1)) \cup {m} /\ \A i \in 1..(m - 1) : i \in 1..n /\ i # m
      BY <1>5
    <3>2. QED
      BY <1>5, <3>1
  <2>2. fp \in Fps /\ image[fp] # None
    BY <1>6
  <2>3. DOMAIN part(m) = Fps
    OBVIOUS
  <2>4. \A q \in Fps : part(m)[q] = IF q \in got(m) THEN image[q] ELSE None
    OBVIOUS
  <2>5. part(m - 1) = [q \in Fps |-> IF q = fp THEN None ELSE part(m)[q]]
    <3>1. \A q \in Fps : (IF q \in got(m - 1) THEN image[q] ELSE None) = IF q = fp THEN None ELSE part(m)[q]
      <4> HIDE DEF part, got, fp
      <4>1. QED
        BY <2>1, <2>4
    <3>2. QED
      BY <3>1
  <2> HIDE DEF part, got, fp
  <2>6. part(m - 1) = Having(part(m), fp, None)
    BY <2>2, <2>3, <2>5 DEF Having
  <2>7. QED
    BY <2>1, <2>2, <2>4, <2>6 DEF Recs, fp
<1>9. part(0) = Empty.box /\ Recs(Empty.box) = {} /\ Empty = StoreOf(Empty.box, 0)
  <2>1. got(0) = {}
    OBVIOUS
  <2>2. QED
    BY <2>1 DEF Empty, StoreOf, Recs
<1> HIDE DEF part, got
<1>10. \A m \in 0..n : Good(part(m))
  <2>1. 0 \in G
    BY <1>5, <1>7
  <2>2. ASSUME NEW m \in 0..(n - 1), m \in G PROVE m + 1 \in G
    <3> DEFINE l == n - m
    <3>1. l \in 1..n /\ l - 1 = n - (m + 1) /\ m + 1 \in 0..n
      BY <1>5
    <3>2. Good(part(l))
      BY <2>2
    <3> HIDE DEF l
    <3>3. order[l] \in Recs(part(l)) /\ part(l - 1) = Having(part(l), order[l], None)
      BY <1>8, <3>1
    <3>4. Good(part(l - 1))
      BY <3>2, <3>3, LeavesGood
    <3>5. Good(part(n - (m + 1)))
      BY <3>1, <3>4
    <3>6. QED
      BY <3>1, <3>5
  <2>3. 0..n \subseteq G
    <3> HIDE DEF G
    <3>1. QED
      BY <1>5, <2>1, <2>2, OX!UpTo
  <2>4. ASSUME NEW m \in 0..n PROVE Good(part(m))
    <3>1. n - m \in 0..n /\ n - (n - m) = m
      BY <1>5
    <3>2. Good(part(n - (n - m)))
      BY <2>3, <3>1
    <3>3. QED
      BY <3>1, <3>2
  <2>5. QED
    BY <2>4
<1>11. A(0) = Empty /\ OX!Value(image, Empty, order) = A(n)
  BY <1>5, <1>6, OX!Start, OX!Whole
<1>12. ASSUME NEW m \in 1..n PROVE A(m) = Fills(image, A(m - 1), order[m])
  BY <1>5, <1>6, OX!Steps
<1> HIDE DEF A
<1>13. 0 \in H
  <2>1. Total(part(0)) = 0
    BY <1>9, TotalOfNone
  <2>2. 0 \in 0..n
    BY <1>5
  <2>3. QED
    BY <1>9, <1>11, <2>1, <2>2
<1>14. ASSUME NEW l \in 0..(n - 1), l \in H PROVE l + 1 \in H
  <2> DEFINE m == l + 1
  <2>1. m \in 1..n /\ m \in 0..n /\ m - 1 = l
    BY <1>5
  <2>2. A(l) = StoreOf(part(l), Total(part(l)))
    BY <1>14
  <2> HIDE DEF m
  <2>3. /\ order[m] \in Recs(part(m)) /\ part(m)[order[m]] = image[order[m]]
        /\ part(l) = Having(part(m), order[m], None)
    BY <1>8, <2>1
  <2>4. Good(part(m))
    BY <1>10, <2>1
  <2>5. Fills(image, StoreOf(part(l), Total(part(l))), order[m]) = StoreOf(part(m), Total(part(m)))
    BY <2>3, <2>4, Filled
  <2>6. A(m) = StoreOf(part(m), Total(part(m)))
    BY <1>12, <2>1, <2>2, <2>5
  <2>7. QED
    BY <2>1, <2>6 DEF m
<1>15. n \in H
  <2>1. 0..n \subseteq H
    <3> HIDE DEF H
    <3>1. QED
      BY <1>5, <1>13, <1>14, OX!UpTo
  <2>2. n \in 0..n
    BY <1>5
  <2>3. QED
    BY <2>1, <2>2
<1>16. QED
  BY <1>2, <1>7, <1>11, <1>15

-----------------------------------------------------------------------------
(* What an operation does to the mail that is held.                        *)

HeldStays(u, v) == \A fp \in Fps, id \in Ids : Holds(u, fp, id) => Holds(v, fp, id)

LEMMA RegistersPast ==
  ASSUME NEW u, Stored(u), NEW fp \in Fps, NEW t \in Times, Past(u.box, t), NEW v, v = Register(u, fp, t)
  PROVE  Past(v.box, t) /\ HeldStays(u, v)
<1>1. /\ \A q \in Fps : u.box[q] # None => v.box[q] # None /\ v.box[q].items = u.box[q].items
      /\ \A q \in Fps : u.box[q] = None /\ v.box[q] # None => v.box[q].items = <<>>
  <2>1. SameMail(u, v)
    BY Registers
  <2>2. QED
    BY <2>1 DEF SameMail
<1>2. HeldStays(u, v)
  BY <1>1 DEF HeldStays, Holds, Registered
<1>3. Past(v.box, t)
  <2> SUFFICES ASSUME NEW q \in Recs(v.box), NEW i \in DOMAIN v.box[q].items PROVE v.box[q].items[i].at <= t
    BY DEF Past
  <2>1. q \in Fps /\ v.box[q] # None
    BY DEF Recs
  <2>2. CASE u.box[q] = None
    <3>1. v.box[q].items = <<>> /\ DOMAIN <<>> = {}
      BY <1>1, <2>1, <2>2
    <3>2. QED
      BY <3>1
  <2>3. CASE u.box[q] # None
    <3>1. q \in Recs(u.box) /\ v.box[q].items = u.box[q].items
      BY <1>1, <2>1, <2>3 DEF Recs
    <3>2. QED
      BY <3>1 DEF Past
  <2>4. QED
    BY <2>2, <2>3
<1>4. QED
  BY <1>2, <1>3

LEMMA DepositsAny ==
  ASSUME NEW u, Stored(u), NEW fp \in Fps, NEW id \in Ids, NEW t \in Times, Past(u.box, t),
         NEW v, v = Deposit(u, fp, id, t)
  PROVE  Stored(v) /\ Past(v.box, t) /\ HeldStays(u, v) /\ (~Takes(u, fp, id) => v = u)
<1>1. CASE ~(Takes(u, fp, id) /\ ~Holds(u, fp, id))
  <2>1. v = u
    BY <1>1 DEF Deposit
  <2>2. QED
    BY <2>1 DEF HeldStays
<1>2. CASE Takes(u, fp, id) /\ ~Holds(u, fp, id)
  <2> DEFINE items == u.box[fp].items
             it == [id |-> id, at |-> t]
  <2>1. fp \in Recs(u.box) /\ u.box \in Boxes
    BY <1>2, StoreIs DEF Takes, Registered, Recs
  <2>2. \A i \in DOMAIN items : items[i].at <= t
    BY <2>1 DEF Past
  <2>3. items \in Seq(Item) /\ it \in Item /\ it.at = t
    BY <2>1, InBox DEF Item
  <2>4. /\ Stored(v) /\ v.box[fp] # None
        /\ v.box[fp].items = Append(items, it)
        /\ \A q \in Fps : q # fp => v.box[q] = u.box[q]
    <3>1. /\ Stored(v) /\ v.box[fp] # None
          /\ v.box[fp] = [seen |-> u.box[fp].seen, items |-> Append(u.box[fp].items, [id |-> id, at |-> t])]
          /\ \A q \in Fps : q # fp => v.box[q] = u.box[q]
      BY <1>2, <2>2, Deposits
    <3>2. QED
      BY <3>1
  <2> HIDE DEF items, it
  <2>5. /\ DOMAIN v.box[fp].items = 1..(Len(items) + 1) /\ DOMAIN items = 1..Len(items) /\ Len(items) \in Nat
        /\ \A i \in 1..Len(items) : v.box[fp].items[i] = items[i]
        /\ v.box[fp].items[Len(items) + 1] = it
    BY <2>3, <2>4
  <2>6. HeldStays(u, v)
    <3> SUFFICES ASSUME NEW q \in Fps, NEW j \in Ids, Holds(u, q, j) PROVE Holds(v, q, j)
      BY DEF HeldStays
    <3>1. CASE q # fp
      BY <2>4, <3>1 DEF Holds, Registered
    <3>2. CASE q = fp
      <4>1. PICK i \in DOMAIN items : items[i].id = j
        BY <3>2 DEF Holds, ToSet, items
      <4>2. i \in DOMAIN v.box[fp].items /\ v.box[fp].items[i].id = j
        BY <2>5, <4>1
      <4>3. QED
        BY <2>4, <3>2, <4>2 DEF Holds, Registered, ToSet
    <3>3. QED
      BY <3>1, <3>2
  <2>7. Past(v.box, t)
    <3> SUFFICES ASSUME NEW q \in Recs(v.box), NEW i \in DOMAIN v.box[q].items PROVE v.box[q].items[i].at <= t
      BY DEF Past
    <3>1. CASE q # fp
      <4>1. v.box[q] = u.box[q] /\ q \in Recs(u.box)
        BY <2>4, <3>1 DEF Recs
      <4>2. QED
        BY <4>1 DEF Past
    <3>2. CASE q = fp
      <4>1. i \in 1..Len(items) \/ i = Len(items) + 1
        BY <2>5, <3>2
      <4>2. t <= t
        BY DEF Times
      <4>3. QED
        BY <2>2, <2>3, <2>5, <3>2, <4>1, <4>2 DEF items
    <3>3. QED
      BY <3>1, <3>2
  <2>8. QED
    BY <1>2, <2>4, <2>6, <2>7
<1>3. QED
  BY <1>1, <1>2

\* ack(): what leaves is named.
LEMMA WithoutNamed ==
  ASSUME NEW u, Stored(u), NEW fp \in Fps, u.box[fp] # None, NEW ids, NEW v, v = Without(u, fp, ids),
         NEW q \in Fps, NEW id, Holds(u, q, id), ~Holds(v, q, id)
  PROVE  q = fp /\ id \in ids
<1>1. /\ \A x \in Fps : x # fp => v.box[x] = u.box[x]
      /\ v.box[fp] # None
      /\ \A it \in ToSet(u.box[fp].items) : it.id \notin ids => it \in ToSet(v.box[fp].items)
  BY Withouts
<1>2. QED
  BY <1>1 DEF Holds, Registered

\* The mail that prune() takes is due.
LEMMA PrunedIsDue ==
  ASSUME NEW u, Stored(u), NEW t, NEW v, v = Prune(u, t), NEW fp \in Fps, NEW id, Holds(u, fp, id), ~Holds(v, fp, id)
  PROVE  \/ Due(t, u.box[fp].seen)
         \/ \E it \in ToSet(u.box[fp].items) : it.id = id /\ Due(t, it.at)
<1>1. Spared(u, v, t)
  BY Prunes
<1>2. QED
  BY <1>1 DEF Spared, Holds, Registered

\* The image has the mail that the boxes have.
Saved(b, d) == \A fp \in Fps : (d[fp] = None <=> b[fp] = None) /\ (d[fp] # None => d[fp].items = b[fp].items)

LEMMA SavedIs ==
  ASSUME NEW s, NEW d
  PROVE  Saved(s.box, d) <=> \A fp \in Fps : (d[fp] = None) = ~Registered(s, fp)
                                             /\ (d[fp] # None => d[fp].items = s.box[fp].items)
  BY DEF Saved, Registered

LEMMA SavedSame == ASSUME NEW b PROVE Saved(b, b)
  BY DEF Saved

LEMMA RestoredIs ==
  ASSUME NEW d, Good(d), NEW u, u = Restore(d)
  PROVE  Stored(u) /\ u.box = d
<1>1. Total(d) \in Nat
  BY TotalIsNat DEF Good
<1>2. QED
  BY <1>1, Restores, StoredOf

LEMMA EmptyIsGood == Stored(Empty) /\ Good(Empty.box) /\ \A t : Past(Empty.box, t)
<1>1. Empty = StoreOf(Empty.box, 0) /\ Recs(Empty.box) = {} /\ Empty.box \in Boxes
  BY DEF Empty, StoreOf, Recs, Boxes
<1>2. Total(Empty.box) = 0
  BY <1>1, TotalOfNone
<1>3. Cardinality({}) = 0
  BY FS_EmptySet
<1>4. Good(Empty.box)
  BY <1>1, <1>2, <1>3, LimitsAreNumbers DEF Good
<1>5. Stored(StoreOf(Empty.box, 0))
  BY <1>2, <1>4, StoredOf
<1>6. QED
  BY <1>1, <1>4, <1>5 DEF Past

-----------------------------------------------------------------------------
(* The invariant.                                                          *)

LEMMA InitInv == Init => IInv
<1> SUFFICES ASSUME Init PROVE IInv
  OBVIOUS
<1>1. store = Empty /\ disk = Empty.box /\ now = 0
  BY DEF Init
<1>2. now \in Times
  BY <1>1, LimitsAreNumbers DEF Times
<1>3. Stored(store) /\ Past(store.box, now) /\ Good(disk) /\ Past(disk, now)
  BY <1>1, EmptyIsGood
<1>4. QuietIsSaved
  BY <1>1, SavedIs, SavedSame DEF QuietIsSaved
<1>5. opened \in BOOLEAN /\ pending \in BOOLEAN /\ failed \in BOOLEAN /\ serving \in BOOLEAN /\ leaving \in BOOLEAN
  BY DEF Init
<1>6. QED
  BY <1>2, <1>3, <1>4, <1>5 DEF IInv

Flags == opened \in BOOLEAN /\ pending \in BOOLEAN /\ failed \in BOOLEAN /\ serving \in BOOLEAN /\ leaving \in BOOLEAN

LEMMA FlagsStep == Flags /\ [Next]_vars => Flags'
<1> SUFFICES ASSUME Flags, [Next]_vars PROVE Flags'
  OBVIOUS
<1> USE DEF Flags
<1>1. ASSUME NEW fp \in Fps, Reg(fp) PROVE Flags'
  BY <1>1 DEF Reg, HasRoom
<1>2. ASSUME NEW fp \in Fps, Get(fp) PROVE Flags'
  BY <1>2 DEF Get
<1>3. ASSUME NEW fp \in Fps, NEW id \in Ids, Put(fp, id) PROVE Flags'
  BY <1>3 DEF Put, Takes
<1>4. ASSUME NEW fp \in Fps, NEW ids \in SUBSET Ids, Ack(fp, ids) PROVE Flags'
  BY <1>4 DEF Ack
<1>5. CASE Tick
  BY <1>5 DEF Tick
<1>6. CASE Serve
  BY <1>6 DEF Serve
<1>7. CASE Write
  BY <1>7 DEF Write, Writes
<1>8. CASE Stop
  BY <1>8 DEF Stop, Writes
<1>9. CASE Exit \/ Crash
  BY <1>9 DEF Exit, Crash, Reopened
<1>10. CASE Time
  BY <1>10 DEF Time
<1>11. CASE UNCHANGED vars
  BY <1>11 DEF vars
<1>12. QED
  BY <1>1, <1>2, <1>3, <1>4, <1>5, <1>6, <1>7, <1>8, <1>9, <1>10, <1>11 DEF Next

\* The boxes and the image, and that they agree when nothing is to be written.
Kept ==
  /\ now \in Times
  /\ Stored(store) /\ Past(store.box, now)
  /\ Good(disk) /\ Past(disk, now)
  /\ ~pending /\ ~failed => Saved(store.box, disk)

LEMMA InvIs == IInv <=> Flags /\ Kept
  BY SavedIs DEF IInv, Flags, Kept, QuietIsSaved

LEMMA KeptStep == Flags /\ Kept /\ [Next]_vars => Kept'
<1> SUFFICES ASSUME Flags, Kept, [Next]_vars PROVE Kept'
  OBVIOUS
<1>0. /\ now \in Times /\ Stored(store) /\ Past(store.box, now) /\ Good(disk) /\ Past(disk, now)
      /\ ~pending /\ ~failed => Saved(store.box, disk)
  BY DEF Kept
<1>1. ASSUME NEW fp \in Fps, Reg(fp) PROVE Kept'
  <2>1. /\ store' = Register(store, fp, now) /\ (~pending' => ~pending /\ ~HasRoom(store, fp))
        /\ disk' = disk /\ now' = now /\ failed' = failed
    BY <1>1 DEF Reg
  <2>2. Stored(store') /\ (~HasRoom(store, fp) => store' = store)
    BY <1>0, <2>1, Registers
  <2>3. Past(store'.box, now)
    BY <1>0, <2>1, RegistersPast
  <2>4. QED
    BY <1>0, <2>1, <2>2, <2>3 DEF Kept
<1>2. ASSUME NEW fp \in Fps, Get(fp) PROVE Kept'
  <2>1. /\ store' = IF Registered(store, fp) THEN Register(store, fp, now) ELSE store
        /\ pending' = pending /\ disk' = disk /\ now' = now /\ failed' = failed
    BY <1>2 DEF Get
  <2>2. CASE ~Registered(store, fp)
    BY <1>0, <2>1, <2>2 DEF Kept
  <2>3. CASE Registered(store, fp)
    <3>1. store' = Register(store, fp, now) /\ store.box[fp] # None
      BY <2>1, <2>3 DEF Registered
    <3>2. Stored(store') /\ SameMail(store, store') /\ NoNewBox(store, store')
      BY <1>0, <3>1, Registers
    <3>3. Past(store'.box, now)
      BY <1>0, <3>1, RegistersPast
    <3>4. Saved(store.box, disk) => Saved(store'.box, disk)
      BY <3>1, <3>2 DEF Saved, SameMail, NoNewBox
    <3>5. QED
      BY <1>0, <2>1, <3>2, <3>3, <3>4 DEF Kept
  <2>4. QED
    BY <2>2, <2>3
<1>3. ASSUME NEW fp \in Fps, NEW id \in Ids, Put(fp, id) PROVE Kept'
  <2>1. /\ store' = Deposit(store, fp, id, now) /\ (~pending' => ~pending /\ ~Takes(store, fp, id))
        /\ disk' = disk /\ now' = now /\ failed' = failed
    BY <1>3 DEF Put
  <2>2. Stored(store') /\ Past(store'.box, now) /\ (~Takes(store, fp, id) => store' = store)
    BY <1>0, <2>1, DepositsAny
  <2>3. QED
    BY <1>0, <2>1, <2>2 DEF Kept
<1>4. ASSUME NEW fp \in Fps, NEW ids \in SUBSET Ids, Ack(fp, ids) PROVE Kept'
  <2>1. /\ store' = Without(store, fp, ids) /\ pending' /\ disk' = disk /\ now' = now
    BY <1>4 DEF Ack
  <2>2. store.box[fp] # None
    BY <1>4 DEF Ack, Holds, Registered
  <2>3. Stored(store') /\ Less(store.box, store'.box)
    BY <1>0, <2>1, <2>2, Withouts
  <2>4. Past(store'.box, now)
    BY <1>0, <2>3, LessIsPast
  <2>5. QED
    BY <1>0, <2>1, <2>3, <2>4 DEF Kept
<1>5. CASE Tick
  <2>1. /\ store' = Prune(store, now) /\ (~pending' => ~pending /\ store' = store)
        /\ disk' = disk /\ now' = now /\ failed' = failed
    BY <1>5 DEF Tick
  <2>2. Stored(store') /\ Less(store.box, store'.box)
    BY <1>0, <2>1, Prunes
  <2>3. Past(store'.box, now)
    BY <1>0, <2>2, LessIsPast
  <2>4. QED
    BY <1>0, <2>1, <2>2, <2>3 DEF Kept
<1>6. CASE Serve
  BY <1>0, <1>6 DEF Serve, Kept
<1>7. CASE Write
  <2>1. Good(store.box) /\ Saved(store.box, store.box)
    BY <1>0, SavedSame DEF Stored
  <2>2. store' = store /\ now' = now /\ (disk' = store.box \/ (disk' = disk /\ failed'))
    BY <1>7 DEF Write, Writes
  <2>3. QED
    BY <1>0, <2>1, <2>2 DEF Kept
<1>8. CASE Stop
  <2>1. Good(store.box) /\ Saved(store.box, store.box)
    BY <1>0, SavedSame DEF Stored
  <2>2. /\ store' = store /\ now' = now
        /\ \/ disk' = store.box
           \/ disk' = disk /\ failed'
           \/ disk' = disk /\ pending' = pending /\ failed' = failed
    BY <1>8 DEF Stop, Writes
  <2>3. QED
    BY <1>0, <2>1, <2>2 DEF Kept
<1>9. CASE Exit \/ Crash
  <2>1. store' = Restore(disk) /\ disk' = disk /\ now' = now
    BY <1>9 DEF Exit, Crash, Reopened
  <2>2. Stored(store') /\ store'.box = disk
    BY <1>0, <2>1, RestoredIs
  <2>3. QED
    BY <1>0, <2>1, <2>2, SavedSame DEF Kept
<1>10. CASE Time
  <2>1. now < EndOfTime /\ now' = now + 1 /\ UNCHANGED <<store, disk, pending, failed>>
    BY <1>10 DEF Time
  <2>2. now' \in Times
    BY <1>0, <2>1, LimitsAreNumbers DEF Times
  <2>3. ASSUME NEW b, Good(b), Past(b, now) PROVE Past(b, now')
    <3> SUFFICES ASSUME NEW q \in Recs(b), NEW i \in DOMAIN b[q].items PROVE b[q].items[i].at <= now'
      BY DEF Past
    <3>1. b[q].items \in Seq(Item)
      BY <2>3, InBox DEF Good
    <3>2. b[q].items[i].at \in Nat
      BY <3>1, ItemsOf DEF Times
    <3>3. b[q].items[i].at <= now
      BY <2>3 DEF Past
    <3>4. now \in Nat
      BY <1>0 DEF Times
    <3>5. QED
      BY <2>1, <3>2, <3>3, <3>4
  <2>4. Past(store.box, now') /\ Past(disk, now')
    BY <1>0, <2>3 DEF Stored
  <2>5. QED
    BY <1>0, <2>1, <2>2, <2>4 DEF Kept
<1>11. CASE UNCHANGED vars
  BY <1>0, <1>11 DEF vars, Kept
<1>12. QED
  BY <1>1, <1>2, <1>3, <1>4, <1>5, <1>6, <1>7, <1>8, <1>9, <1>10, <1>11 DEF Next

THEOREM Invariant == Spec => []IInv
<1>1. Init => IInv
  BY InitInv
<1>2. IInv /\ [Next]_vars => IInv'
  <2>1. IInv => Flags /\ Kept
    BY InvIs
  <2>2. Flags' /\ Kept' => IInv'
    BY InvIs, PTL
  <2>3. QED
    BY <2>1, <2>2, FlagsStep, KeptStep
<1>3. QED
  BY <1>1, <1>2, PTL DEF Spec

-----------------------------------------------------------------------------

THEOREM TypeCorrect == Spec => []TypeOK
<1>1. IInv => TypeOK
  <2> SUFFICES ASSUME IInv PROVE TypeOK
    OBVIOUS
  <2>1. store.box \in Boxes /\ store.bytes \in Nat
    BY StoreIs DEF IInv
  <2>2. disk \in Boxes
    BY DEF IInv, Good
  <2>3. {opened, pending, failed, serving, leaving} \subseteq BOOLEAN /\ now \in Times
    BY DEF IInv
  <2>4. QED
    BY <2>1, <2>2, <2>3 DEF TypeOK
<1>2. QED
  BY <1>1, Invariant, PTL

\* The limits hold for what is in the boxes and the byte count is theirs; mail is
\* there once, oldest first; and an image with nothing left to write is the boxes'.
THEOREM BoxesInOrderTheorem == Spec => []BoxesInOrder
<1>1. IInv => BoxesInOrder
  <2> SUFFICES ASSUME IInv PROVE BoxesInOrder
    OBVIOUS
  <2>1. Good(store.box) /\ store.bytes = Total(store.box)
    BY DEF IInv, Stored
  <2>2. Recipients(store) = Recs(store.box)
    BY DEF Recipients, Registered, Recs
  <2>3. \A fp \in Recipients(store) : InOrder(store.box[fp].items)
    BY <2>1, <2>2 DEF Good
  <2>4. WithinLimits
    <3> DEFINE total == SumOver(Recipients(store), [fp \in Recipients(store) |-> Bytes(store.box[fp].items)])
    <3>1. total = Total(store.box)
      BY <2>2 DEF Total
    <3> HIDE DEF total
    <3>2. store.bytes = total /\ total <= MaxTotal
      BY <2>1, <3>1 DEF Good
    <3>3. Cardinality(Recipients(store)) <= MaxRecipients
      BY <2>1, <2>2 DEF Good
    <3>4. \A fp \in Recipients(store) : Len(store.box[fp].items) <= MaxPerRecipient
      BY <2>3 DEF InOrder
    <3>5. QED
      BY <3>2, <3>3, <3>4 DEF WithinLimits, total
  <2>5. OldestFirstOnce
    BY <2>3 DEF OldestFirstOnce, InOrder, Ordered
  <2>6. QED
    BY <2>4, <2>5 DEF IInv, BoxesInOrder
<1>2. QED
  BY <1>1, Invariant, PTL

\* What HeldUntilDue allows to take mail id from fp.
MayGo(fp, id) ==
  \/ \E ids \in SUBSET Ids : id \in ids /\ Ack(fp, ids)
  \/ Crash \/ (Exit /\ (pending \/ failed))
  \/ Tick /\ (\/ Due(now, store.box[fp].seen)
              \/ \E it \in ToSet(store.box[fp].items) : it.id = id /\ Due(now, it.at))

LEMMA HeldStep ==
  ASSUME IInv, [Next]_vars, NEW fp \in Fps, NEW id \in Ids, Holds(store, fp, id), ~Holds(store', fp, id)
  PROVE  MayGo(fp, id)
<1>0. Stored(store) /\ Past(store.box, now) /\ now \in Times /\ Good(disk)
  BY DEF IInv
<1>1. ASSUME NEW q \in Fps, Reg(q) PROVE FALSE
  <2>1. HeldStays(store, store')
    BY <1>0, <1>1, RegistersPast DEF Reg
  <2>2. QED
    BY <2>1 DEF HeldStays
<1>2. ASSUME NEW q \in Fps, Get(q) PROVE FALSE
  <2>1. store' = store \/ store' = Register(store, q, now)
    BY <1>2 DEF Get
  <2>2. HeldStays(store, store')
    BY <1>0, <2>1, RegistersPast DEF HeldStays
  <2>3. QED
    BY <2>2 DEF HeldStays
<1>3. ASSUME NEW q \in Fps, NEW j \in Ids, Put(q, j) PROVE FALSE
  <2>1. HeldStays(store, store')
    BY <1>0, <1>3, DepositsAny DEF Put
  <2>2. QED
    BY <2>1 DEF HeldStays
<1>4. ASSUME NEW q \in Fps, NEW ids \in SUBSET Ids, Ack(q, ids) PROVE MayGo(fp, id)
  <2>1. store' = Without(store, q, ids) /\ store.box[q] # None
    BY <1>4 DEF Ack, Holds, Registered
  <2>2. fp = q /\ id \in ids
    BY <1>0, <2>1, WithoutNamed
  <2>3. QED
    BY <1>4, <2>2 DEF MayGo
<1>5. CASE Tick
  <2>1. store' = Prune(store, now)
    BY <1>5 DEF Tick
  <2>2. \/ Due(now, store.box[fp].seen)
        \/ \E it \in ToSet(store.box[fp].items) : it.id = id /\ Due(now, it.at)
    BY <1>0, <2>1, PrunedIsDue
  <2>3. QED
    BY <1>5, <2>2 DEF MayGo
<1>6. CASE Crash
  BY <1>6 DEF MayGo
<1>7. CASE Exit
  <2>1. CASE pending \/ failed
    BY <1>7, <2>1 DEF MayGo
  <2>2. CASE ~pending /\ ~failed
    <3>1. Saved(store.box, disk)
      BY <2>2, SavedIs DEF IInv, QuietIsSaved
    <3>2. store' = Restore(disk)
      BY <1>7 DEF Exit, Reopened
    <3>3. store'.box = disk
      BY <1>0, <3>2, RestoredIs
    <3>4. Holds(store', fp, id)
      BY <3>1, <3>3 DEF Saved, Holds, Registered
    <3>5. QED
      BY <3>4
  <2>3. QED
    BY <2>1, <2>2
<1>8. CASE Serve \/ Write \/ Stop \/ Time \/ UNCHANGED vars
  BY <1>8 DEF Serve, Write, Stop, Time, vars
<1>9. QED
  BY <1>1, <1>2, <1>3, <1>4, <1>5, <1>6, <1>7, <1>8 DEF Next

\* Mail that was taken stays until its recipient has it or it is due, through
\* restarts and whatever others send.
THEOREM HeldUntilDueTheorem == Spec => HeldUntilDue
<1>1. IInv /\ [Next]_vars =>
        \A fp \in Fps, id \in Ids :
          Holds(store, fp, id) /\ ~Holds(store', fp, id) =>
            \/ \E ids \in SUBSET Ids : id \in ids /\ Ack(fp, ids)
            \/ Crash \/ (Exit /\ (pending \/ failed))
            \/ Tick /\ (\/ Due(now, store.box[fp].seen)
                        \/ \E it \in ToSet(store.box[fp].items) : it.id = id /\ Due(now, it.at))
  BY HeldStep DEF MayGo
<1>2. QED
  BY <1>1, Invariant, PTL DEF Spec, HeldUntilDue

\* Both.
THEOREM MailIsHeldTheorem == Spec => MailIsHeld
  BY BoxesInOrderTheorem, HeldUntilDueTheorem, PTL DEF MailIsHeld
=============================================================================
