------------------------------- MODULE Lists --------------------------------
(* What the code does with arrays: filter() and sort(), and a sum.          *)
EXTENDS Integers, Sequences, SequencesExt

\* The items of s that are in S, in their order.
Only(s, S) == FoldLeft(LAMBDA r, x : IF x \in S THEN Append(r, x) ELSE r, <<>>, s)

\* The elements of S by key, the least first.
SortedBy(S, key) ==
  CHOOSE q \in SetToSeqs(S) : \A i, j \in DOMAIN q : i < j => key[q[i]] <= key[q[j]]

\* The first item of s that passes the test, or none.
FirstThat(s, Test(_), none) ==
  LET i == SelectInSeq(s, Test) IN IF i = 0 THEN none ELSE s[i]

SumOver(S, g) == FoldLeft(LAMBDA n, x : n + g[x], 0, SetToSeq(S))
=============================================================================
