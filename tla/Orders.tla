------------------------------- MODULE Orders -------------------------------
(***************************************************************************)
(* sorted() and the list comprehensions with a condition. The community    *)
(* modules sort with SortSeq and select with SelectSeq, of which TLAPS has *)
(* no definition; these are the same, by the place of each element.        *)
(***************************************************************************)
EXTENDS Integers, Sequences, FiniteSets

\* The elements of S, sorted by the pairs of R: each stands behind those that precede it.
Ordered(S, R) ==
  [n \in 1..Cardinality(S) |->
     CHOOSE x \in S : Cardinality({y \in S : <<y, x>> \in R}) = n - 1]

Ascending(S) == Ordered(S, {p \in S \X S : p[1] < p[2]})

\* The elements at these places, in the order of the sequence.
Picked(sequence, places) ==
  LET order == Ascending(places) IN [n \in DOMAIN order |-> sequence[order[n]]]

\* sorted(f.values())[n - 1]: fewer than n values are smaller, and at least n no larger.
Nth(f, n) == CHOOSE v \in {f[x] : x \in DOMAIN f} :
  /\ Cardinality({x \in DOMAIN f : f[x] < v}) < n
  /\ Cardinality({x \in DOMAIN f : f[x] <= v}) >= n

Least(numbers) == CHOOSE n \in numbers : \A m \in numbers : n <= m
Greatest(numbers) == CHOOSE n \in numbers : \A m \in numbers : n >= m

\* sequence[:k]
Top(sequence, k) == SubSeq(sequence, 1, IF k < Len(sequence) THEN k ELSE Len(sequence))

=============================================================================
