---------------------------- MODULE Orders_proofs ----------------------------
(***************************************************************************)
(* What the other proofs know of data: sorting and selecting, folds and    *)
(* sums, and flattened sequences. The induction theorems of the library    *)
(* take an operator, which the provers cannot instantiate; induction is    *)
(* made here of a least counterexample.                                    *)
(***************************************************************************)
EXTENDS Orders, SequencesExt, FiniteSetTheorems, SequenceTheorems, TLAPS

-----------------------------------------------------------------------------
(* Sorting. *)

StrictOrder(R, S) ==
  /\ \A x \in S : <<x, x>> \notin R
  /\ \A x, y, z \in S : <<x, y>> \in R /\ <<y, z>> \in R => <<x, z>> \in R
  /\ \A x, y \in S : x # y => <<x, y>> \in R \/ <<y, x>> \in R

Behind(x, R, S) == {y \in S : <<y, x>> \in R}

\* What precedes something stands behind fewer.
LEMMA FewerBefore ==
  ASSUME NEW S, IsFiniteSet(S), NEW R, StrictOrder(R, S)
  PROVE  /\ \A x \in S : Cardinality(Behind(x, R, S)) \in 0..(Cardinality(S) - 1)
         /\ \A x, z \in S : <<x, z>> \in R <=>
              Cardinality(Behind(x, R, S)) < Cardinality(Behind(z, R, S))
<1>1. \A x \in S : /\ IsFiniteSet(Behind(x, R, S)) /\ Cardinality(Behind(x, R, S)) \in Nat
                   /\ Cardinality(Behind(x, R, S)) <= Cardinality(S)
                   /\ Cardinality(Behind(x, R, S)) # Cardinality(S)
  <2> SUFFICES ASSUME NEW x \in S
               PROVE  /\ IsFiniteSet(Behind(x, R, S)) /\ Cardinality(Behind(x, R, S)) \in Nat
                      /\ Cardinality(Behind(x, R, S)) <= Cardinality(S)
                      /\ Cardinality(Behind(x, R, S)) # Cardinality(S)
    OBVIOUS
  <2>1. Behind(x, R, S) \in SUBSET S /\ x \notin Behind(x, R, S)
    BY DEF Behind, StrictOrder
  <2> QED  BY <2>1, FS_Subset, FS_CardinalityType
<1>2. \A x, z \in S : <<x, z>> \in R =>
        Cardinality(Behind(x, R, S)) < Cardinality(Behind(z, R, S))
  <2> SUFFICES ASSUME NEW x \in S, NEW z \in S, <<x, z>> \in R
               PROVE  Cardinality(Behind(x, R, S)) < Cardinality(Behind(z, R, S))
    OBVIOUS
  <2>1. /\ Behind(x, R, S) \in SUBSET Behind(z, R, S)
        /\ x \in Behind(z, R, S) /\ x \notin Behind(x, R, S)
    BY DEF Behind, StrictOrder
  <2>2. /\ Cardinality(Behind(x, R, S)) <= Cardinality(Behind(z, R, S))
        /\ Cardinality(Behind(x, R, S)) # Cardinality(Behind(z, R, S))
    BY <1>1, <2>1, FS_Subset
  <2> QED  BY <1>1, <2>2
<1>3. Cardinality(S) \in Nat
  BY FS_CardinalityType
<1>4. \A x \in S : Cardinality(Behind(x, R, S)) \in 0..(Cardinality(S) - 1)
  BY <1>1, <1>3
<1>5. ASSUME NEW x \in S, NEW z \in S,
             Cardinality(Behind(x, R, S)) < Cardinality(Behind(z, R, S))
      PROVE  <<x, z>> \in R
  <2>1. x # z /\ <<z, x>> \notin R
    BY <1>1, <1>2, <1>5
  <2> QED  BY <2>1 DEF StrictOrder
<1> QED  BY <1>2, <1>4, <1>5

\* Ordered lists every element once and in order.
LEMMA OrderedSorts ==
  ASSUME NEW S, IsFiniteSet(S), NEW R, StrictOrder(R, S)
  PROVE  /\ Cardinality(S) \in Nat
         /\ Ordered(S, R) \in [1..Cardinality(S) -> S]
         /\ IsInjective(Ordered(S, R))
         /\ \A x \in S : \E i \in 1..Cardinality(S) : Ordered(S, R)[i] = x
         /\ \A i, j \in 1..Cardinality(S) : i < j <=> <<Ordered(S, R)[i], Ordered(S, R)[j]>> \in R
<1> DEFINE n == Cardinality(S)
           place == [x \in S |-> Cardinality(Behind(x, R, S)) + 1]
           s == Ordered(S, R)
<1>1. n \in Nat
  BY FS_CardinalityType
<1>2. place \in [S -> 1..n]
  BY <1>1, FewerBefore
<1>3. \A x, z \in S : <<x, z>> \in R <=> place[x] < place[z]
  <2>1. \A x, z \in S : <<x, z>> \in R <=>
          Cardinality(Behind(x, R, S)) < Cardinality(Behind(z, R, S))
    BY FewerBefore
  <2>2. \A x \in S : Cardinality(Behind(x, R, S)) \in Int
    BY <1>1, FewerBefore
  <2>3. \A x \in S : place[x] = Cardinality(Behind(x, R, S)) + 1
    OBVIOUS
  <2> SUFFICES ASSUME NEW x \in S, NEW z \in S
               PROVE  <<x, z>> \in R <=> place[x] < place[z]
    OBVIOUS
  <2> HIDE DEF place
  <2>4. <<x, z>> \in R <=> Cardinality(Behind(x, R, S)) < Cardinality(Behind(z, R, S))
    BY <2>1
  <2>5. place[x] = Cardinality(Behind(x, R, S)) + 1 /\ place[z] = Cardinality(Behind(z, R, S)) + 1
    BY <2>3
  <2> QED  BY <2>2, <2>4, <2>5
<1>4. IsInjective(place)
  BY <1>2, <1>3 DEF IsInjective, StrictOrder
<1>5. place \in Injection(S, 1..n)
  BY <1>2, <1>4 DEF Injection
<1>6. IsFiniteSet(1..n) /\ Cardinality(1..n) = n
  <2>1. 1 \in Int /\ n \in Int
    BY <1>1
  <2>2. IsFiniteSet(1..n) /\ Cardinality(1..n) = IF 1 > n THEN 0 ELSE n - 1 + 1
    BY <2>1, FS_Interval
  <2> QED  BY <1>1, <2>2
<1>7. \A i \in 1..n : \E x \in S : place[x] = i
  <2>1. place \in Surjection(S, 1..n)
    BY <1>5, <1>6, FS_Injection
  <2> QED  BY <2>1 DEF Surjection
<1> HIDE DEF place
<1>8. \A i \in 1..n : s[i] \in S /\ place[s[i]] = i
  <2> SUFFICES ASSUME NEW i \in 1..n
               PROVE  s[i] \in S /\ place[s[i]] = i
    OBVIOUS
  <2>1. PICK x \in S : place[x] = i
    BY <1>7
  <2>2. Cardinality(Behind(x, R, S)) = i - 1
    BY <1>1, <2>1, FewerBefore DEF place
  <2>3. s[i] = CHOOSE y \in S : Cardinality({z \in S : <<z, y>> \in R}) = i - 1
    BY DEF Ordered
  <2>4. s[i] \in S /\ Cardinality({z \in S : <<z, s[i]>> \in R}) = i - 1
    BY <2>2, <2>3 DEF Behind
  <2> QED  BY <2>4 DEF place, Behind
<1>9. s \in [1..n -> S]
  BY <1>8 DEF Ordered
<1>10. IsInjective(s)
  BY <1>8, <1>9 DEF IsInjective
<1>11. \A x \in S : \E i \in 1..n : s[i] = x
  BY <1>2, <1>4, <1>8 DEF IsInjective
<1>12. \A i, j \in 1..n : i < j <=> <<s[i], s[j]>> \in R
  BY <1>3, <1>8
<1> QED  BY <1>1, <1>9, <1>10, <1>11, <1>12

\* Numbers, sorted.
LEMMA AscendingSorts ==
  ASSUME NEW S, IsFiniteSet(S), S \subseteq Int
  PROVE  /\ Cardinality(S) \in Nat
         /\ Ascending(S) \in [1..Cardinality(S) -> S]
         /\ IsInjective(Ascending(S))
         /\ ToSet(Ascending(S)) = S
         /\ \A i, j \in 1..Cardinality(S) : i < j <=> Ascending(S)[i] < Ascending(S)[j]
<1> DEFINE R == {p \in S \X S : p[1] < p[2]}
<1>1. \A x, y \in S : <<x, y>> \in R <=> x < y
  OBVIOUS
<1> HIDE DEF R
<1>2. StrictOrder(R, S)
  BY <1>1 DEF StrictOrder
<1>3. Ascending(S) = Ordered(S, R)
  BY DEF Ascending, R
<1>4. /\ Cardinality(S) \in Nat
      /\ Ascending(S) \in [1..Cardinality(S) -> S]
      /\ IsInjective(Ascending(S))
      /\ \A x \in S : \E i \in 1..Cardinality(S) : Ascending(S)[i] = x
      /\ \A i, j \in 1..Cardinality(S) : i < j <=> <<Ascending(S)[i], Ascending(S)[j]>> \in R
  BY <1>2, <1>3, OrderedSorts
<1>5. ToSet(Ascending(S)) = S
  BY <1>4 DEF ToSet
<1> QED  BY <1>1, <1>4, <1>5

\* Every sequence is one over its own elements.
LEMMA SequenceOverItself ==
  ASSUME NEW s, NEW n \in Nat, s = [i \in 1..n |-> s[i]]
  PROVE  /\ s \in Seq(ToSet(s)) /\ Len(s) = n /\ DOMAIN s = 1..n
<1>1. s \in [1..n -> ToSet(s)]
  BY DEF ToSet
<1> QED  BY <1>1

\* What is picked is what stands at those places, in the order of the sequence.
LEMMA PickedSelects ==
  ASSUME NEW T, NEW s \in Seq(T), NEW places \in SUBSET (DOMAIN s)
  PROVE  /\ IsFiniteSet(places)
         /\ Picked(s, places) \in Seq(T)
         /\ Len(Picked(s, places)) = Cardinality(places)
         /\ ToSet(Picked(s, places)) = {s[i] : i \in places}
         /\ IsInjective(s) => IsInjective(Picked(s, places))
<1> DEFINE order == Ascending(places)
           n == Cardinality(places)
           picked == Picked(s, places)
<1>1. DOMAIN s = 1..Len(s) /\ Len(s) \in Nat
  OBVIOUS
<1>2. IsFiniteSet(places) /\ places \subseteq Int
  <2>1. IsFiniteSet(1..Len(s))
    BY <1>1, FS_Interval
  <2> QED  BY <1>1, <2>1, FS_Subset
<1>3. /\ n \in Nat /\ order \in [1..n -> places]
      /\ IsInjective(order) /\ ToSet(order) = places
  BY <1>2, AscendingSorts
<1> HIDE DEF order
<1>4. picked = [k \in 1..n |-> s[order[k]]]
  BY <1>3 DEF Picked, order
<1>5. \A k \in 1..n : s[order[k]] \in T
  BY <1>1, <1>3
<1>6. picked \in [1..n -> T]
  BY <1>4, <1>5
<1>7. picked \in Seq(T) /\ Len(picked) = n
  BY <1>3, <1>6
<1>8. ToSet(picked) = {s[i] : i \in places}
  <2>1. ToSet(picked) = {picked[k] : k \in 1..n}
    BY <1>6 DEF ToSet
  <2>2. \A i \in places : \E k \in 1..n : order[k] = i
    BY <1>3 DEF ToSet
  <2>3. \A k \in 1..n : picked[k] = s[order[k]] /\ order[k] \in places
    BY <1>3, <1>4
  <2> HIDE DEF picked
  <2>4. ToSet(picked) \subseteq {s[i] : i \in places}
    BY <2>1, <2>3
  <2>5. {s[i] : i \in places} \subseteq ToSet(picked)
    BY <2>1, <2>2, <2>3
  <2> QED  BY <2>4, <2>5
<1>9. ASSUME IsInjective(s)
      PROVE  IsInjective(picked)
  <2> SUFFICES ASSUME NEW k \in 1..n, NEW l \in 1..n, picked[k] = picked[l]
               PROVE  k = l
    BY <1>6 DEF IsInjective
  <2>1. s[order[k]] = s[order[l]] /\ order[k] \in DOMAIN s /\ order[l] \in DOMAIN s
    BY <1>3, <1>4
  <2>2. order[k] = order[l]
    BY <1>9, <2>1 DEF IsInjective
  <2> QED  BY <1>3, <2>2 DEF IsInjective
<1> QED  BY <1>2, <1>7, <1>8, <1>9

\* The first k elements, or all of them.
LEMMA TopCuts ==
  ASSUME NEW T, NEW s \in Seq(T), NEW k \in Nat
  PROVE  /\ Top(s, k) \in Seq(T)
         /\ Len(Top(s, k)) = IF k < Len(s) THEN k ELSE Len(s)
         /\ \A i \in 1..Len(Top(s, k)) : i \in 1..Len(s) /\ Top(s, k)[i] = s[i]
         /\ ToSet(Top(s, k)) \subseteq ToSet(s)
         /\ IsInjective(s) => IsInjective(Top(s, k))
<1> DEFINE m == IF k < Len(s) THEN k ELSE Len(s)
           top == Top(s, k)
<1>1. /\ m \in Nat /\ m <= Len(s) /\ m <= k /\ top = SubSeq(s, 1, m)
      /\ m = IF k < Len(s) THEN k ELSE Len(s)
  BY DEF Top
<1>2. \A i \in 1..m : s[i] \in T
  BY <1>1
<1> HIDE DEF m, top
<1>3. /\ top \in Seq(T) /\ Len(top) = IF 1 <= m THEN m - 1 + 1 ELSE 0
      /\ \A i \in 1..(m - 1 + 1) : top[i] = s[1 + i - 1]
  BY <1>1, <1>2, SubSeqProperties
<1>4. Len(top) = m /\ \A i \in 1..m : top[i] = s[i]
  BY <1>1, <1>3
<1>5. ToSet(top) \subseteq ToSet(s)
  BY <1>1, <1>3, <1>4 DEF ToSet
<1>6. IsInjective(s) => IsInjective(top)
  BY <1>1, <1>3, <1>4 DEF IsInjective
<1> QED  BY <1>1, <1>3, <1>4, <1>5, <1>6 DEF m, top

-----------------------------------------------------------------------------
(* Counting. *)

\* The image of a finite set under a function; as many as before if it is injective.
LEMMA ImageCounts ==
  ASSUME NEW S, IsFiniteSet(S), NEW f
  PROVE  /\ IsFiniteSet({f[x] : x \in S})
         /\ Cardinality({f[x] : x \in S}) <= Cardinality(S)
         /\ (\A x, y \in S : f[x] = f[y] => x = y)
              => Cardinality({f[x] : x \in S}) = Cardinality(S)
<1> DEFINE T == {f[x] : x \in S}
           g == [x \in S |-> f[x]]
<1>1. g \in Surjection(S, T)
  BY DEF Surjection
<1>2. /\ IsFiniteSet(T) /\ Cardinality(T) <= Cardinality(S)
      /\ Cardinality(T) = Cardinality(S) <=> g \in Injection(S, T)
  BY <1>1, FS_Surjection
<1>3. (\A x, y \in S : f[x] = f[y] => x = y) => g \in Injection(S, T)
  BY DEF Injection, IsInjective
<1> QED  BY <1>2, <1>3

-----------------------------------------------------------------------------
(* Folding, by the least set on which it would fail. *)

LEMMA LeastCounterexample ==
  ASSUME NEW Bad \in SUBSET Nat, 0 \notin Bad,
         \A n \in Nat : n \notin Bad => n + 1 \notin Bad
  PROVE  Bad = {}
<1> SUFFICES ASSUME Bad # {} PROVE FALSE
  OBVIOUS
<1>1. PICK n \in Bad : \A m \in Bad : ~ (<<m, n>> \in OpToRel(<, Nat))
  BY NatLessThanWellFounded, WFMin
<1>2. \A m \in Bad : ~ (m < n)
  BY <1>1 DEF OpToRel
<1>3. n # 0 /\ n - 1 \in Nat
  OBVIOUS
<1>4. n - 1 \notin Bad
  BY <1>2
<1>5. (n - 1) + 1 \notin Bad
  BY <1>3, <1>4
<1> QED  BY <1>3, <1>5

Pick(s) == CHOOSE x \in s : TRUE

\* g folds the sets of S with f, one element after the other.
Folds(g, f, base, S) == \A s \in S :
  g[s] = IF s = {} THEN base ELSE f[<<Pick(s), g[s \ {Pick(s)}]>>]

UpTo(D, n) == {s \in SUBSET D : Cardinality(s) <= n}

LEMMA FoldExists ==
  ASSUME NEW D, IsFiniteSet(D), NEW V, NEW base \in V, NEW f \in [D \X V -> V]
  PROVE  \E g \in [SUBSET D -> V] : Folds(g, f, base, SUBSET D)
<1> DEFINE Bad == {n \in Nat : ~ \E g \in [SUBSET D -> V] : Folds(g, f, base, UpTo(D, n))}
<1>1. \A s \in SUBSET D : IsFiniteSet(s) /\ Cardinality(s) \in Nat
                          /\ Cardinality(s) <= Cardinality(D) /\ (Cardinality(s) = 0 <=> s = {})
  BY FS_Subset, FS_CardinalityType, FS_EmptySet
<1>2. 0 \notin Bad
  <2> DEFINE g == [s \in SUBSET D |-> base]
  <2>1. \A s \in UpTo(D, 0) : s = {}
    BY <1>1 DEF UpTo
  <2>2. g \in [SUBSET D -> V] /\ Folds(g, f, base, UpTo(D, 0))
    BY <2>1 DEF Folds, UpTo
  <2> QED  BY <2>2
<1>3. ASSUME NEW n \in Nat, n \notin Bad
      PROVE  n + 1 \notin Bad
  <2>1. PICK g \in [SUBSET D -> V] : Folds(g, f, base, UpTo(D, n))
    BY <1>3
  <2> DEFINE h == [s \in SUBSET D |-> IF s \in UpTo(D, n) THEN g[s]
                                      ELSE f[<<Pick(s), g[s \ {Pick(s)}]>>]]
  <2>2. \A s \in SUBSET D : s # {} =>
          /\ Pick(s) \in s /\ s \ {Pick(s)} \in SUBSET D
          /\ Cardinality(s \ {Pick(s)}) = Cardinality(s) - 1
    BY <1>1, FS_RemoveElement DEF Pick
  <2>3. h \in [SUBSET D -> V]
    <3> SUFFICES ASSUME NEW s \in SUBSET D, s \notin UpTo(D, n)
                 PROVE  f[<<Pick(s), g[s \ {Pick(s)}]>>] \in V
      BY <2>1
    <3>1. s # {}
      BY <1>1 DEF UpTo
    <3> QED  BY <2>1, <2>2, <3>1
  <2>4. Folds(h, f, base, UpTo(D, n + 1))
    <3> SUFFICES ASSUME NEW s \in UpTo(D, n + 1)
                 PROVE  h[s] = IF s = {} THEN base ELSE f[<<Pick(s), h[s \ {Pick(s)}]>>]
      BY DEF Folds
    <3>1. s \in SUBSET D
      BY DEF UpTo
    <3>2. CASE s = {}
      <4>1. s \in UpTo(D, n)
        BY <1>1, <3>1, <3>2 DEF UpTo
      <4>2. g[s] = base
        BY <2>1, <3>2, <4>1 DEF Folds
      <4> QED  BY <3>1, <3>2, <4>1, <4>2
    <3>3. CASE s # {}
      <4>1. s \ {Pick(s)} \in UpTo(D, n)
        BY <1>1, <2>2, <3>1, <3>3 DEF UpTo
      <4>2. h[s \ {Pick(s)}] = g[s \ {Pick(s)}]
        BY <2>2, <3>1, <3>3, <4>1
      <4>3. h[s] = f[<<Pick(s), g[s \ {Pick(s)}]>>]
        BY <2>1, <3>1, <3>3 DEF Folds
      <4> QED  BY <3>3, <4>2, <4>3
    <3> QED  BY <3>2, <3>3
  <2> HIDE DEF h
  <2> QED  BY <2>3, <2>4
<1>4. Bad = {}
  <2>1. Bad \in SUBSET Nat
    OBVIOUS
  <2> HIDE DEF Bad
  <2> QED  BY <1>2, <1>3, <2>1, LeastCounterexample
<1>5. Cardinality(D) \in Nat /\ UpTo(D, Cardinality(D)) = SUBSET D
  BY <1>1, FS_CardinalityType DEF UpTo
<1>6. \E g \in [SUBSET D -> V] : Folds(g, f, base, UpTo(D, Cardinality(D)))
  BY <1>4, <1>5
<1> QED  BY <1>5, <1>6

Commutes(f, D, V) ==
  \A x, y \in D, v \in V : f[<<x, f[<<y, v>>]>>] = f[<<y, f[<<x, v>>]>>]

AnyLast(g, f, D) == \A s \in SUBSET D : \A x \in s : g[s] = f[<<x, g[s \ {x}]>>]

\* If the order does not matter, any element may be the last one.
LEMMA FoldCommutes ==
  ASSUME NEW D, IsFiniteSet(D), NEW V, NEW base \in V, NEW f \in [D \X V -> V],
         Commutes(f, D, V), NEW g \in [SUBSET D -> V], Folds(g, f, base, SUBSET D)
  PROVE  AnyLast(g, f, D)
<1> DEFINE Bad == {n \in Nat : ~ \A s \in UpTo(D, n) : \A x \in s : g[s] = f[<<x, g[s \ {x}]>>]}
<1>1. \A s \in SUBSET D : IsFiniteSet(s) /\ Cardinality(s) \in Nat
                          /\ Cardinality(s) <= Cardinality(D) /\ (Cardinality(s) = 0 <=> s = {})
  BY FS_Subset, FS_CardinalityType, FS_EmptySet
<1>2. 0 \notin Bad
  BY <1>1 DEF UpTo
<1>3. ASSUME NEW n \in Nat, n \notin Bad
      PROVE  n + 1 \notin Bad
  <2> SUFFICES ASSUME NEW s \in UpTo(D, n + 1), NEW x \in s
               PROVE  g[s] = f[<<x, g[s \ {x}]>>]
    OBVIOUS
  <2> DEFINE y == Pick(s)
  <2>1. s \in SUBSET D /\ s # {} /\ y \in s /\ Cardinality(s) <= n + 1
    BY DEF UpTo, Pick
  <2>2. g[s] = f[<<y, g[s \ {y}]>>]
    BY <2>1 DEF Folds
  <2> HIDE DEF y
  <2>3. CASE x = y
    BY <2>2, <2>3
  <2>4. CASE x # y
    <3>1. /\ s \ {x} \in UpTo(D, n) /\ y \in s \ {x}
          /\ s \ {y} \in UpTo(D, n) /\ x \in s \ {y}
      <4>1. /\ Cardinality(s \ {x}) = Cardinality(s) - 1
            /\ Cardinality(s \ {y}) = Cardinality(s) - 1
        BY <1>1, <2>1, FS_RemoveElement
      <4>2. Cardinality(s) \in Nat
        BY <1>1, <2>1
      <4> QED  BY <2>1, <2>4, <4>1, <4>2 DEF UpTo
    <3>2. \A t \in UpTo(D, n) : \A z \in t : g[t] = f[<<z, g[t \ {z}]>>]
      BY <1>3
    <3>3. g[s \ {x}] = f[<<y, g[(s \ {x}) \ {y}]>>] /\ g[s \ {y}] = f[<<x, g[(s \ {y}) \ {x}]>>]
      BY <3>1, <3>2
    <3>4. (s \ {x}) \ {y} = (s \ {y}) \ {x} /\ (s \ {y}) \ {x} \in SUBSET D
      BY <2>1
    <3>5. g[(s \ {y}) \ {x}] \in V /\ x \in D /\ y \in D
      BY <2>1, <3>4
    <3>6. f[<<y, f[<<x, g[(s \ {y}) \ {x}]>>]>>] = f[<<x, f[<<y, g[(s \ {y}) \ {x}]>>]>>]
      BY <3>5 DEF Commutes
    <3>7. g[s] = f[<<y, f[<<x, g[(s \ {y}) \ {x}]>>]>>]
      BY <2>2, <3>3
    <3>8. g[s \ {x}] = f[<<y, g[(s \ {y}) \ {x}]>>]
      BY <3>3, <3>4
    <3> QED  BY <3>6, <3>7, <3>8
  <2> QED  BY <2>3, <2>4
<1>4. Bad = {}
  <2>1. Bad \in SUBSET Nat
    OBVIOUS
  <2> HIDE DEF Bad
  <2> QED  BY <1>2, <1>3, <2>1, LeastCounterexample
<1>5. Cardinality(D) \in Nat /\ UpTo(D, Cardinality(D)) = SUBSET D
  BY <1>1, FS_CardinalityType DEF UpTo
<1>6. \A s \in UpTo(D, Cardinality(D)) : \A x \in s : g[s] = f[<<x, g[s \ {x}]>>]
  BY <1>4, <1>5
<1> QED  BY <1>5, <1>6 DEF AnyLast

Determined(g, h, D) ==
  \A s \in SUBSET D : s # {} /\ g[s \ {Pick(s)}] = h[s \ {Pick(s)}] => g[s] = h[s]

\* Two functions that agree on the empty set, and on a set whenever they agree without the
\* element that is picked of it, agree.
LEMMA FoldUnique ==
  ASSUME NEW D, IsFiniteSet(D), NEW g, NEW h, g[{}] = h[{}], Determined(g, h, D)
  PROVE  \A s \in SUBSET D : g[s] = h[s]
<1> DEFINE Bad == {n \in Nat : ~ \A s \in UpTo(D, n) : g[s] = h[s]}
<1>1. \A s \in SUBSET D : IsFiniteSet(s) /\ Cardinality(s) \in Nat
                          /\ Cardinality(s) <= Cardinality(D) /\ (Cardinality(s) = 0 <=> s = {})
  BY FS_Subset, FS_CardinalityType, FS_EmptySet
<1>2. 0 \notin Bad
  <2>1. \A s \in UpTo(D, 0) : s = {}
    BY <1>1 DEF UpTo
  <2> QED  BY <2>1
<1>3. ASSUME NEW n \in Nat, n \notin Bad
      PROVE  n + 1 \notin Bad
  <2> SUFFICES ASSUME NEW s \in UpTo(D, n + 1), s # {}
               PROVE  g[s] = h[s]
    OBVIOUS
  <2>1. s \in SUBSET D /\ Pick(s) \in s /\ Cardinality(s) <= n + 1
    BY DEF UpTo, Pick
  <2>2. s \ {Pick(s)} \in UpTo(D, n)
    <3>1. Cardinality(s \ {Pick(s)}) = Cardinality(s) - 1
      BY <1>1, <2>1, FS_RemoveElement
    <3>2. Cardinality(s) \in Nat
      BY <1>1, <2>1
    <3> QED  BY <2>1, <3>1, <3>2 DEF UpTo
  <2>3. g[s \ {Pick(s)}] = h[s \ {Pick(s)}]
    BY <1>3, <2>2
  <2> QED  BY <2>1, <2>3 DEF Determined
<1>4. Bad = {}
  <2>1. Bad \in SUBSET Nat
    OBVIOUS
  <2> HIDE DEF Bad
  <2> QED  BY <1>2, <1>3, <2>1, LeastCounterexample
<1>5. Cardinality(D) \in Nat /\ UpTo(D, Cardinality(D)) = SUBSET D
  BY <1>1, FS_CardinalityType DEF UpTo
<1>6. \A s \in UpTo(D, Cardinality(D)) : g[s] = h[s]
  BY <1>4, <1>5
<1> QED  BY <1>5, <1>6

\* Any summand may be taken out of a sum.
AnySummand(g, w, D) == \A s \in SUBSET D : \A x \in s : g[s] = w[x] + g[s \ {x}]

\* A sum of natural numbers.
LEMMA SumsUp ==
  ASSUME NEW D, IsFiniteSet(D), NEW w \in [D -> Nat]
  PROVE  \E g \in [SUBSET D -> Nat] :
           SumFunction(w) = g[D] /\ g[{}] = 0 /\ AnySummand(g, w, D)
<1> DEFINE f == [p \in D \X Nat |-> w[p[1]] + p[2]]
           Sums(g) == [s \in SUBSET D |-> IF s = {} THEN 0
                                          ELSE w[Pick(s)] + g[s \ {Pick(s)}]]
           h == CHOOSE g : g = Sums(g)
<1>1. f \in [D \X Nat -> Nat] /\ \A x \in D, v \in Nat : f[<<x, v>>] = w[x] + v
  OBVIOUS
<1>2. \A s \in SUBSET D : s # {} => Pick(s) \in D /\ s \ {Pick(s)} \in SUBSET D
  BY DEF Pick
<1> HIDE DEF f
<1>3. PICK g \in [SUBSET D -> Nat] : Folds(g, f, 0, SUBSET D)
  BY <1>1, FoldExists
<1>4. \A s \in SUBSET D : s # {} => g[s] = w[Pick(s)] + g[s \ {Pick(s)}]
  <2> SUFFICES ASSUME NEW s \in SUBSET D, s # {}
               PROVE  g[s] = w[Pick(s)] + g[s \ {Pick(s)}]
    OBVIOUS
  <2>1. g[s] = f[<<Pick(s), g[s \ {Pick(s)}]>>]
    BY <1>3 DEF Folds
  <2>2. Pick(s) \in D /\ g[s \ {Pick(s)}] \in Nat
    BY <1>2, <1>3
  <2> QED  BY <1>1, <2>1, <2>2
<1>5. g[{}] = 0
  BY <1>3 DEF Folds
<1>6. g = Sums(g)
  BY <1>3, <1>4, <1>5
<1>7. h = Sums(h)
  BY <1>6
<1> HIDE DEF h
<1>8. h[{}] = 0 /\ \A s \in SUBSET D : s # {} => h[s] = w[Pick(s)] + h[s \ {Pick(s)}]
  BY <1>7
<1>9. h[D] = g[D]
  <2>1. Determined(h, g, D)
    BY <1>4, <1>8 DEF Determined
  <2>2. D \in SUBSET D
    OBVIOUS
  <2> QED  BY <1>5, <1>8, <2>1, <2>2, FoldUnique
<1>10. SumFunction(w) = h[D]
  BY DEF h, SumFunction, SumFunctionOnSet, FoldFunctionOnSet, MapThenFoldSet, Pick
<1>11. Commutes(f, D, Nat)
  <2> SUFFICES ASSUME NEW x \in D, NEW y \in D, NEW v \in Nat
               PROVE  f[<<x, f[<<y, v>>]>>] = f[<<y, f[<<x, v>>]>>]
    BY DEF Commutes
  <2>1. f[<<y, v>>] = w[y] + v /\ f[<<x, v>>] = w[x] + v
    BY <1>1
  <2>2. w[y] + v \in Nat /\ w[x] + v \in Nat /\ w[x] \in Nat /\ w[y] \in Nat
    OBVIOUS
  <2>3. f[<<x, w[y] + v>>] = w[x] + (w[y] + v) /\ f[<<y, w[x] + v>>] = w[y] + (w[x] + v)
    BY <1>1, <2>2
  <2> QED  BY <2>1, <2>2, <2>3
<1>12. AnyLast(g, f, D)
  BY <1>1, <1>3, <1>11, FoldCommutes
<1>13. AnySummand(g, w, D)
  <2> SUFFICES ASSUME NEW s \in SUBSET D, NEW x \in s
               PROVE  g[s] = w[x] + g[s \ {x}]
    BY DEF AnySummand
  <2>1. x \in D /\ g[s \ {x}] \in Nat
    BY <1>3
  <2> QED  BY <1>1, <1>12, <2>1 DEF AnyLast
<1> QED  BY <1>3, <1>5, <1>9, <1>10, <1>13

\* A product of positive numbers.
LEMMA ProductsMultiply ==
  ASSUME NEW n \in Nat, NEW w \in [1..n -> Nat \ {0}]
  PROVE  \E g \in [SUBSET (1..n) -> Nat \ {0}] :
           /\ FoldSeq(LAMBDA a, b : a * b, 1, w) = g[1..n]
           /\ \A s \in SUBSET (1..n) : \A x \in s : g[s] = w[x] * g[s \ {x}]
<1> DEFINE D == 1..n
           V == Nat \ {0}
           f == [p \in D \X V |-> w[p[1]] * p[2]]
           Products(g) == [s \in SUBSET D |-> IF s = {} THEN 1
                                              ELSE w[Pick(s)] * g[s \ {Pick(s)}]]
           h == CHOOSE g : g = Products(g)
<1>1. \A a, b, c \in V : a * b \in V /\ a * (b * c) = b * (a * c)
  OBVIOUS
<1>2. f \in [D \X V -> V] /\ \A x \in D, v \in V : f[<<x, v>>] = w[x] * v
  <2>1. \A p \in D \X V : w[p[1]] \in V /\ p[2] \in V
    OBVIOUS
  <2> HIDE DEF V
  <2> QED  BY <1>1, <2>1
<1>3. \A s \in SUBSET D : s # {} => Pick(s) \in D /\ s \ {Pick(s)} \in SUBSET D
  BY DEF Pick
<1>4. IsFiniteSet(D)
  <2>1. 1 \in Int /\ n \in Int
    OBVIOUS
  <2> QED  BY <2>1, FS_Interval
<1>5. 1 \in V /\ w \in [D -> V]
  OBVIOUS
<1> HIDE DEF f, V, D
<1>6. PICK g \in [SUBSET D -> V] : Folds(g, f, 1, SUBSET D)
  BY <1>2, <1>4, <1>5, FoldExists
<1>7. \A s \in SUBSET D : s # {} => g[s] = w[Pick(s)] * g[s \ {Pick(s)}]
  <2> SUFFICES ASSUME NEW s \in SUBSET D, s # {}
               PROVE  g[s] = w[Pick(s)] * g[s \ {Pick(s)}]
    OBVIOUS
  <2>1. g[s] = f[<<Pick(s), g[s \ {Pick(s)}]>>]
    BY <1>6 DEF Folds
  <2>2. Pick(s) \in D /\ g[s \ {Pick(s)}] \in V
    BY <1>3, <1>6
  <2> QED  BY <1>2, <2>1, <2>2
<1>8. g[{}] = 1
  BY <1>6 DEF Folds
<1>9. g = Products(g)
  BY <1>6, <1>7, <1>8
<1>10. h = Products(h)
  BY <1>9
<1> HIDE DEF h
<1>11. h[{}] = 1 /\ \A s \in SUBSET D : s # {} => h[s] = w[Pick(s)] * h[s \ {Pick(s)}]
  BY <1>10
<1>12. h[D] = g[D]
  <2>1. Determined(h, g, D)
    BY <1>7, <1>11 DEF Determined
  <2>2. D \in SUBSET D
    OBVIOUS
  <2> QED  BY <1>4, <1>8, <1>11, <2>1, <2>2, FoldUnique
<1>13. FoldSeq(LAMBDA a, b : a * b, 1, w) = h[D]
  <2>1. DOMAIN w = D
    BY <1>5
  <2> QED  BY <2>1 DEF h, FoldSeq, FoldFunction, FoldFunctionOnSet, MapThenFoldSet, Pick
<1>14. Commutes(f, D, V)
  <2> SUFFICES ASSUME NEW x \in D, NEW y \in D, NEW v \in V
               PROVE  f[<<x, f[<<y, v>>]>>] = f[<<y, f[<<x, v>>]>>]
    BY DEF Commutes
  <2>1. f[<<y, v>>] = w[y] * v /\ f[<<x, v>>] = w[x] * v
    BY <1>2
  <2>2. w[y] * v \in V /\ w[x] * v \in V /\ w[x] \in V /\ w[y] \in V
    BY <1>1, <1>5
  <2>3. f[<<x, w[y] * v>>] = w[x] * (w[y] * v) /\ f[<<y, w[x] * v>>] = w[y] * (w[x] * v)
    BY <1>2, <2>2
  <2> QED  BY <1>1, <2>1, <2>2, <2>3, ZenonT(30)
<1>15. AnyLast(g, f, D)
  BY <1>2, <1>4, <1>5, <1>6, <1>14, FoldCommutes
<1>16. \A s \in SUBSET D : \A x \in s : g[s] = w[x] * g[s \ {x}]
  <2> SUFFICES ASSUME NEW s \in SUBSET D, NEW x \in s
               PROVE  g[s] = w[x] * g[s \ {x}]
    OBVIOUS
  <2>1. x \in D /\ g[s \ {x}] \in V
    BY <1>6
  <2> QED  BY <1>2, <1>15, <2>1 DEF AnyLast
<1> QED  BY <1>6, <1>12, <1>13, <1>16 DEF D, V

-----------------------------------------------------------------------------
(* Sorting what is sorted. *)

Increasing(f, n) ==
  /\ n \in Nat /\ f = [i \in 1..n |-> f[i]] /\ \A i \in 1..n : f[i] \in Int
  /\ \A i, j \in 1..n : i < j => f[i] < f[j]

LEMMA IncreasingIsSorted ==
  ASSUME NEW f, NEW n, Increasing(f, n)
  PROVE  /\ IsFiniteSet(ToSet(f)) /\ Cardinality(ToSet(f)) = n
         /\ Ascending(ToSet(f)) = f
<1> DEFINE S == ToSet(f)
           R == {p \in S \X S : p[1] < p[2]}
<1>1. /\ n \in Nat /\ f = [i \in 1..n |-> f[i]]
      /\ S = {f[i] : i \in 1..n}
      /\ \A i \in 1..n : f[i] \in Int /\ f[i] \in S
      /\ \A i, j \in 1..n : i < j => f[i] < f[j]
  BY DEF Increasing, ToSet
<1>2. \A x, y \in S : <<x, y>> \in R <=> x < y
  OBVIOUS
<1>3. Ascending(S) = Ordered(S, R)
  BY DEF Ascending
<1> HIDE DEF S, R
<1>4. \A i, j \in 1..n : i < j <=> f[i] < f[j]
  <2> SUFFICES ASSUME NEW i \in 1..n, NEW j \in 1..n, f[i] < f[j]
               PROVE  i < j
    BY <1>1
  <2>1. i \in Int /\ j \in Int /\ i # j /\ ~ (j < i)
    BY <1>1, SMTT(30)
  <2> QED  BY <2>1
<1>5. f \in Bijection(1..n, S)
  <2>1. f \in [1..n -> S]
    BY <1>1
  <2>2. IsInjective(f)
    <3> SUFFICES ASSUME NEW i \in 1..n, NEW j \in 1..n, f[i] = f[j]
                 PROVE  i = j
      BY <2>1 DEF IsInjective
    <3>1. i \in Int /\ j \in Int /\ ~ (i < j) /\ ~ (j < i)
      BY <1>1
    <3> QED  BY <3>1
  <2>3. \A x \in S : \E i \in 1..n : f[i] = x
    BY <1>1
  <2> QED  BY <2>1, <2>2, <2>3 DEF Bijection, Injection, Surjection
<1>6. IsFiniteSet(S) /\ Cardinality(S) = n
  <2>1. 1 \in Int /\ n \in Int
    BY <1>1
  <2>2. IsFiniteSet(1..n) /\ Cardinality(1..n) = IF 1 > n THEN 0 ELSE n - 1 + 1
    BY <2>1, FS_Interval
  <2>3. Cardinality(1..n) = n
    BY <1>1, <2>2
  <2>4. ExistsBijection(1..n, S)
    BY <1>5 DEF ExistsBijection
  <2> QED  BY <2>2, <2>3, <2>4, FS_Bijection
<1>7. S \subseteq Int
  BY <1>1
<1>8. StrictOrder(R, S)
  BY <1>2, <1>7 DEF StrictOrder
<1>9. \A i \in 1..n : Cardinality(Behind(f[i], R, S)) = i - 1
  <2> SUFFICES ASSUME NEW i \in 1..n
               PROVE  Cardinality(Behind(f[i], R, S)) = i - 1
    OBVIOUS
  <2> DEFINE B == Behind(f[i], R, S)
             g == [k \in 1..(i - 1) |-> f[k]]
             m == i - 1
  <2>1. m \in Nat /\ \A k \in 1..m : k \in 1..n /\ k < i
    BY <1>1
  <2>2. \A k \in 1..n : f[k] \in B <=> k < i
    BY <1>1, <1>2, <1>4 DEF Behind
  <2>3. \A x \in B : \E k \in 1..n : x = f[k]
    BY <1>1 DEF Behind
  <2>4. \A k \in 1..n : k < i => k \in 1..m
    BY <1>1
  <2> HIDE DEF B
  <2>5. g \in [1..m -> B] /\ \A k \in 1..m : g[k] = f[k]
    BY <2>1, <2>2
  <2> HIDE DEF g, m
  <2>6. IsInjective(g)
    <3>1. IsInjective(f) /\ DOMAIN f = 1..n
      BY <1>5 DEF Bijection, Injection
    <3> QED  BY <2>1, <2>5, <3>1 DEF IsInjective
  <2>7. \A x \in B : \E k \in 1..m : g[k] = x
    BY <2>2, <2>3, <2>4, <2>5
  <2>8. ExistsBijection(1..m, B)
    BY <2>5, <2>6, <2>7 DEF ExistsBijection, Bijection, Injection, Surjection
  <2>9. IsFiniteSet(1..m) /\ Cardinality(1..m) = m
    <3>1. 1 \in Int /\ m \in Int
      BY <2>1
    <3>2. IsFiniteSet(1..m) /\ Cardinality(1..m) = IF 1 > m THEN 0 ELSE m - 1 + 1
      BY <3>1, FS_Interval
    <3> QED  BY <2>1, <3>2
  <2>10. Cardinality(B) = m
    BY <2>8, <2>9, FS_Bijection
  <2> QED  BY <2>10 DEF B, m
<1>10. \A i \in 1..n : Ordered(S, R)[i] = f[i]
  <2> SUFFICES ASSUME NEW i \in 1..n
               PROVE  Ordered(S, R)[i] = f[i]
    OBVIOUS
  <2>1. Ordered(S, R)[i] = CHOOSE x \in S : Cardinality(Behind(x, R, S)) = i - 1
    BY <1>6 DEF Ordered, Behind
  <2>2. f[i] \in S /\ Cardinality(Behind(f[i], R, S)) = i - 1
    BY <1>1, <1>9
  <2>3. ASSUME NEW x \in S, Cardinality(Behind(x, R, S)) = i - 1
        PROVE  x = f[i]
    <3>1. PICK k \in 1..n : x = f[k]
      BY <1>1
    <3>2. k - 1 = i - 1 /\ k \in Int /\ i \in Int
      BY <1>9, <2>3, <3>1
    <3> QED  BY <3>1, <3>2
  <2> QED  BY <2>1, <2>2, <2>3
<1>11. Ordered(S, R) \in [1..n -> S]
  BY <1>6, <1>8, OrderedSorts
<1>12. Ordered(S, R) = [i \in 1..n |-> f[i]]
  BY <1>10, <1>11
<1>13. Ascending(S) = f
  BY <1>1, <1>3, <1>12
<1> QED  BY <1>6, <1>13 DEF S

-----------------------------------------------------------------------------
(* The extremes and the places of numbers. *)

LEMMA ExtremesExist ==
  ASSUME NEW S, IsFiniteSet(S), S \subseteq Int, S # {}
  PROVE  /\ \E x \in S : \A y \in S : y <= x
         /\ \E x \in S : \A y \in S : x <= y
<1> DEFINE n == Cardinality(S)
           a == Ascending(S)
<1>1. /\ n \in Nat /\ a \in [1..n -> S] /\ ToSet(a) = S
      /\ \A i, j \in 1..n : i < j <=> a[i] < a[j]
  BY AscendingSorts
<1>2. \A y \in S : \E i \in 1..n : a[i] = y
  BY <1>1 DEF ToSet
<1> HIDE DEF a, n
<1>3. 1 \in 1..n /\ n \in 1..n
  <2>1. PICK y \in S : TRUE
    OBVIOUS
  <2>2. PICK i \in 1..n : a[i] = y
    BY <1>2
  <2>3. n >= 1
    BY <1>1
  <2> QED  BY <1>1, <2>3
<1>4. \A i \in 1..n : a[1] <= a[i] /\ a[i] <= a[n]
  <2> SUFFICES ASSUME NEW i \in 1..n PROVE a[1] <= a[i] /\ a[i] <= a[n]
    OBVIOUS
  <2>1. a[1] \in Int /\ a[i] \in Int /\ a[n] \in Int
    BY <1>1, <1>3
  <2>2. i = 1 \/ a[1] < a[i]
    BY <1>1, <1>3
  <2>3. i = n \/ a[i] < a[n]
    BY <1>1, <1>3
  <2> QED  BY <2>1, <2>2, <2>3
<1>5. /\ a[1] \in S /\ \A y \in S : a[1] <= y
      /\ a[n] \in S /\ \A y \in S : y <= a[n]
  BY <1>1, <1>2, <1>3, <1>4
<1> QED  BY <1>5

\* What Least and Greatest choose.
LEMMA ExtremesAreChosen ==
  ASSUME NEW S, IsFiniteSet(S), S \subseteq Int, S # {}
  PROVE  /\ Least(S) \in S /\ \A y \in S : Least(S) <= y
         /\ Greatest(S) \in S /\ \A y \in S : y <= Greatest(S)
BY ExtremesExist DEF Least, Greatest

Below(f, v) == {x \in DOMAIN f : f[x] < v}
NotAbove(f, v) == {x \in DOMAIN f : f[x] <= v}

\* The n-th smallest value is one, and at least t just if fewer than n values are below t.
LEMMA NthIsAPlace ==
  ASSUME NEW f, IsFiniteSet(DOMAIN f), \A x \in DOMAIN f : f[x] \in Int,
         NEW n \in 1..Cardinality(DOMAIN f)
  PROVE  /\ \E x \in DOMAIN f : f[x] = Nth(f, n)
         /\ Nth(f, n) \in Int
         /\ \A t \in Int : Nth(f, n) >= t <=> Cardinality(Below(f, t)) < n
<1> DEFINE D == DOMAIN f
           V == {f[x] : x \in D}
           T == {v \in V : Cardinality(NotAbove(f, v)) >= n}
           Right(v) == Cardinality(Below(f, v)) < n /\ Cardinality(NotAbove(f, v)) >= n
<1>1. /\ IsFiniteSet(V) /\ V \subseteq Int
      /\ Cardinality(D) \in Nat /\ n \in Nat /\ 1 <= n /\ n <= Cardinality(D)
  BY ImageCounts, FS_CardinalityType
<1>2. ASSUME NEW v \in Int
      PROVE  /\ IsFiniteSet(Below(f, v)) /\ Cardinality(Below(f, v)) \in Nat
             /\ IsFiniteSet(NotAbove(f, v)) /\ Cardinality(NotAbove(f, v)) \in Nat
  <2>1. Below(f, v) \in SUBSET D /\ NotAbove(f, v) \in SUBSET D
    BY DEF Below, NotAbove
  <2> QED  BY <2>1, FS_Subset, FS_CardinalityType
<1>3. D # {}
  BY <1>1, FS_EmptySet
<1>4. V # {}
  BY <1>3
<1>5. PICK top \in V : \A y \in V : y <= top
  BY <1>1, <1>4, ExtremesExist
<1>6. NotAbove(f, top) = D
  BY <1>5 DEF NotAbove
<1>7. top \in T
  BY <1>1, <1>6
<1>8. T \in SUBSET V /\ T # {}
  BY <1>7
<1>9. IsFiniteSet(T) /\ T \subseteq Int
  BY <1>1, <1>8, FS_Subset
<1>10. PICK v \in T : \A u \in T : v <= u
  BY <1>8, <1>9, ExtremesExist
<1>11. v \in V /\ v \in Int /\ Cardinality(NotAbove(f, v)) >= n
  BY <1>8, <1>9, <1>10
<1>12. Cardinality(Below(f, v)) < n
  <2> SUFFICES ASSUME ~ (Cardinality(Below(f, v)) < n) PROVE FALSE
    OBVIOUS
  <2> DEFINE W == {f[x] : x \in Below(f, v)}
  <2>1. Cardinality(Below(f, v)) \in Nat /\ Cardinality(Below(f, v)) >= n
    BY <1>1, <1>2, <1>11
  <2>2. Below(f, v) # {}
    BY <1>1, <2>1, FS_EmptySet, SMTT(30)
  <2>3. IsFiniteSet(W) /\ W # {} /\ W \subseteq Int /\ W \subseteq V
    <3>1. IsFiniteSet(W)
      BY <1>2, <1>11, ImageCounts
    <3> QED  BY <2>2, <3>1 DEF Below
  <2>4. PICK u \in W : \A y \in W : y <= u
    BY <2>3, ExtremesExist
  <2>5. u < v /\ u \in V /\ u \in Int
    BY <2>3, <2>4 DEF Below
  <2>6. NotAbove(f, u) = Below(f, v)
    <3>1. ASSUME NEW x \in D, f[x] <= u PROVE f[x] < v
      <4>1. f[x] \in Int
        OBVIOUS
      <4> QED  BY <1>11, <2>5, <3>1, <4>1
    <3>2. ASSUME NEW x \in D, f[x] < v PROVE f[x] <= u
      <4>1. f[x] \in W
        BY <3>2 DEF Below
      <4> QED  BY <2>4, <4>1
    <3> QED  BY <3>1, <3>2 DEF NotAbove, Below
  <2>7. u \in T
    BY <2>1, <2>5, <2>6
  <2>8. v <= u
    BY <1>10, <2>7
  <2> QED  BY <1>11, <2>5, <2>8
<1>13. Right(v)
  BY <1>11, <1>12
<1>14. Nth(f, n) \in V /\ Right(Nth(f, n))
  <2>1. Nth(f, n) = CHOOSE w \in V : Right(w)
    BY DEF Nth, Below, NotAbove
  <2> HIDE DEF V, Right
  <2> QED  BY <1>11, <1>13, <2>1
<1> DEFINE r == Nth(f, n)
<1>15. r \in Int /\ \E x \in D : f[x] = r
  BY <1>1, <1>14
<1>16. ASSUME NEW t \in Int
       PROVE  r >= t <=> Cardinality(Below(f, t)) < n
  <2>1. CASE r >= t
    <3>1. Below(f, t) \in SUBSET Below(f, r)
      <4> SUFFICES ASSUME NEW x \in D, f[x] < t PROVE f[x] < r
        BY DEF Below
      <4>1. f[x] \in Int
        OBVIOUS
      <4> QED  BY <1>15, <2>1, <4>1
    <3>2. Cardinality(Below(f, t)) <= Cardinality(Below(f, r))
      BY <1>2, <1>15, <3>1, FS_Subset
    <3>3. Cardinality(Below(f, r)) < n
      BY <1>14
    <3>4. Cardinality(Below(f, t)) \in Nat /\ Cardinality(Below(f, r)) \in Nat
      BY <1>2, <1>15
    <3> QED  BY <1>1, <2>1, <3>2, <3>3, <3>4
  <2>2. CASE ~ (r >= t)
    <3>1. NotAbove(f, r) \in SUBSET Below(f, t)
      <4> SUFFICES ASSUME NEW x \in D, f[x] <= r PROVE f[x] < t
        BY DEF Below, NotAbove
      <4>1. f[x] \in Int
        OBVIOUS
      <4> QED  BY <1>15, <2>2, <4>1
    <3>2. Cardinality(NotAbove(f, r)) <= Cardinality(Below(f, t))
      BY <1>2, <3>1, FS_Subset
    <3>3. Cardinality(NotAbove(f, r)) >= n
      BY <1>14
    <3>4. Cardinality(Below(f, t)) \in Nat /\ Cardinality(NotAbove(f, r)) \in Nat
      BY <1>2, <1>15
    <3> QED  BY <1>1, <2>2, <3>2, <3>3, <3>4
  <2> QED  BY <2>1, <2>2
<1> QED  BY <1>15, <1>16

\* The places are in order.
LEMMA NthIsMonotone ==
  ASSUME NEW f, IsFiniteSet(DOMAIN f), \A x \in DOMAIN f : f[x] \in Int,
         NEW m \in 1..Cardinality(DOMAIN f), NEW n \in 1..Cardinality(DOMAIN f), m <= n
  PROVE  Nth(f, m) <= Nth(f, n)
<1> DEFINE t == Nth(f, m)
           c == Cardinality(Below(f, t))
<1>1. t \in Int /\ (t >= t <=> c < m)
  BY NthIsAPlace
<1>2. IsFiniteSet(Below(f, t))
  <2>1. Below(f, t) \in SUBSET DOMAIN f
    BY DEF Below
  <2> QED  BY <2>1, FS_Subset
<1>3. c \in Nat
  BY <1>2, FS_CardinalityType
<1>4. m \in Int /\ n \in Int
  BY FS_CardinalityType
<1> HIDE DEF c
<1>5. c < n
  BY <1>1, <1>3, <1>4
<1>6. Nth(f, n) \in Int /\ (Nth(f, n) >= t <=> Cardinality(Below(f, t)) < n)
  BY <1>1, NthIsAPlace
<1> QED  BY <1>1, <1>5, <1>6 DEF c

-----------------------------------------------------------------------------
(* Sums. *)

Adds(g, w, D) == g \in [SUBSET D -> Nat] /\ g[{}] = 0 /\ AnySummand(g, w, D)

LEMMA OneMoreAdds ==
  ASSUME NEW D, NEW w, NEW g, Adds(g, w, D), NEW s \in SUBSET D, NEW x \in s
  PROVE  /\ s \ {x} \in SUBSET D /\ g[s] \in Nat /\ g[s \ {x}] \in Nat
         /\ g[s] = w[x] + g[s \ {x}]
BY DEF Adds, AnySummand

\* If no summand is above the bound, the sum reaches it only if all summands do.
LEMMA SumIsBounded ==
  ASSUME NEW D, IsFiniteSet(D), NEW bound \in Nat, NEW w \in [D -> 0..bound]
  PROVE  /\ SumFunction(w) \in Nat
         /\ SumFunction(w) <= bound * Cardinality(D)
         /\ \A x \in D : w[x] # bound => SumFunction(w) < bound * Cardinality(D)
<1> DEFINE n == Cardinality(D)
<1>1. w \in [D -> Nat] /\ \A x \in D : w[x] \in Nat /\ w[x] <= bound
  OBVIOUS
<1>2. PICK g \in [SUBSET D -> Nat] : SumFunction(w) = g[D] /\ g[{}] = 0 /\ AnySummand(g, w, D)
  BY <1>1, SumsUp
<1>3. Adds(g, w, D)
  BY <1>2 DEF Adds
<1>4. \A s \in SUBSET D : IsFiniteSet(s) /\ Cardinality(s) \in Nat /\ Cardinality(s) <= n
  BY FS_Subset, FS_CardinalityType
<1>5. n \in Nat
  BY FS_CardinalityType
<1> DEFINE Bad == {m \in Nat : \E s \in SUBSET D :
                      Cardinality(s) = m /\ ~ (g[s] <= bound * m)}
<1>6. 0 \notin Bad
  <2> SUFFICES ASSUME NEW s \in SUBSET D, Cardinality(s) = 0 PROVE g[s] <= bound * 0
    OBVIOUS
  <2>1. s = {}
    BY <1>4, FS_EmptySet
  <2> QED  BY <1>2, <2>1
<1>7. ASSUME NEW m \in Nat, m \notin Bad PROVE m + 1 \notin Bad
  <2> SUFFICES ASSUME NEW s \in SUBSET D, Cardinality(s) = m + 1
               PROVE  g[s] <= bound * (m + 1)
    OBVIOUS
  <2>1. s # {}
    <3>1. m + 1 # 0
      OBVIOUS
    <3> QED  BY <3>1, FS_EmptySet
  <2>2. PICK x \in s : TRUE
    BY <2>1
  <2>3. /\ s \ {x} \in SUBSET D /\ g[s] \in Nat /\ g[s \ {x}] \in Nat
        /\ g[s] = w[x] + g[s \ {x}]
    BY <1>3, <2>2, OneMoreAdds
  <2>4. Cardinality(s \ {x}) = m
    <3>1. IsFiniteSet(s) /\ x \in s
      BY <1>4, <2>2
    <3>2. Cardinality(s \ {x}) = Cardinality(s) - 1
      BY <3>1, FS_RemoveElement
    <3> QED  BY <3>2
  <2>5. g[s \ {x}] <= bound * m
    BY <1>7, <2>3, <2>4
  <2>6. x \in D /\ w[x] \in Nat /\ w[x] <= bound
    BY <1>1, <2>2
  <2>7. bound * (m + 1) = bound * m + bound /\ bound * m \in Nat
    BY <1>7
  <2> QED  BY <2>3, <2>5, <2>6, <2>7
<1> HIDE DEF Bad
<1>8. Bad = {}
  BY <1>6, <1>7, LeastCounterexample DEF Bad
<1>9. \A s \in SUBSET D : g[s] <= bound * Cardinality(s)
  BY <1>4, <1>8 DEF Bad
<1>10. g[D] \in Nat /\ g[D] <= bound * n
  BY <1>2, <1>9
<1>11. ASSUME NEW x \in D, w[x] # bound PROVE g[D] < bound * n
  <2>1. D \in SUBSET D
    OBVIOUS
  <2>2. /\ D \ {x} \in SUBSET D /\ g[D] \in Nat /\ g[D \ {x}] \in Nat
        /\ g[D] = w[x] + g[D \ {x}]
    BY <1>3, <2>1, OneMoreAdds
  <2>3. Cardinality(D \ {x}) = n - 1 /\ n - 1 \in Nat
    BY <1>4, <2>2, FS_RemoveElement
  <2>4. g[D \ {x}] <= bound * (n - 1)
    BY <1>9, <2>2, <2>3
  <2>5. w[x] \in Nat /\ w[x] < bound
    BY <1>1, <1>11
  <2>6. bound * (n - 1) = bound * n - bound /\ bound * n \in Nat
    BY <1>5
  <2> QED  BY <2>2, <2>4, <2>5, <2>6
<1> QED  BY <1>2, <1>5, <1>10, <1>11

\* Of weights that do not grow, the first ones weigh most.
LEMMA FirstWeighMost ==
  ASSUME NEW N \in Nat, NEW w \in [1..N -> Nat],
         \A i, j \in 1..N : i <= j => w[j] <= w[i],
         NEW g, Adds(g, w, 1..N)
  PROVE  \A s \in SUBSET (1..N) : /\ IsFiniteSet(s) /\ Cardinality(s) \in 0..N
                                  /\ 1..Cardinality(s) \in SUBSET (1..N)
                                  /\ g[s] <= g[1..Cardinality(s)]
<1> DEFINE D == 1..N
<1>1. IsFiniteSet(D) /\ Cardinality(D) = N /\ 1 \in Int /\ N \in Int
  BY FS_Interval
<1>2. ASSUME NEW s \in SUBSET D
      PROVE  /\ IsFiniteSet(s) /\ Cardinality(s) \in 0..N
             /\ 1..Cardinality(s) \in SUBSET D
  <2>1. IsFiniteSet(s) /\ Cardinality(s) <= N
    <3> HIDE DEF D
    <3> QED  BY <1>1, FS_Subset
  <2>2. Cardinality(s) \in Nat
    BY <2>1, FS_CardinalityType
  <2> QED  BY <2>1, <2>2
<1> DEFINE Bad == {m \in Nat : \E s \in SUBSET D :
                      Cardinality(s) = m /\ ~ (g[s] <= g[1..m])}
<1>3. 0 \notin Bad
  <2> SUFFICES ASSUME NEW s \in SUBSET D, Cardinality(s) = 0 PROVE g[s] <= g[1..0]
    OBVIOUS
  <2>1. s = {} /\ 1..0 = {}
    BY <1>2, FS_EmptySet
  <2>2. g[{}] = 0
    BY DEF Adds
  <2> QED  BY <2>1, <2>2
<1>4. ASSUME NEW m \in Nat, m \notin Bad PROVE m + 1 \notin Bad
  <2> SUFFICES ASSUME NEW s \in SUBSET D, Cardinality(s) = m + 1
               PROVE  g[s] <= g[1..(m + 1)]
    OBVIOUS
  <2>1. s # {} /\ IsFiniteSet(s) /\ s \subseteq Int /\ m + 1 \in 1..N
    BY <1>2, <1>4, FS_EmptySet
  <2>2. PICK x \in s : \A y \in s : y <= x
    BY <2>1, ExtremesExist
  <2>3. x \in 1..N
    BY <2>2
  <2>4. s \in SUBSET (1..x)
    BY <2>2
  <2>5. IsFiniteSet(1..x) /\ Cardinality(1..x) = x
    BY <2>3, FS_Interval
  <2>6. m + 1 <= x
    BY <2>4, <2>5, FS_Subset, ZenonT(30)
  <2>7. w[x] <= w[m + 1] /\ w[x] \in Nat /\ w[m + 1] \in Nat
    BY <2>1, <2>3, <2>6
  <2>8. /\ s \ {x} \in SUBSET D /\ g[s] \in Nat /\ g[s \ {x}] \in Nat
        /\ g[s] = w[x] + g[s \ {x}]
    <3>1. Adds(g, w, D)
      OBVIOUS
    <3> HIDE DEF D
    <3> QED  BY <2>2, <3>1, OneMoreAdds
  <2>9. Cardinality(s \ {x}) = m
    <3>1. Cardinality(s \ {x}) = Cardinality(s) - 1
      BY <2>1, <2>2, FS_RemoveElement
    <3> QED  BY <3>1
  <2>10. g[s \ {x}] <= g[1..m]
    BY <1>4, <2>8, <2>9
  <2>11. 1..(m + 1) \in SUBSET D /\ m + 1 \in 1..(m + 1) /\ (1..(m + 1)) \ {m + 1} = 1..m
    BY <1>4, <2>1
  <2>12. /\ g[1..(m + 1)] \in Nat /\ g[(1..(m + 1)) \ {m + 1}] \in Nat
         /\ g[1..(m + 1)] = w[m + 1] + g[(1..(m + 1)) \ {m + 1}]
    <3> DEFINE E == 1..(m + 1)
               y == m + 1
    <3>1. Adds(g, w, D) /\ E \in SUBSET D /\ y \in E
      BY <2>11
    <3> HIDE DEF D, E, y
    <3>2. E \ {y} \in SUBSET D
      BY <3>1
    <3>3. g[E] \in Nat /\ g[E \ {y}] \in Nat /\ g[E] = w[y] + g[E \ {y}]
      BY <3>1, <3>2 DEF Adds, AnySummand
    <3> QED  BY <3>3 DEF E, y
  <2>13. g[1..m] \in Nat /\ g[1..(m + 1)] = w[m + 1] + g[1..m]
    BY <2>11, <2>12
  <2> QED  BY <2>7, <2>8, <2>10, <2>12, <2>13, SMTT(30)
<1> HIDE DEF Bad
<1>5. Bad = {}
  BY <1>3, <1>4, LeastCounterexample DEF Bad
<1>6. ASSUME NEW s \in SUBSET D PROVE g[s] <= g[1..Cardinality(s)]
  BY <1>2, <1>5 DEF Bad
<1> QED  BY <1>2, <1>6

\* More of the first weights weigh more.
LEMMA MoreWeighMore ==
  ASSUME NEW N \in Nat, NEW w \in [1..N -> Nat \ {0}], NEW g, Adds(g, w, 1..N),
         NEW i \in 0..N, NEW j \in i..N
  PROVE  g[1..i] \in Nat /\ g[1..j] \in Nat /\ g[1..i] <= g[1..j] /\ (i < j => g[1..i] < g[1..j])
<1> DEFINE Bad == {m \in Nat : i + m <= N /\ ~ (g[1..i] + m <= g[1..(i + m)])}
<1>1. ASSUME NEW m \in 0..N PROVE g[1..m] \in Nat
  <2>1. 1..m \in SUBSET (1..N)
    OBVIOUS
  <2> QED  BY <2>1 DEF Adds
<1>2. i \in Nat /\ j \in Nat /\ i <= j /\ j <= N
  OBVIOUS
<1>3. 0 \notin Bad
  <2>1. i + 0 = i /\ g[1..i] \in Nat
    BY <1>1
  <2> QED  BY <2>1
<1>4. ASSUME NEW m \in Nat, m \notin Bad PROVE m + 1 \notin Bad
  <2> SUFFICES ASSUME i + (m + 1) <= N PROVE g[1..i] + (m + 1) <= g[1..(i + (m + 1))]
    OBVIOUS
  <2> DEFINE k == i + m
  <2>1. k \in Nat /\ k + 1 \in 1..N /\ k \in 0..N /\ i + (m + 1) = k + 1
    BY <1>2, <1>4
  <2>2. g[1..i] + m <= g[1..k] /\ g[1..i] \in Nat /\ g[1..k] \in Nat
    BY <1>1, <1>4, <2>1
  <2> HIDE DEF k
  <2>3. 1..(k + 1) \in SUBSET (1..N) /\ k + 1 \in 1..(k + 1) /\ (1..(k + 1)) \ {k + 1} = 1..k
    BY <2>1
  <2>4. /\ g[1..(k + 1)] \in Nat
        /\ g[1..(k + 1)] = w[k + 1] + g[(1..(k + 1)) \ {k + 1}]
    <3> DEFINE D == 1..N
               E == 1..(k + 1)
               y == k + 1
    <3>1. Adds(g, w, D) /\ E \in SUBSET D /\ y \in E
      BY <2>3
    <3> HIDE DEF D, E, y
    <3>2. g[E] \in Nat /\ g[E] = w[y] + g[E \ {y}]
      BY <3>1 DEF Adds, AnySummand
    <3> QED  BY <3>2 DEF E, y
  <2>5. w[k + 1] \in Nat /\ w[k + 1] >= 1
    BY <2>1
  <2>6. g[1..(k + 1)] = w[k + 1] + g[1..k]
    BY <2>3, <2>4
  <2>7. g[1..i] + (m + 1) <= g[1..(k + 1)]
    BY <1>4, <2>2, <2>5, <2>6
  <2> QED  BY <2>1, <2>7
<1> HIDE DEF Bad
<1>5. Bad = {}
  BY <1>3, <1>4, LeastCounterexample DEF Bad
<1>6. j - i \in Nat /\ i + (j - i) = j
  BY <1>2
<1>7. g[1..i] + (j - i) <= g[1..j]
  BY <1>2, <1>5, <1>6 DEF Bad
<1> QED  BY <1>1, <1>2, <1>6, <1>7

-----------------------------------------------------------------------------
(* Sequences put together. *)

LEMMA JoinedHasBoth ==
  ASSUME NEW T, NEW a \in Seq(T), NEW b \in Seq(T)
  PROVE  a \o b \in Seq(T) /\ ToSet(a \o b) = ToSet(a) \cup ToSet(b)
<1>1. /\ Len(a) \in Nat /\ Len(b) \in Nat /\ a \o b \in Seq(T) /\ Len(a \o b) = Len(a) + Len(b)
      /\ DOMAIN a = 1..Len(a) /\ DOMAIN b = 1..Len(b) /\ DOMAIN (a \o b) = 1..(Len(a) + Len(b))
  OBVIOUS
<1>2. \A i \in 1..(Len(a) + Len(b)) :
        (a \o b)[i] = IF i <= Len(a) THEN a[i] ELSE b[i - Len(a)]
  OBVIOUS
<1>3. ASSUME NEW x \in ToSet(a \o b) PROVE x \in ToSet(a) \cup ToSet(b)
  <2>1. PICK i \in 1..(Len(a) + Len(b)) : x = (a \o b)[i]
    BY <1>1 DEF ToSet
  <2>2. CASE i <= Len(a)
    <3>1. i \in DOMAIN a /\ x = a[i]
      BY <1>1, <1>2, <2>1, <2>2
    <3> QED  BY <3>1 DEF ToSet
  <2>3. CASE ~ (i <= Len(a))
    <3>1. i - Len(a) \in DOMAIN b /\ x = b[i - Len(a)]
      BY <1>1, <1>2, <2>1, <2>3
    <3> QED  BY <3>1 DEF ToSet
  <2> QED  BY <2>2, <2>3
<1>4. ASSUME NEW x \in ToSet(a) PROVE x \in ToSet(a \o b)
  <2>1. PICK i \in 1..Len(a) : x = a[i]
    BY <1>1 DEF ToSet
  <2>2. i \in DOMAIN (a \o b) /\ (a \o b)[i] = x
    BY <1>1, <1>2, <2>1
  <2> QED  BY <2>2 DEF ToSet
<1>5. ASSUME NEW x \in ToSet(b) PROVE x \in ToSet(a \o b)
  <2>1. PICK i \in 1..Len(b) : x = b[i]
    BY <1>1 DEF ToSet
  <2> DEFINE j == Len(a) + i
  <2>2. j \in 1..(Len(a) + Len(b)) /\ ~ (j <= Len(a)) /\ j - Len(a) = i
    BY <1>1
  <2> HIDE DEF j
  <2>3. j \in DOMAIN (a \o b) /\ (a \o b)[j] = x
    BY <1>1, <1>2, <2>1, <2>2
  <2> QED  BY <2>3 DEF ToSet
<1> QED  BY <1>1, <1>3, <1>4, <1>5

\* What flattening unfolds to, up to the n-th sequence.
Flattens(f, ss, n) ==
  f = [i \in 1..n |-> IF i = 1 THEN ss[i] ELSE f[i - 1] \o ss[i]]

LEMMA FlattenExists ==
  ASSUME NEW ss, NEW n \in Nat
  PROVE  \E f : Flattens(f, ss, n)
<1> DEFINE Bad == {m \in Nat : ~ \E f : Flattens(f, ss, m)}
<1>1. 0 \notin Bad
  <2> DEFINE f == [i \in 1..0 |-> ss[i]]
  <2>1. Flattens(f, ss, 0)
    BY DEF Flattens
  <2> QED  BY <2>1
<1>2. ASSUME NEW m \in Nat, m \notin Bad PROVE m + 1 \notin Bad
  <2>1. PICK f : Flattens(f, ss, m)
    BY <1>2
  <2> DEFINE g == [i \in 1..(m + 1) |-> IF i = 1 THEN ss[i] ELSE f[i - 1] \o ss[i]]
  <2>2. \A i \in 1..m : g[i] = f[i]
    <3> SUFFICES ASSUME NEW i \in 1..m PROVE g[i] = f[i]
      OBVIOUS
    <3>1. f[i] = IF i = 1 THEN ss[i] ELSE f[i - 1] \o ss[i]
      BY <2>1 DEF Flattens
    <3>2. i \in 1..(m + 1)
      BY <1>2
    <3> QED  BY <3>1, <3>2
  <2>3. \A i \in 1..(m + 1) : i # 1 => g[i - 1] = f[i - 1]
    <3> SUFFICES ASSUME NEW i \in 1..(m + 1), i # 1 PROVE g[i - 1] = f[i - 1]
      OBVIOUS
    <3>1. i - 1 \in 1..m
      BY <1>2
    <3> HIDE DEF g
    <3> QED  BY <2>2, <3>1
  <2>4. g = [i \in 1..(m + 1) |-> IF i = 1 THEN ss[i] ELSE g[i - 1] \o ss[i]]
    <3> DEFINE h == [i \in 1..(m + 1) |-> IF i = 1 THEN ss[i] ELSE g[i - 1] \o ss[i]]
    <3>1. \A i \in 1..(m + 1) : g[i] = h[i]
      BY <2>3
    <3> QED  BY <3>1
  <2> QED  BY <2>4 DEF Flattens
<1> HIDE DEF Bad
<1>3. Bad = {}
  BY <1>1, <1>2, LeastCounterexample DEF Bad
<1> QED  BY <1>3 DEF Bad

\* FlattenSeq has what its sequences have.
LEMMA FlattenedHasAll ==
  ASSUME NEW T, NEW n \in Nat, NEW ss \in [1..n -> Seq(T)]
  PROVE  /\ FlattenSeq(ss) \in Seq(T)
         /\ ToSet(FlattenSeq(ss)) = UNION {ToSet(ss[i]) : i \in 1..n}
<1>1. ss \in Seq(Seq(T)) /\ Len(ss) = n
  OBVIOUS
<1>2. CASE n = 0
  <2>1. FlattenSeq(ss) = ss /\ 1..n = {}
    BY <1>1, <1>2 DEF FlattenSeq
  <2>2. ss = <<>>
    BY <1>1, <1>2
  <2>3. <<>> \in Seq(T) /\ ToSet(<<>>) = {}
    BY DEF ToSet
  <2> QED  BY <2>1, <2>2, <2>3
<1>3. CASE n # 0
  <2> DEFINE f == CHOOSE f : Flattens(f, ss, n)
  <2>1. Flattens(f, ss, n)
    BY FlattenExists
  <2>2. FlattenSeq(ss) = f[n]
    BY <1>1, <1>3 DEF FlattenSeq, Flattens
  <2>3. \A i \in 1..n : f[i] = IF i = 1 THEN ss[i] ELSE f[i - 1] \o ss[i]
    BY <2>1 DEF Flattens
  <2> HIDE DEF f
  <2> DEFINE Right(j) == f[j] \in Seq(T) /\ ToSet(f[j]) = UNION {ToSet(ss[i]) : i \in 1..j}
             Bad == {m \in Nat : m + 1 \in 1..n /\ ~ Right(m + 1)}
  <2>4. 0 \notin Bad
    <3>1. 1 \in 1..n
      BY <1>3
    <3>2. f[1] = ss[1] /\ ss[1] \in Seq(T)
      BY <2>3, <3>1
    <3>3. 1..1 = {1} /\ 0 + 1 = 1
      OBVIOUS
    <3> QED  BY <3>2, <3>3
  <2>5. ASSUME NEW m \in Nat, m \notin Bad PROVE m + 1 \notin Bad
    <3> DEFINE k == m + 1
               All(j) == UNION {ToSet(ss[i]) : i \in 1..j}
    <3> SUFFICES ASSUME k + 1 \in 1..n
                 PROVE  f[k + 1] \in Seq(T) /\ ToSet(f[k + 1]) = All(k + 1)
      OBVIOUS
    <3>1. k \in 1..n /\ k + 1 # 1 /\ (k + 1) - 1 = k
      OBVIOUS
    <3>2. f[k] \in Seq(T) /\ ToSet(f[k]) = All(k)
      BY <2>5, <3>1
    <3> HIDE DEF k
    <3>3. f[k + 1] = f[k] \o ss[k + 1] /\ ss[k + 1] \in Seq(T)
      BY <2>3, <3>1
    <3>4. f[k + 1] \in Seq(T) /\ ToSet(f[k + 1]) = ToSet(f[k]) \cup ToSet(ss[k + 1])
      BY <3>2, <3>3, JoinedHasBoth
    <3>5. 1..(k + 1) = (1..k) \cup {k + 1}
      BY <3>1
    <3>6. All(k + 1) = All(k) \cup ToSet(ss[k + 1])
      BY <3>5
    <3> QED  BY <3>2, <3>4, <3>6
  <2> HIDE DEF Bad
  <2>6. Bad = {}
    BY <2>4, <2>5, LeastCounterexample DEF Bad
  <2>7. n - 1 \in Nat /\ (n - 1) + 1 = n /\ n \in 1..n
    BY <1>3
  <2>8. f[n] \in Seq(T) /\ ToSet(f[n]) = UNION {ToSet(ss[i]) : i \in 1..n}
    BY <2>6, <2>7 DEF Bad
  <2> QED  BY <2>2, <2>8
<1> QED  BY <1>2, <1>3

-----------------------------------------------------------------------------
(* Recursion over an interval. *)

\* Induction over an interval.
LEMMA BoundedInduction ==
  ASSUME NEW a \in Int, NEW b \in Int, NEW G,
         a \in G, \A k \in a..(b - 1) : k \in G => k + 1 \in G
  PROVE  a..b \subseteq G
<1> DEFINE Bad == {m \in Nat : a + m <= b /\ a + m \notin G}
<1>1. 0 \notin Bad
  OBVIOUS
<1>2. ASSUME NEW m \in Nat, m \notin Bad PROVE m + 1 \notin Bad
  <2> SUFFICES ASSUME a + (m + 1) <= b PROVE a + (m + 1) \in G
    OBVIOUS
  <2>1. a + m \in a..(b - 1) /\ a + m <= b
    OBVIOUS
  <2>2. a + m \in G
    BY <1>2, <2>1
  <2>3. (a + m) + 1 \in G
    BY <2>1, <2>2
  <2>4. (a + m) + 1 = a + (m + 1)
    OBVIOUS
  <2> QED  BY <2>3, <2>4
<1> HIDE DEF Bad
<1>3. Bad = {}
  BY <1>1, <1>2, LeastCounterexample DEF Bad
<1>4. ASSUME NEW k \in a..b PROVE k \in G
  <2>1. k - a \in Nat /\ a + (k - a) = k /\ k <= b
    OBVIOUS
  <2>2. k - a \notin Bad
    BY <1>3
  <2> QED  BY <2>1, <2>2 DEF Bad
<1> QED  BY <1>4

\* f goes from base, in the first place, step by step.
Walks(f, base, step, a, b) ==
  \A k \in a..b : f[k] = IF k = a THEN base ELSE step[<<k, f[k - 1]>>]

\* Something goes step by step from base.
LEMMA WalkExists ==
  ASSUME NEW a \in Int, NEW b \in Int, NEW V, NEW base \in V,
         NEW step \in [(a..b) \X V -> V]
  PROVE  \E f \in [a..b -> V] : Walks(f, base, step, a, b)
<1> DEFINE G == {m \in Int : m > b \/ \E f \in [a..m -> V] : Walks(f, base, step, a, m)}
<1>1. a \in G
  <2> DEFINE f == [k \in a..a |-> base]
  <2>1. f \in [a..a -> V] /\ a..a = {a}
    OBVIOUS
  <2>2. Walks(f, base, step, a, a)
    BY <2>1 DEF Walks
  <2> QED  BY <2>1, <2>2
<1>2. ASSUME NEW m \in a..(b - 1), m \in G PROVE m + 1 \in G
  <2>1. PICK f \in [a..m -> V] : Walks(f, base, step, a, m)
    BY <1>2
  <2> DEFINE g == [k \in a..(m + 1) |-> IF k = m + 1 THEN step[<<m + 1, f[m]>>] ELSE f[k]]
  <2>2. m \in a..m /\ m + 1 \in a..b /\ (m + 1) - 1 = m /\ m + 1 # a /\ m \in Int /\ a..m \subseteq a..b
    OBVIOUS
  <2>3. f[m] \in V
    BY <2>2
  <2>4. step[<<m + 1, f[m]>>] \in V
    BY <2>2, <2>3
  <2>5. \A k \in a..(m + 1) : k # m + 1 => k \in a..m
    BY <2>2
  <2>6. g \in [a..(m + 1) -> V]
    BY <2>4, <2>5
  <2>7. ASSUME NEW k \in a..(m + 1)
        PROVE  g[k] = IF k = a THEN base ELSE step[<<k, g[k - 1]>>]
    <3>1. CASE k = m + 1
      <4>1. g[k] = step[<<m + 1, f[m]>>] /\ k - 1 = m /\ k # a
        BY <3>1, <2>2
      <4>2. m \in a..(m + 1) /\ m # m + 1
        BY <2>2
      <4>3. g[m] = f[m]
        BY <4>2
      <4> QED  BY <3>1, <4>1, <4>3
    <3>2. CASE k # m + 1
      <4>1. k \in a..m /\ g[k] = f[k]
        BY <3>2, <2>5
      <4>2. f[k] = IF k = a THEN base ELSE step[<<k, f[k - 1]>>]
        BY <2>1, <4>1 DEF Walks
      <4>3. k # a => k - 1 \in a..(m + 1) /\ k - 1 # m + 1
        BY <4>1
      <4>4. k # a => g[k - 1] = f[k - 1]
        BY <4>3
      <4> QED  BY <4>1, <4>2, <4>4
    <3> QED  BY <3>1, <3>2
  <2>8. Walks(g, base, step, a, m + 1)
    BY <2>7 DEF Walks
  <2> QED  BY <2>2, <2>6, <2>8
<1> HIDE DEF G
<1>3. CASE a <= b
  <2>1. a..b \subseteq G
    BY <1>1, <1>2, BoundedInduction
  <2>2. b \in G
    BY <1>3, <2>1
  <2> QED  BY <2>2 DEF G
<1>4. CASE ~ (a <= b)
  <2> DEFINE f == [k \in a..b |-> base]
  <2>1. f \in [a..b -> V] /\ a..b = {}
    BY <1>4
  <2>2. Walks(f, base, step, a, b)
    BY <2>1 DEF Walks
  <2> QED  BY <2>1, <2>2
<1> QED  BY <1>3, <1>4

\* What increases step by step increases.
LEMMA StepwiseIncreases ==
  ASSUME NEW f, NEW n \in Int, \A i \in 1..n : f[i] \in Int,
         \A i \in 1..(n - 1) : f[i] < f[i + 1]
  PROVE  \A i, j \in 1..n : i < j => f[i] < f[j]
<1> SUFFICES ASSUME NEW i \in 1..n, NEW j \in 1..n, i < j PROVE f[i] < f[j]
  OBVIOUS
<1> DEFINE G == {k \in (i + 1)..n : f[i] < f[k]}
<1>1. i + 1 \in G
  OBVIOUS
<1>2. ASSUME NEW k \in (i + 1)..(n - 1), k \in G PROVE k + 1 \in G
  <2>1. k \in 1..(n - 1) /\ k + 1 \in (i + 1)..n /\ k + 1 \in 1..n /\ k \in 1..n
    OBVIOUS
  <2>2. f[k] < f[k + 1] /\ f[i] < f[k] /\ f[k + 1] \in Int /\ f[k] \in Int /\ f[i] \in Int
    BY <1>2, <2>1
  <2> QED  BY <2>1, <2>2
<1> HIDE DEF G
<1>3. (i + 1)..n \subseteq G
  BY <1>1, <1>2, BoundedInduction
<1>4. j \in (i + 1)..n
  OBVIOUS
<1> QED  BY <1>3, <1>4 DEF G

-----------------------------------------------------------------------------
(* Sums of the first so many. *)

SumTo(w, k) == SumFunction([i \in 1..k |-> w[i]])

\* A sum over the first k grows by the k-th.
LEMMA SumsGrow ==
  ASSUME NEW n \in Nat, NEW w \in [1..n -> Nat]
  PROVE  /\ SumTo(w, 0) = 0
         /\ \A k \in 0..n : SumTo(w, k) \in Nat
         /\ \A k \in 1..n : SumTo(w, k) = SumTo(w, k - 1) + w[k]
<1>1. ASSUME NEW k \in 0..n
      PROVE  \E g : Adds(g, w, 1..k) /\ SumTo(w, k) = g[1..k]
  <2> DEFINE v == [i \in 1..k |-> w[i]]
  <2>1. v \in [1..k -> Nat] /\ IsFiniteSet(1..k) /\ 1..k \subseteq 1..n
    <3>1. IsFiniteSet(1..k)
      BY FS_Interval
    <3> QED  BY <3>1
  <2>2. PICK g \in [SUBSET (1..k) -> Nat] :
          SumFunction(v) = g[1..k] /\ g[{}] = 0 /\ AnySummand(g, v, 1..k)
    BY <2>1, SumsUp
  <2>3. AnySummand(g, w, 1..k)
    BY <2>2 DEF AnySummand
  <2> QED  BY <2>2, <2>3 DEF Adds, SumTo
<1>2. SumTo(w, 0) = 0
  <2>1. PICK g : Adds(g, w, 1..0) /\ SumTo(w, 0) = g[1..0]
    BY <1>1
  <2> QED  BY <2>1 DEF Adds
<1>3. ASSUME NEW k \in 0..n PROVE SumTo(w, k) \in Nat
  <2>1. PICK g : Adds(g, w, 1..k) /\ SumTo(w, k) = g[1..k]
    BY <1>1
  <2>2. 1..k \in SUBSET (1..k)
    OBVIOUS
  <2> QED  BY <2>1, <2>2 DEF Adds
<1>4. ASSUME NEW k \in 1..n PROVE SumTo(w, k) = SumTo(w, k - 1) + w[k]
  <2>1. PICK g : Adds(g, w, 1..k) /\ SumTo(w, k) = g[1..k]
    BY <1>1
  <2>2. k - 1 \in 0..n
    OBVIOUS
  <2>3. PICK h : Adds(h, w, 1..(k - 1)) /\ SumTo(w, k - 1) = h[1..(k - 1)]
    BY <1>1, <2>2
  <2>4. (1..k) \ {k} = 1..(k - 1) /\ k \in 1..k /\ 1..(k - 1) \in SUBSET (1..k)
             /\ 1..k \in SUBSET (1..k)
    OBVIOUS
  <2>5. g[1..k] = w[k] + g[1..(k - 1)] /\ g[1..(k - 1)] \in Nat
    <3> DEFINE D == 1..k
    <3>1. Adds(g, w, D) /\ D \in SUBSET D /\ k \in D
      BY <2>1, <2>4
    <3> HIDE DEF D
    <3>2. g[D] = w[k] + g[D \ {k}]
      BY <3>1 DEF Adds, AnySummand
    <3>3. g[D \ {k}] \in Nat
      BY <3>1 DEF Adds
    <3> QED  BY <2>4, <3>2, <3>3 DEF D
  <2>6. Determined(g, h, 1..(k - 1))
    <3> SUFFICES ASSUME NEW s \in SUBSET (1..(k - 1)), s # {},
                        g[s \ {Pick(s)}] = h[s \ {Pick(s)}]
                 PROVE  g[s] = h[s]
      BY DEF Determined
    <3>1. Pick(s) \in s /\ s \in SUBSET (1..k)
      BY <2>4 DEF Pick
    <3>2. g[s] = w[Pick(s)] + g[s \ {Pick(s)}]
      BY <2>1, <3>1 DEF Adds, AnySummand
    <3>3. h[s] = w[Pick(s)] + h[s \ {Pick(s)}]
      BY <2>3, <3>1 DEF Adds, AnySummand
    <3> QED  BY <3>2, <3>3
  <2>7. g[{}] = h[{}]
    BY <2>1, <2>3 DEF Adds
  <2>8. g[1..(k - 1)] = h[1..(k - 1)]
    <3>1. IsFiniteSet(1..(k - 1)) /\ 1..(k - 1) \in SUBSET (1..(k - 1))
      BY FS_Interval
    <3> QED  BY <2>6, <2>7, <3>1, FoldUnique
  <2>9. w[k] \in Nat
    OBVIOUS
  <2> QED  BY <2>1, <2>3, <2>5, <2>8, <2>9
<1> QED  BY <1>2, <1>3, <1>4

\* Sums over more are larger, by what comes next at least.
LEMMA SumsAreOrdered ==
  ASSUME NEW n \in Nat, NEW w \in [1..n -> Nat]
  PROVE  \A i, j \in 0..n : i < j => SumTo(w, i) + w[i + 1] <= SumTo(w, j)
<1>1. /\ \A k \in 0..n : SumTo(w, k) \in Nat
      /\ \A k \in 1..n : SumTo(w, k) = SumTo(w, k - 1) + w[k]
  BY SumsGrow
<1> SUFFICES ASSUME NEW i \in 0..n, NEW j \in 0..n, i < j
             PROVE  SumTo(w, i) + w[i + 1] <= SumTo(w, j)
  OBVIOUS
<1> DEFINE base == SumTo(w, i) + w[i + 1]
           G == {k \in (i + 1)..n : base <= SumTo(w, k)}
<1>2. i + 1 \in 1..n /\ (i + 1) - 1 = i /\ w[i + 1] \in Nat /\ SumTo(w, i) \in Nat
  BY <1>1
<1>3. base = SumTo(w, i + 1) /\ base \in Nat
  BY <1>1, <1>2
<1>4. i + 1 \in G
  BY <1>2, <1>3
<1>5. ASSUME NEW k \in (i + 1)..(n - 1), k \in G PROVE k + 1 \in G
  <2>1. k + 1 \in 1..n /\ (k + 1) - 1 = k /\ k + 1 \in (i + 1)..n /\ k \in 0..n
    OBVIOUS
  <2>2. SumTo(w, k + 1) = SumTo(w, k) + w[k + 1] /\ w[k + 1] \in Nat /\ SumTo(w, k) \in Nat
    BY <1>1, <2>1
  <2> HIDE DEF base
  <2> QED  BY <1>3, <1>5, <2>1, <2>2
<1> HIDE DEF base, G
<1>6. (i + 1)..n \subseteq G
  <2>1. i + 1 \in Int /\ n \in Int
    OBVIOUS
  <2> QED  BY <1>4, <1>5, <2>1, BoundedInduction
<1>7. j \in (i + 1)..n
  OBVIOUS
<1> QED  BY <1>6, <1>7 DEF G, base

\* A sum with one more in front.
LEMMA SumsWithOneBefore ==
  ASSUME NEW n \in Nat, NEW w \in [1..(n + 1) -> Nat]
  PROVE  SumTo(w, n + 1) = w[1] + SumTo([i \in 1..n |-> w[i + 1]], n)
<1> DEFINE v == [i \in 1..n |-> w[i + 1]]
           G == {k \in 0..n : SumTo(w, k + 1) = w[1] + SumTo(v, k)}
<1>1. v \in [1..n -> Nat] /\ \A i \in 1..n : v[i] = w[i + 1]
  OBVIOUS
<1> HIDE DEF v
<1>2. /\ SumTo(v, 0) = 0 /\ \A k \in 0..n : SumTo(v, k) \in Nat
      /\ \A k \in 1..n : SumTo(v, k) = SumTo(v, k - 1) + v[k]
  BY <1>1, SumsGrow
<1>3. /\ SumTo(w, 0) = 0 /\ \A k \in 0..(n + 1) : SumTo(w, k) \in Nat
      /\ \A k \in 1..(n + 1) : SumTo(w, k) = SumTo(w, k - 1) + w[k]
  <2>1. n + 1 \in Nat
    OBVIOUS
  <2> QED  BY <2>1, SumsGrow
<1>4. 0 \in G
  <2>1. 1 \in 1..(n + 1) /\ 1 - 1 = 0 /\ 0 + 1 = 1 /\ w[1] \in Nat
    OBVIOUS
  <2>2. SumTo(w, 1) = SumTo(w, 0) + w[1]
    BY <1>3, <2>1
  <2> QED  BY <1>2, <1>3, <2>1, <2>2
<1>5. ASSUME NEW k \in 0..(n - 1), k \in G PROVE k + 1 \in G
  <2>1. /\ k + 1 \in 1..n /\ (k + 1) + 1 \in 1..(n + 1) /\ (k + 1) - 1 = k
        /\ ((k + 1) + 1) - 1 = k + 1 /\ k + 1 \in 0..(n + 1) /\ k \in 0..n
    OBVIOUS
  <2>2. SumTo(v, k + 1) = SumTo(v, k) + v[k + 1] /\ SumTo(v, k) \in Nat
    BY <1>2, <2>1
  <2>3. SumTo(w, (k + 1) + 1) = SumTo(w, k + 1) + w[(k + 1) + 1] /\ SumTo(w, k + 1) \in Nat
    BY <1>3, <2>1
  <2>4. v[k + 1] = w[(k + 1) + 1] /\ v[k + 1] \in Nat
    BY <1>1, <2>1
  <2>5. SumTo(w, k + 1) = w[1] + SumTo(v, k) /\ w[1] \in Nat
    BY <1>5
  <2> QED  BY <2>1, <2>2, <2>3, <2>4, <2>5
<1> HIDE DEF G
<1>6. n \in 0..n /\ 0..n \subseteq G
  <2>1. 0 \in Int /\ n \in Int /\ n \in 0..n
    OBVIOUS
  <2>2. 0..n \subseteq G
    BY <1>4, <1>5, <2>1, BoundedInduction
  <2> QED  BY <2>1, <2>2
<1> QED  BY <1>6 DEF G, v

-----------------------------------------------------------------------------
(* Flattening, one sequence after the other. *)

\* Flattening is joining one sequence after the other.
LEMMA FlattenedStepwise ==
  ASSUME NEW T, NEW n \in Nat, NEW ss \in [1..n -> Seq(T)], NEW G, <<0, <<>>>> \in G,
         \A i \in 1..n : \A s \in Seq(T) : <<i - 1, s>> \in G => <<i, s \o ss[i]>> \in G
  PROVE  <<n, FlattenSeq(ss)>> \in G
<1>1. ss \in Seq(Seq(T)) /\ Len(ss) = n
  OBVIOUS
<1>2. CASE n = 0
  <2>1. FlattenSeq(ss) = ss
    BY <1>1, <1>2 DEF FlattenSeq
  <2>2. ss = <<>>
    BY <1>1, <1>2
  <2> QED  BY <1>2, <2>1, <2>2
<1>3. CASE n # 0
  <2> DEFINE f == CHOOSE f : Flattens(f, ss, n)
  <2>1. Flattens(f, ss, n)
    BY FlattenExists
  <2>2. FlattenSeq(ss) = f[n]
    BY <1>1, <1>3 DEF FlattenSeq, Flattens
  <2>3. \A i \in 1..n : f[i] = IF i = 1 THEN ss[i] ELSE f[i - 1] \o ss[i]
    BY <2>1 DEF Flattens
  <2> HIDE DEF f
  <2> DEFINE H == {i \in 1..n : f[i] \in Seq(T) /\ <<i, f[i]>> \in G}
  <2>4. 1 \in H
    <3>1. 1 \in 1..n /\ 1 - 1 = 0 /\ <<>> \in Seq(T)
      BY <1>3
    <3>2. f[1] = ss[1] /\ ss[1] \in Seq(T)
      BY <2>3, <3>1
    <3>3. <<>> \o ss[1] = ss[1]
      BY <3>2
    <3>4. <<1, <<>> \o ss[1]>> \in G
      BY <3>1
    <3> QED  BY <3>1, <3>2, <3>3, <3>4
  <2>5. ASSUME NEW k \in 1..(n - 1), k \in H PROVE k + 1 \in H
    <3>1. k + 1 \in 1..n /\ k + 1 # 1 /\ (k + 1) - 1 = k
      OBVIOUS
    <3>2. f[k + 1] = f[k] \o ss[k + 1] /\ ss[k + 1] \in Seq(T)
      BY <2>3, <3>1
    <3>3. f[k] \in Seq(T) /\ <<k, f[k]>> \in G
      BY <2>5
    <3>4. <<k + 1, f[k] \o ss[k + 1]>> \in G
      BY <3>1, <3>3
    <3>5. f[k] \o ss[k + 1] \in Seq(T)
      BY <3>2, <3>3
    <3> QED  BY <3>1, <3>2, <3>4, <3>5
  <2> HIDE DEF H
  <2>6. 1..n \subseteq H
    <3>1. 1 \in Int /\ n \in Int
      OBVIOUS
    <3> QED  BY <2>4, <2>5, <3>1, BoundedInduction
  <2>7. n \in 1..n
    BY <1>3
  <2>8. n \in H
    BY <2>6, <2>7
  <2> QED  BY <2>2, <2>8 DEF H
<1> QED  BY <1>2, <1>3

\* The keys of a sequence climb, and lie in [a, b).
Climbs(s, key) == \A j \in 1..(Len(s) - 1) : key[s[j]] < key[s[j + 1]]
Ranges(s, key, a, b) == \A j \in 1..Len(s) : a <= key[s[j]] /\ key[s[j]] < b

\* Two sequences that climb in ranges one after the other climb joined ...
LEMMA JoinedClimbs ==
  ASSUME NEW T, NEW s \in Seq(T), NEW t \in Seq(T), NEW key \in [T -> Int],
         NEW a \in Int, NEW m \in Int, NEW b \in Int, a <= m, m <= b,
         Climbs(s, key), Ranges(s, key, a, m), Climbs(t, key), Ranges(t, key, m, b)
  PROVE  Climbs(s \o t, key) /\ Ranges(s \o t, key, a, b)
<1> DEFINE u == s \o t
<1>1. /\ Len(s) \in Nat /\ Len(t) \in Nat /\ Len(u) = Len(s) + Len(t)
      /\ \A j \in 1..Len(s) : u[j] = s[j] /\ s[j] \in T
      /\ \A j \in (Len(s) + 1)..Len(u) : u[j] = t[j - Len(s)] /\ t[j - Len(s)] \in T
  OBVIOUS
<1> HIDE DEF u
<1>2. ASSUME NEW j \in 1..Len(u) PROVE a <= key[u[j]] /\ key[u[j]] < b
  <2>1. CASE j \in 1..Len(s)
    <3>1. u[j] = s[j] /\ s[j] \in T
      BY <1>1, <2>1
    <3>2. a <= key[s[j]] /\ key[s[j]] < m /\ key[s[j]] \in Int
      BY <2>1, <3>1 DEF Ranges
    <3> QED  BY <3>1, <3>2
  <2>2. CASE j \in (Len(s) + 1)..Len(u)
    <3>1. j - Len(s) \in 1..Len(t) /\ u[j] = t[j - Len(s)] /\ t[j - Len(s)] \in T
      BY <1>1, <2>2
    <3>2. m <= key[u[j]] /\ key[u[j]] < b /\ key[u[j]] \in Int
      BY <3>1 DEF Ranges
    <3> QED  BY <3>2
  <2> QED  BY <1>1, <2>1, <2>2
<1>3. ASSUME NEW j \in 1..(Len(u) - 1) PROVE key[u[j]] < key[u[j + 1]]
  <2>1. CASE j \in 1..(Len(s) - 1)
    <3>1. j \in 1..Len(s) /\ j + 1 \in 1..Len(s)
      BY <1>1, <2>1
    <3> QED  BY <1>1, <2>1, <3>1 DEF Climbs
  <2>2. CASE j = Len(s)
    <3>1. j \in 1..Len(s) /\ j + 1 \in (Len(s) + 1)..Len(u) /\ (j + 1) - Len(s) = 1
          /\ 1 \in 1..Len(t)
      BY <1>1, <2>2
    <3>2. u[j] = s[j] /\ s[j] \in T /\ u[j + 1] = t[1] /\ t[1] \in T
      BY <1>1, <3>1
    <3> QED  BY <3>1, <3>2 DEF Ranges
  <2>3. CASE j > Len(s)
    <3> DEFINE i == j - Len(s)
    <3>1. /\ i \in 1..(Len(t) - 1) /\ (j + 1) - Len(s) = i + 1
          /\ j \in (Len(s) + 1)..Len(u) /\ j + 1 \in (Len(s) + 1)..Len(u)
      <4>1. Len(s) \in Nat /\ Len(t) \in Nat /\ Len(u) = Len(s) + Len(t)
        BY <1>1
      <4>2. j \in Int /\ j <= Len(u) - 1
        BY <4>1
      <4> QED  BY <2>3, <4>1, <4>2
    <3>2. u[j] = t[i] /\ u[j + 1] = t[i + 1]
      BY <1>1, <3>1
    <3> HIDE DEF i
    <3> QED  BY <3>1, <3>2 DEF Climbs
  <2> QED  BY <1>1, <2>1, <2>2, <2>3
<1> QED  BY <1>2, <1>3 DEF Climbs, Ranges, u

\* ... and so does any number of them.
LEMMA FlattenedClimbs ==
  ASSUME NEW T, NEW n \in Nat, NEW ss \in [1..n -> Seq(T)], NEW key \in [T -> Int],
         NEW bound \in [1..(n + 1) -> Int],
         \A i \in 1..n : /\ bound[i] <= bound[i + 1]
                         /\ Climbs(ss[i], key) /\ Ranges(ss[i], key, bound[i], bound[i + 1])
  PROVE  Climbs(FlattenSeq(ss), key)
<1> DEFINE G == {p \in (0..n) \X Seq(T) :
                   /\ bound[1] <= bound[p[1] + 1]
                   /\ Climbs(p[2], key) /\ Ranges(p[2], key, bound[1], bound[p[1] + 1])}
<1>1. <<0, <<>>>> \in G
  <2>1. <<>> \in Seq(T) /\ Climbs(<<>>, key) /\ Ranges(<<>>, key, bound[1], bound[0 + 1])
    BY DEF Climbs, Ranges
  <2>2. bound[1] <= bound[0 + 1] /\ 0 \in 0..n
    OBVIOUS
  <2>3. <<0, <<>>>>[1] = 0 /\ <<0, <<>>>>[2] = <<>> /\ <<0, <<>>>> \in (0..n) \X Seq(T)
    BY <2>1, <2>2
  <2> QED  BY <2>1, <2>2, <2>3
<1>2. ASSUME NEW i \in 1..n, NEW s \in Seq(T), <<i - 1, s>> \in G
      PROVE  <<i, s \o ss[i]>> \in G
  <2>1. (i - 1) + 1 = i /\ bound[1] \in Int /\ bound[i] \in Int /\ bound[i + 1] \in Int
        /\ ss[i] \in Seq(T) /\ i \in 0..n
    OBVIOUS
  <2>2. bound[1] <= bound[i] /\ Climbs(s, key) /\ Ranges(s, key, bound[1], bound[i])
    BY <1>2, <2>1
  <2>3. bound[i] <= bound[i + 1] /\ Climbs(ss[i], key) /\ Ranges(ss[i], key, bound[i], bound[i + 1])
    OBVIOUS
  <2>4. Climbs(s \o ss[i], key) /\ Ranges(s \o ss[i], key, bound[1], bound[i + 1])
    BY <2>1, <2>2, <2>3, JoinedClimbs
  <2>5. s \o ss[i] \in Seq(T) /\ bound[1] <= bound[i + 1]
    BY <2>1, <2>2, <2>3
  <2> QED  BY <2>1, <2>4, <2>5
<1> HIDE DEF G
<1>3. <<n, FlattenSeq(ss)>> \in G
  BY <1>1, <1>2, FlattenedStepwise
<1> QED  BY <1>3 DEF G

=============================================================================
