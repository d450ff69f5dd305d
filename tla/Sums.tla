-------------------------------- MODULE Sums --------------------------------
(***************************************************************************)
(* Induction over numbers and finite sets, and sums over finite sets.      *)
(*                                                                         *)
(* Induction is a least counterexample: a set of naturals, or of subsets   *)
(* of a finite set, that is not empty has a least element.  A sum of       *)
(* naturals, which MapThenSumSet of FiniteSetsExt computes element by      *)
(* element in some order, is the number of cells of a table that has for   *)
(* each element as many cells as it contributes: so the order does not     *)
(* matter, and what a sum is after a change follows from what is known of  *)
(* cardinalities.                                                          *)
(***************************************************************************)
EXTENDS Integers, FiniteSetsExt, FiniteSetTheorems, WellFoundedInduction, TLAPS

(* A set of naturals has a least element.                                  *)
LEMMA LeastNatural ==
    ASSUME NEW T, T \subseteq Nat, T # {}
    PROVE  \E n \in T : \A m \in T : n <= m
  <1> DEFINE R == {ss \in Nat \X Nat : ss[1] < ss[2]}
  <1>1. IsWellFoundedOn(R, Nat)
    BY NatLessThanWellFounded DEF OpToRel
  <1>2. ASSUME NEW n \in Nat, NEW m \in Nat, <<m, n>> \notin R
        PROVE  n <= m
    BY <1>2
  <1> HIDE DEF R
  <1>3. PICK n \in T : \A m \in T : <<m, n>> \notin R
    BY <1>1, WFMin
  <1> QED  BY <1>2, <1>3

(* A set of subsets of a finite set has an element that no other is a      *)
(* part of.                                                                *)
LEMMA SmallestSubset ==
    ASSUME NEW S, IsFiniteSet(S), NEW T, T \subseteq SUBSET S, T # {}
    PROVE  \E x \in T : \A y \in T : y \subseteq x => y = x
  <1> DEFINE R == StrictSubsetOrdering(S)
  <1>1. IsWellFoundedOn(R, SUBSET S)
    BY FS_StrictSubsetOrderingWellFounded, FS_FiniteSubsetsOfFinite
  <1>2. ASSUME NEW x \in SUBSET S, NEW y \in SUBSET S, <<y, x>> \notin R, y \subseteq x
        PROVE  y = x
    BY <1>2 DEF StrictSubsetOrdering
  <1> HIDE DEF R
  <1>3. PICK x \in T : \A y \in T : <<y, x>> \notin R
    BY <1>1, WFMin
  <1>4. ASSUME NEW y \in T, y \subseteq x
        PROVE  y = x
    BY <1>2, <1>3, <1>4
  <1> QED  BY <1>4
-----------------------------------------------------------------------------
(* The cells that the elements of s contribute, w[k] of them for k, and    *)
(* their number.                                                           *)
Cells(w, s) == {c \in s \X Nat : 1 <= c[2] /\ c[2] <= w[c[1]]}
Amount(w, s) == Cardinality(Cells(w, s))

Weights(w, s) == \A k \in s : w[k] \in Nat

LEMMA ColumnSize ==
    ASSUME NEW k, NEW n \in Nat
    PROVE  IsFiniteSet({k} \X (1..n)) /\ Cardinality({k} \X (1..n)) = n
  <1>1. IsFiniteSet(1..n) /\ Cardinality(1..n) = n
    BY FS_Interval
  <1>2. IsFiniteSet({k}) /\ Cardinality({k}) = 1
    BY FS_Singleton
  <1>3. IsFiniteSet({k} \X (1..n)) /\ Cardinality({k} \X (1..n)) = Cardinality({k}) * Cardinality(1..n)
    BY <1>1, <1>2, FS_Product
  <1> QED  BY <1>1, <1>2, <1>3

LEMMA CellsSplit ==
    ASSUME NEW w, NEW s, NEW k \in s, w[k] \in Nat
    PROVE  /\ Cells(w, s) = Cells(w, s \ {k}) \cup ({k} \X (1..w[k]))
           /\ Cells(w, s \ {k}) \cap ({k} \X (1..w[k])) = {}
  BY DEF Cells

LEMMA CellsFinite ==
    ASSUME NEW s, IsFiniteSet(s), NEW w, Weights(w, s)
    PROVE  IsFiniteSet(Cells(w, s))
  <1> DEFINE T == {t \in SUBSET s : ~IsFiniteSet(Cells(w, t))}
  <1>1. SUFFICES ASSUME T # {} PROVE FALSE
    OBVIOUS
  <1>2. PICK t \in T : \A y \in T : y \subseteq t => y = t
    <2> HIDE DEF T
    <2>1. T \subseteq SUBSET s
      BY DEF T
    <2> QED  BY <1>1, <2>1, SmallestSubset
  <1>3. Cells(w, {}) = {}
    BY DEF Cells
  <1>4. t # {}
    BY <1>2, <1>3, FS_EmptySet
  <1>5. PICK k \in t : TRUE
    BY <1>4
  <1>6. IsFiniteSet(Cells(w, t \ {k}))
    BY <1>2, <1>5
  <1>7. w[k] \in Nat
    BY <1>5 DEF Weights
  <1> DEFINE column == {k} \X (1..w[k])
             others == Cells(w, t \ {k})
  <1>8. IsFiniteSet(column) /\ IsFiniteSet(others)
    BY <1>6, <1>7, ColumnSize
  <1>9. Cells(w, t) = others \cup column
    BY <1>5, <1>7, CellsSplit
  <1> HIDE DEF column, others
  <1>10. IsFiniteSet(Cells(w, t))
    BY <1>8, <1>9, FS_Union
  <1> QED  BY <1>2, <1>10

(* The laws of sums.                                                       *)
LEMMA AmountOfNone ==
    ASSUME NEW w
    PROVE  Amount(w, {}) = 0
  <1>1. Cells(w, {}) = {}
    BY DEF Cells
  <1> QED  BY <1>1, FS_EmptySet DEF Amount

LEMMA AmountIsNat ==
    ASSUME NEW s, IsFiniteSet(s), NEW w, Weights(w, s)
    PROVE  Amount(w, s) \in Nat
  BY CellsFinite, FS_CardinalityType DEF Amount

LEMMA AmountSplit ==
    ASSUME NEW s, IsFiniteSet(s), NEW w, Weights(w, s), NEW k \in s
    PROVE  Amount(w, s) = w[k] + Amount(w, s \ {k})
  <1> DEFINE column == {k} \X (1..w[k])
             others == Cells(w, s \ {k})
  <1>1. w[k] \in Nat /\ Weights(w, s \ {k}) /\ IsFiniteSet(s \ {k})
    BY FS_Subset DEF Weights
  <1>2. IsFiniteSet(column) /\ Cardinality(column) = w[k]
    BY <1>1, ColumnSize
  <1>3. IsFiniteSet(others)
    BY <1>1, CellsFinite
  <1>4. Cells(w, s) = others \cup column /\ others \cap column = {}
    BY <1>1, CellsSplit
  <1> HIDE DEF column, others
  <1>5. Cardinality(others \cup column) = Cardinality(others) + Cardinality(column) - Cardinality(others \cap column)
    BY <1>2, <1>3, FS_Union
  <1>6. Cardinality(others \cap column) = 0
    BY <1>4, FS_EmptySet
  <1>7. Cardinality(others) \in Nat
    BY <1>3, FS_CardinalityType
  <1> QED  BY <1>1, <1>2, <1>4, <1>5, <1>6, <1>7 DEF Amount, others

LEMMA AmountAgrees ==
    ASSUME NEW s, NEW v, NEW w, \A k \in s : v[k] = w[k]
    PROVE  Amount(v, s) = Amount(w, s)
  <1>1. Cells(v, s) = Cells(w, s)
    BY DEF Cells
  <1> QED  BY <1>1 DEF Amount

(* A part of a set sums to no more than the set.                           *)
LEMMA AmountGrows ==
    ASSUME NEW s, IsFiniteSet(s), NEW w, Weights(w, s), NEW t \in SUBSET s
    PROVE  Amount(w, t) <= Amount(w, s)
  <1>1. IsFiniteSet(Cells(w, s))
    BY CellsFinite
  <1>2. Cells(w, t) \subseteq Cells(w, s)
    BY DEF Cells
  <1> QED  BY <1>1, <1>2, FS_Subset DEF Amount

(* A sum is that of a part and that of the rest.                           *)
LEMMA AmountParts ==
    ASSUME NEW s, IsFiniteSet(s), NEW w, Weights(w, s), NEW t \in SUBSET s
    PROVE  Amount(w, s) = Amount(w, t) + Amount(w, s \ t)
  <1> DEFINE A == Cells(w, t)
             B == Cells(w, s \ t)
  <1>1. IsFiniteSet(A) /\ IsFiniteSet(B)
    <2>1. IsFiniteSet(t) /\ IsFiniteSet(s \ t) /\ Weights(w, t) /\ Weights(w, s \ t)
      BY FS_Subset DEF Weights
    <2> QED BY <2>1, CellsFinite
  <1>2. Cells(w, s) = A \cup B
    BY DEF Cells
  <1>3. A \cap B = {}
    BY DEF Cells
  <1> HIDE DEF A, B
  <1>4. Cardinality(A \cup B) = Cardinality(A) + Cardinality(B) - Cardinality(A \cap B)
    BY <1>1, FS_Union
  <1>5. Cardinality(A) \in Nat /\ Cardinality(B) \in Nat /\ Cardinality(A \cap B) = 0
    BY <1>1, <1>3, FS_CardinalityType, FS_EmptySet
  <1> QED BY <1>2, <1>4, <1>5 DEF Amount, A, B

(* Smaller parts have a smaller sum.                                       *)
LEMMA AmountOfLess ==
    ASSUME NEW s, IsFiniteSet(s), NEW v, Weights(v, s), NEW w, Weights(w, s),
           \A k \in s : v[k] <= w[k]
    PROVE  Amount(v, s) <= Amount(w, s)
  <1>1. IsFiniteSet(Cells(w, s))
    BY CellsFinite
  <1>2. Cells(v, s) \subseteq Cells(w, s)
    BY DEF Cells, Weights
  <1> QED BY <1>1, <1>2, FS_Subset DEF Amount

(* A sum of more than nothing has a part that is more than nothing.        *)
LEMMA AmountOfSome ==
    ASSUME NEW s, NEW w, Weights(w, s), Amount(w, s) # 0
    PROVE  \E k \in s : w[k] > 0
  <1>1. Cells(w, s) # {}
    BY FS_EmptySet DEF Amount
  <1>2. PICK c \in s \X Nat : 1 <= c[2] /\ c[2] <= w[c[1]]
    BY <1>1 DEF Cells
  <1>3. c[1] \in s /\ c[2] \in Nat /\ w[c[1]] \in Nat
    BY <1>2 DEF Weights
  <1> QED  BY <1>2, <1>3

(* The same parts under other names have the same sum.                     *)
LEMMA AmountMoved ==
    ASSUME NEW s, IsFiniteSet(s), NEW v, Weights(v, s), NEW t, NEW w, NEW b \in [s -> t],
           \A k \in s : w[b[k]] = v[k],
           \A j, k \in s : b[j] = b[k] => j = k,
           \A l \in t : \E k \in s : b[k] = l
    PROVE  Amount(w, t) = Amount(v, s)
  <1> DEFINE A == Cells(v, s)
             B == Cells(w, t)
             g == [c \in A |-> <<b[c[1]], c[2]>>]
  <1>1. ASSUME NEW c \in A PROVE g[c] \in B
    <2>1. c[1] \in s /\ c[2] \in Nat /\ 1 <= c[2] /\ c[2] <= v[c[1]]
      BY DEF Cells
    <2>2. g[c] = <<b[c[1]], c[2]>> /\ b[c[1]] \in t /\ w[b[c[1]]] = v[c[1]]
      BY <2>1
    <2> QED  BY <2>1, <2>2 DEF Cells
  <1>2. ASSUME NEW c \in A, NEW d \in A, g[c] = g[d] PROVE c = d
    <2>1. c \in s \X Nat /\ d \in s \X Nat
      BY DEF Cells
    <2>2. b[c[1]] = b[d[1]] /\ c[2] = d[2]
      BY <1>2
    <2>3. c[1] = d[1]
      BY <2>1, <2>2
    <2> QED  BY <2>1, <2>2, <2>3
  <1>3. ASSUME NEW d \in B PROVE \E c \in A : g[c] = d
    <2>1. d \in t \X Nat /\ 1 <= d[2] /\ d[2] <= w[d[1]]
      BY DEF Cells
    <2>2. PICK k \in s : b[k] = d[1]
      BY <2>1
    <2>3. <<k, d[2]>> \in A
      BY <2>1, <2>2 DEF Cells
    <2>4. g[<<k, d[2]>>] = d
      BY <2>1, <2>2, <2>3
    <2> QED  BY <2>3, <2>4
  <1>4. IsFiniteSet(A)
    BY CellsFinite
  <1>5. g \in [A -> B]
    BY <1>1
  <1> HIDE DEF A, B, g
  <1>6. g \in Bijection(A, B)
    BY <1>2, <1>3, <1>5 DEF Bijection, Injection, IsInjective, Surjection
  <1> QED  BY <1>4, <1>6, FS_Bijection DEF ExistsBijection, Amount, A, B
-----------------------------------------------------------------------------
(* What MapThenSumSet computes: the sum of every subset from that of the   *)
(* subset without one of its elements.                                     *)
OneOf(s) == CHOOSE x \in s : TRUE
SumsOf(it, w, D) == it = [s \in SUBSET D |-> IF s = {} THEN 0 ELSE w[OneOf(s)] + it[s \ {OneOf(s)}]]

LEMMA OneIsIn ==
    ASSUME NEW s, s # {}
    PROVE  OneOf(s) \in s
  BY DEF OneOf

LEMMA AmountsAreSums ==
    ASSUME NEW D, IsFiniteSet(D), NEW w, Weights(w, D)
    PROVE  SumsOf([s \in SUBSET D |-> Amount(w, s)], w, D)
  <1> DEFINE it == [s \in SUBSET D |-> Amount(w, s)]
  <1>1. ASSUME NEW s \in SUBSET D
        PROVE  it[s] = IF s = {} THEN 0 ELSE w[OneOf(s)] + it[s \ {OneOf(s)}]
    <2>1. CASE s = {}
      BY <2>1, AmountOfNone
    <2>2. CASE s # {}
      <3>1. OneOf(s) \in s /\ IsFiniteSet(s) /\ Weights(w, s)
        BY <2>2, OneIsIn, FS_Subset DEF Weights
      <3>2. Amount(w, s) = w[OneOf(s)] + Amount(w, s \ {OneOf(s)})
        BY <3>1, AmountSplit
      <3>3. s \ {OneOf(s)} \in SUBSET D
        OBVIOUS
      <3> QED  BY <2>2, <3>2, <3>3
    <2> QED  BY <2>1, <2>2
  <1> QED  BY <1>1, Zenon DEF SumsOf

LEMMA SumsAreAmounts ==
    ASSUME NEW D, IsFiniteSet(D), NEW w, Weights(w, D), NEW it, SumsOf(it, w, D)
    PROVE  it[D] = Amount(w, D)
  <1> DEFINE T == {t \in SUBSET D : it[t] # Amount(w, t)}
  <1>1. SUFFICES ASSUME T # {} PROVE FALSE
    OBVIOUS
  <1>2. PICK t \in T : \A y \in T : y \subseteq t => y = t
    <2> HIDE DEF T
    <2>1. T \subseteq SUBSET D
      BY DEF T
    <2> QED  BY <1>1, <2>1, SmallestSubset
  <1>3. it[t] = IF t = {} THEN 0 ELSE w[OneOf(t)] + it[t \ {OneOf(t)}]
    BY <1>2, Zenon DEF SumsOf
  <1>4. CASE t = {}
    BY <1>2, <1>3, <1>4, AmountOfNone
  <1>5. CASE t # {}
    <2>1. OneOf(t) \in t /\ IsFiniteSet(t) /\ Weights(w, t)
      BY <1>2, <1>5, OneIsIn, FS_Subset DEF Weights
    <2>2. it[t \ {OneOf(t)}] = Amount(w, t \ {OneOf(t)})
      BY <1>2, <2>1
    <2>3. Amount(w, t) = w[OneOf(t)] + Amount(w, t \ {OneOf(t)})
      BY <2>1, AmountSplit
    <2> QED  BY <1>2, <1>3, <1>5, <2>2, <2>3
  <1> QED  BY <1>4, <1>5
=============================================================================
