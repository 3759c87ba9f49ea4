----------------------------- MODULE FiniteCounting ----------------------------
(***************************************************************************)
(* What the proofs need of finite sets beyond the library's theorems.      *)
(*                                                                         *)
(* A power of two counts the subsets of a set, so it is a positive number. *)
(*                                                                         *)
(* The sum over a finite set, MapThenSumSet of FiniteSetsExt, is a         *)
(* function of subsets defined by itself: that it has the value its        *)
(* definition says, whatever element is chosen first, is shown along the   *)
(* inclusion of subsets, which is well founded.                            *)
(***************************************************************************)
EXTENDS Naturals, FiniteSetsExt, FiniteSetTheorems, TLAPS

(* Powers. *)

LEMMA Power == ASSUME NEW n \in Nat  PROVE 2 ^ n \in Nat /\ 2 ^ n # 0
<1> DEFINE S == 1..n
<1>1. IsFiniteSet(S) /\ Cardinality(S) = n
  <2>1. 1 \in Int /\ n \in Int
    OBVIOUS
  <2>2. Cardinality(S) = IF 1 > n THEN 0 ELSE n - 1 + 1
    BY <2>1, FS_Interval
  <2>3. IsFiniteSet(S)
    BY <2>1, FS_Interval
  <2> QED
    BY <2>2, <2>3
<1> HIDE DEF S
<1>2. Cardinality(SUBSET S) = 2 ^ Cardinality(S) /\ IsFiniteSet(SUBSET S)
  BY <1>1, FS_SUBSET
<1>3. Cardinality(SUBSET S) \in Nat
  BY <1>2, FS_CardinalityType
<1>4. Cardinality(SUBSET S) # 0
  BY <1>2, FS_EmptySet
<1>5. Cardinality(SUBSET S) = 2 ^ n
  BY <1>1, <1>2, Zenon
<1> QED
  BY <1>3, <1>4, <1>5, Zenon

(* Sums. *)

Element(s) == CHOOSE x \in s : TRUE
Rest(s)    == s \ {Element(s)}

\* g gives the sum of v over each subset of D.
IsSumOf(g, v, D) ==
    g = [s \in SUBSET D |-> IF s = {} THEN 0 ELSE v[Element(s)] + g[Rest(s)]]

Total(v, D) == (CHOOSE g : IsSumOf(g, v, D))[D]

\* What holds of a set when it holds of its proper subsets holds of each.
LEMMA SubsetInduction ==
    ASSUME NEW D, IsFiniteSet(D), NEW G,
           \A T \in SUBSET D : (\A U \in SUBSET T : U # T => U \in G) => T \in G
    PROVE  SUBSET D \subseteq G
<1> DEFINE Bad == (SUBSET D) \ G
<1> SUFFICES ASSUME Bad # {} PROVE FALSE
  OBVIOUS
<1>1. Bad \subseteq FiniteSubsetsOf(D)
  BY FS_FiniteSubsetsOfFinite
<1>2. IsWellFoundedOn(StrictSubsetOrdering(D), FiniteSubsetsOf(D))
  BY FS_StrictSubsetOrderingWellFounded
<1> HIDE DEF Bad
<1>3. PICK T \in Bad : \A U \in Bad : ~(<<U, T>> \in StrictSubsetOrdering(D))
  BY <1>1, <1>2, WFMin
<1> USE DEF Bad
<1>4. ASSUME NEW U \in SUBSET T, U # T PROVE U \in G
  <2>1. U \in SUBSET D /\ T \in SUBSET D
    OBVIOUS
  <2>2. <<U, T>> \in StrictSubsetOrdering(D)
    BY <1>4, <2>1 DEF StrictSubsetOrdering
  <2> QED
    BY <1>3, <2>1, <2>2
<1> QED
  BY <1>4

LEMMA SplitsOff ==
    ASSUME NEW T, T # {}
    PROVE  /\ Element(T) \in T
           /\ Rest(T) \in SUBSET T /\ Rest(T) # T
<1>1. Element(T) \in T
  BY Zenon DEF Element
<1> QED
  BY <1>1 DEF Rest

LEMMA SumValues ==
    ASSUME NEW g, NEW v, NEW D, IsSumOf(g, v, D), NEW T \in SUBSET D
    PROVE  g[T] = IF T = {} THEN 0 ELSE v[Element(T)] + g[Rest(T)]
<1> DEFINE body(s) == IF s = {} THEN 0 ELSE v[Element(s)] + g[Rest(s)]
<1>1. g = [s \in SUBSET D |-> body(s)]
  BY DEF IsSumOf
<1> HIDE DEF body
<1>2. g[T] = body(T)
  BY <1>1
<1> QED
  BY <1>2 DEF body

\* Functions of sums agree where their values do.
LEMMA SumsAgree ==
    ASSUME NEW D, IsFiniteSet(D), NEW v, NEW w, \A x \in D : v[x] = w[x],
           NEW S, NEW T, D \subseteq S, D \subseteq T,
           NEW g, NEW h, IsSumOf(g, v, S), IsSumOf(h, w, T)
    PROVE  \A U \in SUBSET D : g[U] = h[U]
<1> DEFINE G == {U \in SUBSET D : g[U] = h[U]}
<1>1. ASSUME NEW U \in SUBSET D, \A X \in SUBSET U : X # U => X \in G
      PROVE  U \in G
  <2>1. /\ g[U] = IF U = {} THEN 0 ELSE v[Element(U)] + g[Rest(U)]
        /\ h[U] = IF U = {} THEN 0 ELSE w[Element(U)] + h[Rest(U)]
    BY SumValues
  <2>2. CASE U # {}
    <3>1. Element(U) \in D /\ g[Rest(U)] = h[Rest(U)]
      BY <1>1, <2>2, SplitsOff
    <3> QED
      BY <2>1, <2>2, <3>1
  <2> QED
    BY <2>1, <2>2
<1> HIDE DEF G
<1>2. SUBSET D \subseteq G
  BY <1>1, SubsetInduction
<1> QED
  BY <1>2 DEF G

LEMMA SumExists ==
    ASSUME NEW D, IsFiniteSet(D), NEW v
    PROVE  \A T \in SUBSET D : IsSumOf(CHOOSE g : IsSumOf(g, v, T), v, T)
<1> DEFINE sum(s) == CHOOSE g : IsSumOf(g, v, s)
           G == {T \in SUBSET D : IsSumOf(sum(T), v, T)}
<1>1. ASSUME NEW T \in SUBSET D, \A U \in SUBSET T : U # T => U \in G
      PROVE  T \in G
  <2> DEFINE value(s) == IF s = {} THEN 0 ELSE v[Element(s)] + sum(Rest(s))[Rest(s)]
             h == [s \in SUBSET T |-> value(s)]
  <2>1. ASSUME NEW U \in SUBSET T, U # T, U # {}
        PROVE  sum(U)[Rest(U)] = sum(Rest(U))[Rest(U)]
    <3>1. /\ Rest(U) \in SUBSET U /\ Rest(U) # T /\ Rest(U) \in SUBSET T
      BY <2>1, SplitsOff
    <3>2. IsSumOf(sum(U), v, U) /\ IsSumOf(sum(Rest(U)), v, Rest(U))
      BY <1>1, <2>1, <3>1
    <3>3. IsFiniteSet(Rest(U))
      BY <3>1, FS_Subset
    <3> HIDE DEF sum
    <3> QED
      BY <3>1, <3>2, <3>3, SumsAgree
  <2>2. ASSUME NEW U \in SUBSET T, U # T
        PROVE  sum(U)[U] = value(U)
    <3>1. IsSumOf(sum(U), v, U)
      BY <1>1, <2>2
    <3> HIDE DEF sum
    <3>2. sum(U)[U] = IF U = {} THEN 0 ELSE v[Element(U)] + sum(U)[Rest(U)]
      BY <3>1, SumValues
    <3> QED
      BY <2>1, <2>2, <3>2
  <2>3. ASSUME NEW s \in SUBSET T, s # {}
        PROVE  h[Rest(s)] = sum(Rest(s))[Rest(s)]
    <3>1. Rest(s) \in SUBSET T /\ Rest(s) # T
      BY <2>3, SplitsOff
    <3>2. h[Rest(s)] = value(Rest(s))
      BY <3>1
    <3> HIDE DEF sum, h, value
    <3> QED
      BY <2>2, <3>1, <3>2
  <2>4. IsSumOf(h, v, T)
    <3>1. ASSUME NEW s \in SUBSET T
          PROVE  value(s) = IF s = {} THEN 0 ELSE v[Element(s)] + h[Rest(s)]
      <4> HIDE DEF h, sum
      <4> QED
        BY <2>3
    <3> DEFINE body(s) == IF s = {} THEN 0 ELSE v[Element(s)] + h[Rest(s)]
    <3>2. \A s \in SUBSET T : value(s) = body(s)
      BY <3>1
    <3>3. h = [s \in SUBSET T |-> value(s)]
      OBVIOUS
    <3> HIDE DEF h, value, body
    <3>4. h = [s \in SUBSET T |-> body(s)]
      BY <3>2, <3>3
    <3> QED
      BY <3>4 DEF IsSumOf, body
  <2> HIDE DEF h
  <2>5. IsSumOf(sum(T), v, T)
    BY <2>4, Zenon
  <2> QED
    BY <2>5
<1> HIDE DEF G
<1>2. SUBSET D \subseteq G
  BY <1>1, SubsetInduction
<1> QED
  BY <1>2 DEF G

LEMMA TotalOfElement ==
    ASSUME NEW D, IsFiniteSet(D), NEW v
    PROVE  Total(v, D) = IF D = {} THEN 0 ELSE v[Element(D)] + Total(v, Rest(D))
<1> DEFINE sum(s) == CHOOSE g : IsSumOf(g, v, s)
<1>1. IsSumOf(sum(D), v, D)
  BY SumExists, Zenon
<1>2. Total(v, D) = sum(D)[D] /\ Total(v, Rest(D)) = sum(Rest(D))[Rest(D)]
  BY DEF Total
<1>3. ASSUME D # {} PROVE sum(D)[Rest(D)] = sum(Rest(D))[Rest(D)]
  <2>1. Rest(D) \in SUBSET D
    BY <1>3, SplitsOff
  <2>2. IsSumOf(sum(Rest(D)), v, Rest(D)) /\ IsFiniteSet(Rest(D))
    BY <2>1, SumExists, FS_Subset, Zenon
  <2> HIDE DEF sum
  <2> QED
    BY <1>1, <2>1, <2>2, SumsAgree
<1> HIDE DEF sum
<1>4. sum(D)[D] = IF D = {} THEN 0 ELSE v[Element(D)] + sum(D)[Rest(D)]
  BY <1>1, SumValues
<1> QED
  BY <1>2, <1>3, <1>4

LEMMA TotalsAgree ==
    ASSUME NEW D, IsFiniteSet(D), NEW v, NEW w, \A x \in D : v[x] = w[x]
    PROVE  Total(v, D) = Total(w, D)
<1> DEFINE sum(f) == CHOOSE g : IsSumOf(g, f, D)
<1>1. IsSumOf(sum(v), v, D) /\ IsSumOf(sum(w), w, D)
  BY SumExists, Zenon
<1> HIDE DEF sum
<1>2. sum(v)[D] = sum(w)[D]
  BY <1>1, SumsAgree
<1> QED
  BY <1>2 DEF sum, Total

LEMMA TotalTyped ==
    ASSUME NEW D, IsFiniteSet(D), NEW v, \A x \in D : v[x] \in Nat
    PROVE  \A T \in SUBSET D : Total(v, T) \in Nat
<1> DEFINE G == {T \in SUBSET D : Total(v, T) \in Nat}
<1>1. ASSUME NEW T \in SUBSET D, \A U \in SUBSET T : U # T => U \in G
      PROVE  T \in G
  <2>1. Total(v, T) = IF T = {} THEN 0 ELSE v[Element(T)] + Total(v, Rest(T))
    BY FS_Subset, TotalOfElement
  <2>2. ASSUME T # {} PROVE v[Element(T)] \in Nat /\ Total(v, Rest(T)) \in Nat
    BY <1>1, <2>2, SplitsOff
  <2> QED
    BY <2>1, <2>2
<1> HIDE DEF G
<1>2. SUBSET D \subseteq G
  BY <1>1, SubsetInduction
<1> QED
  BY <1>2 DEF G

\* Any element may be added last.
LEMMA TotalOfAny ==
    ASSUME NEW D, IsFiniteSet(D), NEW v, \A x \in D : v[x] \in Nat
    PROVE  \A T \in SUBSET D : \A x \in T : Total(v, T) = v[x] + Total(v, T \ {x})
<1> DEFINE G == {T \in SUBSET D : \A x \in T : Total(v, T) = v[x] + Total(v, T \ {x})}
<1>1. ASSUME NEW T \in SUBSET D, \A U \in SUBSET T : U # T => U \in G
      PROVE  T \in G
  <2> SUFFICES ASSUME NEW x \in T PROVE Total(v, T) = v[x] + Total(v, T \ {x})
    OBVIOUS
  <2> DEFINE y == Element(T)
  <2>1. y \in T /\ Rest(T) = T \ {y} /\ Rest(T) \in SUBSET T /\ Rest(T) # T
    BY SplitsOff DEF Rest
  <2> HIDE DEF y
  <2>2. Total(v, T) = v[y] + Total(v, T \ {y})
    BY <2>1, FS_Subset, TotalOfElement DEF y
  <2>3. CASE x = y
    BY <2>2, <2>3
  <2>4. CASE x # y
    <3>1. /\ T \ {y} \in SUBSET T /\ T \ {y} # T /\ x \in T \ {y}
          /\ T \ {x} \in SUBSET T /\ T \ {x} # T /\ y \in T \ {x}
      BY <2>1, <2>4
    <3>2. T \ {y} \in G /\ T \ {x} \in G
      BY <1>1, <3>1
    <3>3. /\ Total(v, T \ {y}) = v[x] + Total(v, (T \ {y}) \ {x})
          /\ Total(v, T \ {x}) = v[y] + Total(v, (T \ {x}) \ {y})
      BY <3>1, <3>2
    <3>4. (T \ {y}) \ {x} = (T \ {x}) \ {y}
      OBVIOUS
    <3> DEFINE rest == Total(v, (T \ {x}) \ {y})
    <3>5. v[x] \in Nat /\ v[y] \in Nat /\ rest \in Nat
      <4>1. (T \ {x}) \ {y} \in SUBSET D
        OBVIOUS
      <4> QED
        BY <2>1, <4>1, TotalTyped
    <3>6. /\ Total(v, T \ {y}) = v[x] + rest
          /\ Total(v, T \ {x}) = v[y] + rest
      BY <3>3, <3>4
    <3> HIDE DEF rest
    <3> QED
      BY <2>2, <3>5, <3>6
  <2> QED
    BY <2>3, <2>4
<1> HIDE DEF G
<1>2. SUBSET D \subseteq G
  BY <1>1, SubsetInduction
<1> QED
  BY <1>2 DEF G

\* A sum changes by what one element does.
LEMMA TotalOfOne ==
    ASSUME NEW D, IsFiniteSet(D), NEW v, \A x \in D : v[x] \in Nat, NEW x \in D
    PROVE  /\ Total(v, D) = v[x] + Total(v, D \ {x})
           /\ Total(v, D) \in Nat /\ Total(v, D \ {x}) \in Nat
           /\ v[x] <= Total(v, D)
<1>1. Total(v, D) = v[x] + Total(v, D \ {x})
  BY TotalOfAny
<1>2. D \ {x} \in SUBSET D /\ D \in SUBSET D
  OBVIOUS
<1>3. Total(v, D) \in Nat /\ Total(v, D \ {x}) \in Nat
  BY <1>2, TotalTyped
<1>4. v[x] \in Nat
  OBVIOUS
<1> QED
  BY <1>1, <1>3, <1>4

LEMMA TotalOfNone == \A v : Total(v, {}) = 0
  BY FS_EmptySet, TotalOfElement

\* The sum is the library's.
LEMMA TotalIsSum ==
    ASSUME NEW D, NEW v
    PROVE  MapThenSumSet(LAMBDA x : v[x], D) = Total(v, D)
  BY DEF MapThenSumSet, MapThenFoldSet, Total, IsSumOf, Element, Rest

================================================================================
