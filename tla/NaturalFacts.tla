---------------------------- MODULE NaturalFacts ----------------------------
(***************************************************************************)
(* Induction on the naturals in a first-order form, and extrema.            *)
(***************************************************************************)
EXTENDS Integers, FiniteSets, FiniteSetsExt, FiniteSetTheorems, TLAPS

(* Induction, for the set of the numbers that have the property.  Were m the *)
(* first one without it, the successor would map 0 .. m - 1 into itself        *)
(* without 0, one to one.                                                       *)
THEOREM SetInduction ==
  ASSUME NEW T, T \subseteq Nat, 0 \in T, \A n \in T : n + 1 \in T
  PROVE  T = Nat
<1>. SUFFICES ASSUME NEW m \in Nat, m \notin T PROVE FALSE
  OBVIOUS
<1>. DEFINE U == {k \in T : k <= m}
<1>1. IsFiniteSet(U)
  <2>1. IsFiniteSet(0 .. m)
    BY FS_Interval
  <2>2. \A k \in U : k \in 0 .. m
    OBVIOUS
  <2>3. U \in SUBSET (0 .. m)
    <3>. HIDE DEF U
    <3>. QED BY <2>2, Zenon
  <2>. HIDE DEF U
  <2>. QED BY <2>1, <2>3, FS_Subset
<1>2. IsFiniteSet(U \ {0}) /\ Cardinality(U \ {0}) = Cardinality(U) - 1
  <2>1. 0 \in U
    OBVIOUS
  <2>. HIDE DEF U
  <2>. QED BY <2>1, <1>1, FS_RemoveElement
<1>. DEFINE f == [k \in U |-> k + 1]
<1>3. f \in Injection(U, U \ {0})
  <2>1. \A k \in U : f[k] \in U \ {0}
    OBVIOUS
  <2>2. \A j, k \in U : f[j] = f[k] => j = k
    OBVIOUS
  <2>3. f \in [U -> U \ {0}]
    <3>. HIDE DEF U
    <3>. QED BY <2>1
  <2>. QED BY <2>2, <2>3 DEF Injection, IsInjective
<1>4. Cardinality(U) <= Cardinality(U \ {0})
  <2>. HIDE DEF U, f
  <2>. QED BY <1>1, <1>2, <1>3, FS_Injection
<1>5. Cardinality(U) \in Nat
  <2>. HIDE DEF U
  <2>. QED BY <1>1, FS_CardinalityType
<1>. QED
  <2>. HIDE DEF U
  <2>. QED BY <1>2, <1>4, <1>5

(* Induction up to n.                                                         *)
THEOREM RangeInduction ==
  ASSUME NEW n \in Nat, NEW T, 0 \in T, \A i \in 1 .. n : i - 1 \in T => i \in T
  PROVE  \A i \in 0 .. n : i \in T
<1>. DEFINE U == {k \in Nat : k <= n => k \in T}
<1>1. 0 \in U
  OBVIOUS
<1>2. \A k \in U : k + 1 \in U
  <2>. SUFFICES ASSUME NEW k \in U, k + 1 <= n PROVE k + 1 \in T
    OBVIOUS
  <2>1. k + 1 \in 1 .. n /\ k + 1 - 1 = k /\ k \in T
    OBVIOUS
  <2>. QED BY <2>1
<1>3. U = Nat
  <2>1. U \subseteq Nat
    OBVIOUS
  <2>. HIDE DEF U
  <2>. QED BY <1>1, <1>2, <2>1, SetInduction
<1>. QED BY <1>3

(* A set of naturals that is not empty has a minimum, the one Min chooses.   *)
LEMMA MinOfNaturals ==
  ASSUME NEW S, S \subseteq Nat, S # {}
  PROVE  Min(S) \in S /\ \A x \in S : Min(S) <= x
<1>. DEFINE T == {n \in Nat : \A x \in S : n <= x}
<1>1. \E b \in S : \A x \in S : b <= x
  <2>. SUFFICES ASSUME \A b \in S : \E x \in S : ~(b <= x) PROVE FALSE
    BY Zenon
  <2>1. 0 \in T
    OBVIOUS
  <2>2. \A n \in T : n + 1 \in T
    OBVIOUS
  <2>3. T = Nat
    <3>1. T \subseteq Nat
      OBVIOUS
    <3>. HIDE DEF T
    <3>. QED BY <2>1, <2>2, <3>1, SetInduction
  <2>4. PICK x \in S : TRUE
    OBVIOUS
  <2>5. x + 1 \in T
    <3>1. x + 1 \in Nat
      OBVIOUS
    <3>. HIDE DEF T
    <3>. QED BY <2>3, <3>1
  <2>. QED BY <2>4, <2>5
<1>. QED BY <1>1 DEF Min

(* A finite set of naturals that is not empty has a maximum, the one Max     *)
(* chooses.                                                                    *)
LEMMA MaxOfFinite ==
  ASSUME NEW S, S \subseteq Nat, S # {}, IsFiniteSet(S)
  PROVE  Max(S) \in S /\ \A x \in S : x <= Max(S)
<1>. DEFINE HasMax(U) == \E b \in U : \A x \in U : x <= b
            Applies(U, n) == /\ \A x \in U : x \in Nat
                             /\ IsFiniteSet(U) /\ Cardinality(U) = n
            T == {n \in Nat : \A U : Applies(U, n) => U = {} \/ HasMax(U)}
<1>1. 0 \in T
  <2>1. \A U : Applies(U, 0) => U = {}
    BY FS_EmptySet
  <2>. QED BY <2>1
<1>2. ASSUME NEW n \in T PROVE n + 1 \in T
  <2>1. n \in Nat /\ n + 1 \in Nat
    OBVIOUS
  <2>2. ASSUME NEW U, Applies(U, n + 1), U # {} PROVE HasMax(U)
    <3>1. PICK x \in U : TRUE
      BY <2>2
    <3>2. IsFiniteSet(U \ {x}) /\ Cardinality(U \ {x}) = n
      <4>1. Cardinality(U) = n + 1 /\ IsFiniteSet(U) /\ x \in U
        BY <2>2, <3>1
      <4>2. IsFiniteSet(U \ {x}) /\ Cardinality(U \ {x}) = Cardinality(U) - 1
        BY <4>1, FS_RemoveElement
      <4>. QED BY <4>1, <4>2, <2>1
    <3>3. Applies(U \ {x}, n)
      BY <3>2, <2>2
    <3>4. U \ {x} = {} \/ HasMax(U \ {x})
      BY <3>3
    <3>5. CASE U \ {x} = {}
      <4>1. \A y \in U : y = x
        BY <3>5
      <4>. QED BY <4>1, <2>2, <3>1
    <3>6. CASE HasMax(U \ {x})
      <4>1. PICK b \in U \ {x} : \A y \in U \ {x} : y <= b
        BY <3>6
      <4>2. b \in Nat /\ x \in Nat
        BY <2>2
      <4>3. CASE x <= b
        BY <4>1, <4>2, <4>3
      <4>4. CASE b <= x
        <5>1. \A y \in U : y <= x
          BY <4>1, <4>2, <4>4, <2>2
        <5>. QED BY <5>1
      <4>. QED BY <4>2, <4>3, <4>4
    <3>. QED BY <3>4, <3>5, <3>6
  <2>. QED BY <2>1, <2>2
<1>3. T = Nat
  <2>1. T \subseteq Nat
    OBVIOUS
  <2>. HIDE DEF T
  <2>. QED BY <1>1, <1>2, <2>1, SetInduction
<1>4. Cardinality(S) \in T /\ Applies(S, Cardinality(S))
  <2>1. Cardinality(S) \in Nat
    BY FS_CardinalityType
  <2>2. Applies(S, Cardinality(S))
    OBVIOUS
  <2>. HIDE DEF T
  <2>. QED BY <2>1, <2>2, <1>3
<1>5. HasMax(S)
  BY <1>4
<1>. QED BY <1>5 DEF Max

(* The same for a set of which all are at most b.                            *)
LEMMA MaxOfBounded ==
  ASSUME NEW b \in Nat, NEW S, \A x \in S : x \in 0 .. b, S # {}
  PROVE  Max(S) \in S /\ Max(S) \in 0 .. b /\ \A x \in S : x <= Max(S)
<1>1. IsFiniteSet(0 .. b)
  BY FS_Interval
<1>2. S \in SUBSET (0 .. b)
  BY Zenon
<1>3. IsFiniteSet(S) /\ S \subseteq Nat
  <2>1. IsFiniteSet(S)
    BY <1>1, <1>2, FS_Subset
  <2>2. S \subseteq Nat
    OBVIOUS
  <2>. QED BY <2>1, <2>2
<1>. QED BY <1>3, MaxOfFinite

(* The greatest of a number and the elements of a set, all at most b.        *)
LEMMA MaxWith ==
  ASSUME NEW b \in Nat, NEW low \in 0 .. b, NEW S, \A x \in S : x \in 0 .. b
  PROVE  Max({low} \cup S) \in low .. b
<1>. DEFINE T == {low} \cup S
            m == Max(T)
<1>1. (\A x \in T : x \in 0 .. b) /\ T # {} /\ low \in T
  OBVIOUS
<1>2. m \in 0 .. b /\ \A x \in T : x <= m
  <2>. HIDE DEF T
  <2>. QED BY <1>1, MaxOfBounded
<1>3. low <= m
  <2>. HIDE DEF T, m
  <2>. QED BY <1>1, <1>2
<1>4. m \in low .. b
  <2>. HIDE DEF m
  <2>. QED BY <1>2, <1>3
<1>. QED BY <1>4
=============================================================================
