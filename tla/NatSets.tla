------------------------------ MODULE NatSets -------------------------------
(***************************************************************************)
(* The smallest and the largest element of a set of naturals.              *)
(***************************************************************************)
EXTENDS Integers, FiniteSetsExt, WellFoundedInduction, TLAPS

\* A non-empty set of naturals has a smallest element, and Min returns it.
LEMMA MinOfNats ==
    ASSUME NEW S, S \subseteq Nat, S # {}
    PROVE  Min(S) \in S /\ \A x \in S : Min(S) <= x
<1>1. IsWellFoundedOn(OpToRel(<, Nat), Nat)
  BY NatLessThanWellFounded
<1>2. \E x \in S : \A y \in S : ~(<<y, x>> \in OpToRel(<, Nat))
  BY <1>1, WFMin, Zenon
<1>3. PICK x \in S : \A y \in S : ~(<<y, x>> \in OpToRel(<, Nat))
  BY <1>2
<1>4. \A y \in Nat : y < x => <<y, x>> \in OpToRel(<, Nat)
  BY <1>3, Zenon DEF OpToRel
<1>5. \A y \in S : ~(y < x)
  BY <1>3, <1>4, Zenon
<1>6. \A y \in S : x <= y
  BY <1>5, SMT
<1>7. QED
  BY <1>6, Zenon DEF Min

\* A non-empty set of naturals with an upper bound has a largest element, and Max
\* returns it.
LEMMA MaxOfBounded ==
    ASSUME NEW S, NEW n \in Nat, S \subseteq 0..n, S # {}
    PROVE  Max(S) \in S /\ \A x \in S : x <= Max(S)
<1> DEFINE T == {y \in 0..n : n - y \in S}
<1>1. T \subseteq Nat
  BY SMT
<1>2. PICK x0 \in S : TRUE
  BY Zenon
<1>3. n - x0 \in 0..n /\ n - (n - x0) = x0
  BY SMT
<1>4. T # {}
  BY <1>2, <1>3, Zenon
<1>5. Min(T) \in T /\ \A y \in T : Min(T) <= y
  <2> HIDE DEF T
  <2> QED
    BY <1>1, <1>4, MinOfNats, Zenon
<1> DEFINE m == n - Min(T)
<1>6. Min(T) \in 0..n /\ m \in S
  BY <1>5, Zenon
<1>7. \A x \in S : n - x \in T
  BY SMT
<1>8. \A x \in S : Min(T) <= n - x
  BY <1>5, <1>7, Zenon
<1>9. \A x \in S : m >= x
  <2> HIDE DEF T
  <2> QED
    BY <1>6, <1>8, SMT
<1>10. Max(S) \in S /\ \A x \in S : Max(S) >= x
  BY <1>6, <1>9, Zenon DEF Max
<1>11. QED
  BY <1>6, <1>10, SMT
=============================================================================
