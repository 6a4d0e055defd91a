------------------------------ MODULE Extremes ------------------------------
(***************************************************************************)
(* The smallest and the largest element of a set of numbers.               *)
(***************************************************************************)
EXTENDS FiniteSetsExt, Integers, NaturalsInduction, WellFoundedInduction, TLAPS

\* A set of numbers that is not empty has a smallest element.
LEMMA MinIsLeast ==
    ASSUME NEW T \in SUBSET Nat, T # {}
    PROVE  Min(T) \in T /\ \A y \in T : Min(T) =< y
<1> DEFINE Less == {p \in Nat \X Nat : p[1] < p[2]}
<1>1. IsWellFoundedOn(Less, Nat)
  BY NatLessThanWellFounded, Zenon DEF OpToRel
<1> HIDE DEF Less
<1>2. PICK x \in T : \A y \in T : ~(<<y, x>> \in Less)
  BY <1>1, WFMin
<1>3. ASSUME NEW y \in T
      PROVE  x =< y
  <2>1. x \in Nat /\ y \in Nat
    OBVIOUS
  <2>2. y < x => <<y, x>> \in Less
    BY <2>1 DEF Less
  <2>3. QED
    BY <1>2, <2>1, <2>2
<1>4. QED
  BY <1>3 DEF Min

\* A set of numbers with a bound has a largest element, which is its least bound.
LEMMA MaxIsGreatest ==
    ASSUME NEW T \in SUBSET Nat, T # {}, NEW bound \in Nat, \A y \in T : y =< bound
    PROVE  Max(T) \in T /\ \A y \in T : y =< Max(T)
<1> DEFINE B == {b \in Nat : \A y \in T : y =< b}
           least == Min(B)
<1>1. B \in SUBSET Nat /\ B # {}
  OBVIOUS
<1>2. least \in B /\ \A b \in B : least =< b
  BY <1>1, MinIsLeast
<1> HIDE DEF least
<1>3. least \in Nat /\ \A y \in T : y =< least
  BY <1>2
<1>4. least \in T
  <2> SUFFICES ASSUME least \notin T PROVE FALSE
    OBVIOUS
  <2>1. \A y \in T : y \in Nat /\ y =< least - 1
    BY <1>3
  <2>2. PICK x \in T : TRUE
    OBVIOUS
  <2>3. least - 1 \in Nat
    BY <1>3, <2>1, <2>2
  <2>4. least - 1 \in B
    BY <2>1, <2>3
  <2>5. QED
    BY <1>2, <1>3, <2>4
<1>5. QED
  BY <1>3, <1>4 DEF Max
=============================================================================
