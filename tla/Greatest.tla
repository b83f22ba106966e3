------------------------------ MODULE Greatest ------------------------------
(***************************************************************************)
(* Least and greatest elements of sets of numbers, for the proofs about    *)
(* definitions that use Max.                                               *)
(***************************************************************************)
EXTENDS Integers, FiniteSetsExt, WellFoundedInduction, TLAPS

\* Every set of numbers has a least one: the numbers are well-founded.
LEMMA LeastNumber ==
    ASSUME NEW T \in SUBSET Nat, T # {}
    PROVE  \E x \in T : \A y \in T : x <= y
<1> DEFINE R == {p \in Nat \X Nat : p[1] < p[2]}
<1>1. IsWellFoundedOn(R, Nat)
  BY NatLessThanWellFounded DEF OpToRel
<1>2. PICK x \in T : \A y \in T : <<y, x>> \notin R
  <2> HIDE DEF R
  <2> QED BY <1>1, WFMin
<1>3. ASSUME NEW y \in T PROVE x <= y
  <2>1. /\ x \in Nat /\ y \in Nat
        /\ <<y, x>> \in Nat \X Nat /\ <<y, x>>[1] = y /\ <<y, x>>[2] = x
    OBVIOUS
  <2>2. ~ (y < x)
    BY <1>2, <2>1
  <2> QED BY <2>1, <2>2
<1> QED BY <1>3

\* A bounded set of numbers has a greatest one, and Max is it.
LEMMA MaxBounds ==
    ASSUME NEW n \in Nat, NEW S \in SUBSET (0 .. n), S # {}
    PROVE  \E x \in S : \A y \in S : x >= y
<1> DEFINE T == {n - x : x \in S}
<1>1. T \in SUBSET Nat
  OBVIOUS
<1>2. T # {}
  <2>1. PICK x \in S : TRUE
    OBVIOUS
  <2>2. n - x \in T
    BY <2>1
  <2> QED BY <2>2
<1>3. PICK t \in T : \A y \in T : t <= y
  <2> HIDE DEF T
  <2> QED BY <1>1, <1>2, LeastNumber
<1>4. PICK x \in S : t = n - x
  OBVIOUS
<1>5. \A y \in S : x >= y
  BY <1>3, <1>4
<1> QED BY <1>4, <1>5

LEMMA MaxExists ==
    ASSUME NEW n \in Nat, NEW S \in SUBSET (0 .. n), S # {}
    PROVE  Max(S) \in S
BY MaxBounds DEF Max

\* Zero is no later than anything.
LEMMA MaxWithZero ==
    ASSUME NEW n \in Nat, NEW S \in SUBSET (0 .. n), S # {}
    PROVE  Max(S \cup {0}) = Max(S)
<1>1. PICK x \in S : \A y \in S : x >= y
  BY MaxBounds
<1>2. \A y \in S \cup {0} : x >= y
  BY <1>1
<1>3. \A z \in S \cup {0} : (\A y \in S \cup {0} : z >= y) <=> z = x
  BY <1>1, <1>2
<1>4. \A z \in S : (\A y \in S : z >= y) <=> z = x
  BY <1>1
<1>5. Max(S) = x
  BY <1>4 DEF Max
<1>6. Max(S \cup {0}) = x
  BY <1>3 DEF Max
<1> QED BY <1>5, <1>6
=============================================================================
