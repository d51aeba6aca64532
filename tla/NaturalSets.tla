------------------------------ MODULE NaturalSets ------------------------------
(***************************************************************************)
(* The least and the largest of a set of natural numbers exist.  The code  *)
(* asks the database for a first or a last row; the modules choose it, and *)
(* the proofs about them need to know that there is one to choose.         *)
(***************************************************************************)
EXTENDS Integers, FiniteSetTheorems, WellFoundedInduction, TLAPS

\* A set of natural numbers that is not empty has a least one: among the sets of
\* the members below one of them, some has no strict subset.
LEMMA Least ==
  ASSUME NEW S, S \subseteq Nat, S # {}
  PROVE  \E x \in S : \A y \in S : x <= y
<1> DEFINE Below(x) == {y \in S : y < x}
           Belows == {Below(x) : x \in S}
<1>1. ASSUME NEW x \in S PROVE IsFiniteSet(Below(x))
  <2>1. x \in Int /\ 0 \in Int /\ IsFiniteSet(0..x)
    BY FS_Interval
  <2>2. \A y \in S : y \in Nat /\ (y < x => y \in 0..x)
    OBVIOUS
  <2>3. Below(x) \in SUBSET (0..x)
    BY <2>2
  <2> QED BY <2>1, <2>3, FS_Subset
<1>2. Belows \subseteq FiniteSubsetsOf(S) /\ Belows # {}
  BY <1>1 DEF FiniteSubsetsOf
<1>3. IsWellFoundedOn(StrictSubsetOrdering(S), FiniteSubsetsOf(S))
  BY FS_StrictSubsetOrderingWellFounded
<1> HIDE DEF Belows
<1>4. PICK B \in Belows : \A C \in Belows : <<C, B>> \notin StrictSubsetOrdering(S)
  BY <1>2, <1>3, WFMin
<1>5. PICK x \in S : B = Below(x)
  BY DEF Belows
<1>6. ASSUME NEW y \in S, y < x PROVE FALSE
  <2>1. Below(y) \in Belows /\ Below(y) \in SUBSET S /\ Below(x) \in SUBSET S
    BY DEF Belows
  <2>2. Below(y) \subseteq Below(x) /\ y \in Below(x) /\ y \notin Below(y)
    <3>1. x \in Nat /\ y \in Nat /\ ~(y < y) /\ \A z \in S : z \in Nat /\ (z < y => z < x)
      BY <1>6
    <3> QED BY <1>6, <3>1
  <2>3. <<Below(y), Below(x)>> \in StrictSubsetOrdering(S)
    BY <2>1, <2>2 DEF StrictSubsetOrdering
  <2> QED BY <1>4, <1>5, <2>1, <2>3
<1>7. \A y \in S : y \in Nat /\ x \in Nat /\ (y < x \/ x <= y)
  OBVIOUS
<1> QED BY <1>6, <1>7

\* One that is bounded has a largest.
LEMMA Largest ==
  ASSUME NEW N \in Nat, NEW S, S \subseteq 1..N, S # {}
  PROVE  \E x \in S : \A y \in S : y <= x
<1> DEFINE T == {n \in 0..N : N - n \in S}
<1>1. T \subseteq Nat
  OBVIOUS
<1>2. T # {}
  <2>1. PICK s \in S : TRUE
    OBVIOUS
  <2>2. s \in 1..N /\ s \in Nat /\ N - s \in 0..N /\ N - (N - s) = s
    OBVIOUS
  <2>3. N - s \in T
    BY <2>1, <2>2
  <2> QED BY <2>3
<1>3. PICK t \in T : \A u \in T : t <= u
  BY <1>1, <1>2, Least
<1> HIDE DEF T
<1>4. ASSUME NEW y \in S PROVE y <= N - t
  <2>1. y \in Nat /\ N - y \in 0..N /\ N - (N - y) = y
    OBVIOUS
  <2>2. N - y \in T
    BY <2>1 DEF T
  <2>3. t <= N - y /\ t \in 0..N
    BY <1>3, <2>2 DEF T
  <2> QED BY <2>1, <2>3
<1> QED BY <1>3, <1>4 DEF T
================================================================================
