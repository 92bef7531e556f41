------------------------------ MODULE Induction ------------------------------
(***************************************************************************)
(* Induction over numbers for sets in place of predicates, which the       *)
(* provers can instantiate.                                                *)
(***************************************************************************)
EXTENDS Integers, FiniteSetTheorems, WellFoundedInduction, TLAPS

\* A set of numbers from 0 to n - 1 that is not empty has a least member.
LEMMA Least ==
  ASSUME NEW n \in Int, NEW S \in SUBSET (0 .. (n - 1)), S # {}
  PROVE  \E a \in S : \A b \in S : a <= b
<1> DEFINE N == 0 .. (n - 1)
           Below(a) == {b \in S : b < a}
           F == {Below(a) : a \in S}
<1>1. IsFiniteSet(N)
  BY FS_Interval
<1>2. IsWellFoundedOn(StrictSubsetOrdering(N), FiniteSubsetsOf(N))
  BY FS_StrictSubsetOrderingWellFounded
<1>3. F \subseteq FiniteSubsetsOf(N) /\ F # {}
  <2>1. ASSUME NEW a \in S
        PROVE  Below(a) \in FiniteSubsetsOf(N)
    BY <1>1, FS_Subset DEF FiniteSubsetsOf
  <2> QED
    BY <2>1
<1>4. PICK B \in F : \A C \in F : ~ (<<C, B>> \in StrictSubsetOrdering(N))
  BY <1>2, <1>3, WFMin
<1>5. PICK a \in S : B = Below(a)
  BY <1>4
<1>6. S \subseteq Int
  OBVIOUS
<1>7. ASSUME NEW b \in S, b < a
      PROVE  FALSE
  <2>1. ASSUME NEW c \in Below(b)
        PROVE  c \in Below(a)
    <3>1. a \in Int /\ b \in Int /\ c \in Int /\ c \in S /\ c < b
      BY <1>6, <2>1
    <3> HIDE DEF N, F
    <3> QED
      BY <1>7, <3>1
  <2>2. b \in Below(a) /\ b \notin Below(b)
    BY <1>6, <1>7
  <2>3. Below(b) \in SUBSET N /\ Below(a) \in SUBSET N
    OBVIOUS
  <2>4. <<Below(b), Below(a)>> \in StrictSubsetOrdering(N)
    BY <2>1, <2>2, <2>3 DEF StrictSubsetOrdering
  <2> QED
    BY <1>4, <1>5, <2>4
<1> QED
  BY <1>6, <1>7

\* A set of natural numbers that is not empty has a least member.
LEMMA LeastNat ==
  ASSUME NEW S \in SUBSET Nat, S # {}
  PROVE  \E a \in S : \A b \in S : a <= b
<1>1. PICK n \in S : TRUE
  OBVIOUS
<1> DEFINE T == {b \in S : b <= n}
<1>2. T \in SUBSET (0 .. ((n + 1) - 1)) /\ n + 1 \in Int /\ T # {}
  <2>1. ASSUME NEW b \in T
        PROVE  b \in 0 .. ((n + 1) - 1)
    BY <1>1
  <2>2. n \in T
    BY <1>1
  <2>3. n + 1 \in Int
    BY <1>1
  <2> HIDE DEF T
  <2> QED
    BY <2>1, <2>2, <2>3
<1>3. PICK a \in T : \A b \in T : a <= b
  <2> HIDE DEF T
  <2> QED
    BY <1>2, Least
<1>4. ASSUME NEW b \in S
      PROVE  a <= b
  BY <1>1, <1>3, <1>4
<1> QED
  BY <1>3, <1>4

\* A set that holds a number whenever it holds those before it holds all.
LEMMA SetInduction ==
  ASSUME NEW S, \A n \in Nat : (\A m \in 0 .. (n - 1) : m \in S) => n \in S
  PROVE  \A n \in Nat : n \in S
<1> SUFFICES ASSUME {n \in Nat : n \notin S} # {}
             PROVE  FALSE
  OBVIOUS
<1>1. PICK a \in {n \in Nat : n \notin S} : \A b \in {n \in Nat : n \notin S} : a <= b
  BY LeastNat
<1>2. \A m \in 0 .. (a - 1) : m \in S
  BY <1>1
<1> QED
  BY <1>1, <1>2
==============================================================================
