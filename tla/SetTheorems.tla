------------------------------ MODULE SetTheorems ------------------------------
(* Facts about sets of numbers and small sets, for the proofs that cite them.  *)
EXTENDS Naturals, FiniteSetsExt, FiniteSetTheorems, WellFoundedInduction, TLAPS

(* The least of a set of numbers is one of them. *)
LEMMA MinOfNaturals ==
    ASSUME NEW S, S \subseteq Nat, S # {}
    PROVE  Min(S) \in S /\ \A n \in S : Min(S) <= n
<1> DEFINE below(n) == {k \in Nat : k < n}
           T == {below(n) : n \in S}
<1>1. \A n \in Nat : below(n) \in FiniteSubsetsOf(Nat)
  <2> TAKE n \in Nat
  <2>1. \A k \in below(n) : k <= n
    OBVIOUS
  <2>2. below(n) \in SUBSET Nat
    OBVIOUS
  <2>3. IsFiniteSet(below(n))
    BY <2>1, <2>2, FS_BoundedSetOfNaturals
  <2> QED
    BY <2>2, <2>3 DEF FiniteSubsetsOf
<1>2. PICK x \in T : \A y \in T : ~(<<y, x>> \in StrictSubsetOrdering(Nat))
  <2>1. T \subseteq FiniteSubsetsOf(Nat) /\ T # {}
    BY <1>1
  <2>2. IsWellFoundedOn(StrictSubsetOrdering(Nat), FiniteSubsetsOf(Nat))
    BY FS_StrictSubsetOrderingWellFounded
  <2> QED
    BY <2>1, <2>2, WFMin
<1>3. PICK m \in S : x = below(m)
  OBVIOUS
<1>4. \A n \in S : m <= n
  <2> SUFFICES ASSUME NEW n \in S, ~(m <= n) PROVE FALSE
    OBVIOUS
  <2>1. m \in Nat /\ n \in Nat /\ n < m
    OBVIOUS
  <2>2. below(n) \subseteq below(m) /\ n \in below(m) /\ n \notin below(n)
    BY <2>1
  <2>3. <<below(n), below(m)>> \in StrictSubsetOrdering(Nat)
    BY <2>2 DEF StrictSubsetOrdering
  <2> QED
    BY <2>3, <1>2, <1>3
<1> QED
  BY <1>4 DEF Min
(* The greatest of a bounded set of numbers.                                   *)
LEMMA MaxOfNaturals ==
    ASSUME NEW n \in Nat, NEW S, S \subseteq 0..n, S # {}
    PROVE  \E m \in S : \A k \in S : k <= m
<1> DEFINE T == {k \in Nat : \E m \in S : k = n - m}
<1>1. T \subseteq Nat /\ T # {}
  <2>1. PICK m \in S : m \in 0..n
    OBVIOUS
  <2>2. n - m \in T
    BY <2>1
  <2> QED
    BY <2>2
<1> HIDE DEF T
<1>2. Min(T) \in T /\ \A k \in T : Min(T) <= k
  BY <1>1, MinOfNaturals
<1>3. PICK m \in S : Min(T) = n - m
  BY <1>2 DEF T
<1>4. \A k \in S : n - k \in T
  BY DEF T
<1> QED
  BY <1>2, <1>3, <1>4

(* A set whose elements are all the same has at most one.                      *)
LEMMA AtMostOne ==
    ASSUME NEW S, \A c, d \in S : c = d
    PROVE  Cardinality(S) <= 1
<1>1. CASE S = {}
  <2>1. Cardinality({}) = 0
    BY FS_EmptySet
  <2> QED
    BY <1>1, <2>1
<1>2. CASE S # {}
  <2>1. PICK c \in S : S = {c}
    BY <1>2
  <2>2. Cardinality({c}) = 1
    BY FS_Singleton
  <2> QED
    BY <2>1, <2>2
<1> QED
  BY <1>1, <1>2
===============================================================================
