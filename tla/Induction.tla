----------------------------- MODULE Induction ------------------------------
(***************************************************************************)
(* Induction over the natural numbers, stated with sets in place of        *)
(* predicates, and the function a recurrence over 0 .. n defines.          *)
(***************************************************************************)
EXTENDS Naturals, FiniteSets, FiniteSetTheorems, WellFoundedInduction, TLAPS

(* Every set of natural numbers that is not empty has a least member: the  *)
(* intervals 0 .. k are ordered by strict inclusion, which is well-founded *)
(* on finite sets.                                                         *)
LEMMA LeastNumber ==
    ASSUME NEW B \in SUBSET Nat, B # {}
    PROVE  \E k \in B : \A j \in B : k <= j
<1> DEFINE R == StrictSubsetOrdering(Nat)
           T == {0 .. k : k \in B}
<1>1. IsWellFoundedOn(R, FiniteSubsetsOf(Nat))
  BY FS_StrictSubsetOrderingWellFounded
<1>2. T \subseteq FiniteSubsetsOf(Nat)
  <2> SUFFICES ASSUME NEW k \in B PROVE 0 .. k \in FiniteSubsetsOf(Nat)
    OBVIOUS
  <2>1. IsFiniteSet(0 .. k)
    BY FS_Interval
  <2> QED BY <2>1 DEF FiniteSubsetsOf
<1>3. T # {}
  OBVIOUS
<1> HIDE DEF T, R
<1>4. PICK x \in T : \A y \in T : ~(<<y, x>> \in R)
  BY <1>1, <1>2, <1>3, WFMin
<1>5. PICK k \in B : x = 0 .. k
  BY DEF T
<1>6. ASSUME NEW j \in B, j < k PROVE FALSE
  <2>1. 0 .. j \in T
    BY DEF T
  <2>2. 0 .. j \subseteq 0 .. k /\ 0 .. j # 0 .. k
    BY <1>6
  <2>3. <<0 .. j, 0 .. k>> \in R
    BY <2>2 DEF R, StrictSubsetOrdering
  <2> QED BY <1>4, <1>5, <2>1, <2>3
<1> QED BY <1>6

(* Induction: a set that has 0 and, with each n, n + 1, has them all. *)
LEMMA Induct ==
    ASSUME NEW S, 0 \in S, \A n \in Nat : n \in S => n + 1 \in S
    PROVE  \A n \in Nat : n \in S
<1> SUFFICES ASSUME NEW n \in Nat, n \notin S PROVE FALSE
  OBVIOUS
<1> DEFINE B == {k \in Nat : k \notin S}
<1>1. PICK k \in B : \A j \in B : k <= j
  <2>1. B \in SUBSET Nat /\ B # {}
    OBVIOUS
  <2> HIDE DEF B
  <2> QED BY <2>1, LeastNumber
<1>2. k \in Nat /\ k # 0 /\ k \notin S
  OBVIOUS
<1>3. k - 1 \in Nat /\ k - 1 \in S
  BY <1>1, <1>2
<1> QED BY <1>2, <1>3

(* A recurrence over 0 .. N, and the functions that solve it. *)
Steps(S, N) == [S \X (1 .. N) -> S]
Solves(f, S, a, N, step) ==
    f \in [0 .. N -> S] /\ f[0] = a /\ \A k \in 1 .. N : f[k] = step[<<f[k - 1], k>>]

\* It has a solution, by induction on how far the solution goes.
LEMMA Recurrence ==
    ASSUME NEW S, NEW a \in S, NEW N \in Nat, NEW step \in Steps(S, N)
    PROVE  \E f : Solves(f, S, a, N, step)
<1> DEFINE Upto(f, n) ==
             f \in [0 .. n -> S] /\ f[0] = a /\ \A k \in 1 .. n : f[k] = step[<<f[k - 1], k>>]
           Good == {n \in Nat : n <= N => \E f : Upto(f, n)}
<1> USE DEF Steps
<1>1. 0 \in Good
  <2> DEFINE f == [k \in 0 .. 0 |-> a]
  <2>1. Upto(f, 0)
    OBVIOUS
  <2> QED BY <2>1
<1>2. ASSUME NEW n \in Nat, n \in Good PROVE n + 1 \in Good
  <2> SUFFICES ASSUME n + 1 <= N PROVE \E f : Upto(f, n + 1)
    OBVIOUS
  <2>1. PICK f : Upto(f, n)
    BY <1>2
  <2> DEFINE g == [k \in 0 .. n + 1 |-> IF k = n + 1 THEN step[<<f[n], n + 1>>] ELSE f[k]]
  <2>2. step[<<f[n], n + 1>>] \in S
    BY <2>1
  <2>3. g \in [0 .. n + 1 -> S] /\ g[0] = a
    BY <2>1, <2>2
  <2>4. ASSUME NEW k \in 1 .. n + 1 PROVE g[k] = step[<<g[k - 1], k>>]
    <3>1. k - 1 \in 0 .. n + 1 /\ k - 1 # n + 1
      OBVIOUS
    <3>2. g[k - 1] = f[k - 1]
      BY <3>1
    <3>3. CASE k = n + 1
      <4>1. g[k] = step[<<f[n], n + 1>>] /\ k - 1 = n
        BY <3>3
      <4> QED BY <3>2, <3>3, <4>1
    <3>4. CASE k # n + 1
      <4>1. g[k] = f[k] /\ k \in 1 .. n
        BY <3>4
      <4> QED BY <2>1, <3>2, <4>1
    <3> QED BY <3>3, <3>4
  <2> QED BY <2>3, <2>4
<1> HIDE DEF Good
<1>3. N \in Good
  BY <1>1, <1>2, Induct
<1> QED BY <1>3 DEF Good, Solves
=============================================================================
