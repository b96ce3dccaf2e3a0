---------------------------- MODULE NumberLemmas ----------------------------
(***************************************************************************)
(* Facts about sets of natural numbers that the proofs of several modules  *)
(* use.  The least element of a set stands in for induction: the least     *)
(* number that refutes a claim is refuted itself.                          *)
(***************************************************************************)
EXTENDS Integers, FiniteSetsExt, FiniteSetTheorems, WellFoundedInduction, TLAPS

\* A set of natural numbers has a least element.
LEMMA LeastNatural ==
    ASSUME NEW S \in SUBSET Nat, S # {}
    PROVE  \E m \in S : \A n \in S : m <= n
<1>1. PICK m \in S : \A n \in S : <<n, m>> \notin OpToRel(<, Nat)
  BY NatLessThanWellFounded, WFMin
<1>2. ASSUME NEW n \in S PROVE m <= n
  <2>1. n \in Nat /\ m \in Nat
    OBVIOUS
  <2>2. ~(n < m)
    BY <1>1, <2>1 DEF OpToRel
  <2> QED
    BY <2>1, <2>2
<1> QED
  BY <1>2

\* Min of a set of natural numbers is its least element.
LEMMA MinIsLeast ==
    ASSUME NEW S \in SUBSET Nat, S # {}
    PROVE  Min(S) \in S /\ \A n \in S : Min(S) <= n
BY LeastNatural DEF Min

\* Max of a bounded set of natural numbers is its greatest element.
LEMMA MaxIsGreatest ==
    ASSUME NEW N \in Nat, NEW S \in SUBSET (0 .. N), S # {}
    PROVE  Max(S) \in S /\ \A n \in S : n <= Max(S)
<1> DEFINE T == {i \in 0 .. N : N - i \in S}
<1>1. PICK s \in S : TRUE
  OBVIOUS
<1>2. s \in 0 .. N /\ N - s \in 0 .. N /\ N - (N - s) = s
  OBVIOUS
<1>3. T \in SUBSET Nat /\ T # {}
  BY <1>2
<1>4. PICK t \in T : \A u \in T : t <= u
  BY <1>3, LeastNatural
<1>5. N - t \in S
  OBVIOUS
<1>6. ASSUME NEW n \in S PROVE N - t >= n
  <2>1. n \in 0 .. N /\ N - n \in 0 .. N /\ N - (N - n) = n
    OBVIOUS
  <2>2. t <= N - n /\ t \in 0 .. N
    BY <1>4, <2>1
  <2> QED
    BY <2>1, <2>2
<1> HIDE DEF T
<1> QED
  BY <1>5, <1>6 DEF Max

\* A claim that holds of 0 and of every successor holds of a whole interval.
LEMMA IntervalInduction ==
    ASSUME NEW n \in Nat, NEW T, 0 \in T,
           \A i \in 1 .. n : i - 1 \in T => i \in T
    PROVE  \A i \in 0 .. n : i \in T
<1> DEFINE Bad == {i \in 0 .. n : i \notin T}
<1>1. SUFFICES ASSUME Bad # {} PROVE FALSE
  OBVIOUS
<1>2. PICK m \in Bad : \A i \in Bad : m <= i
  <2>1. Bad \in SUBSET Nat
    OBVIOUS
  <2> HIDE DEF Bad
  <2> QED
    BY <1>1, <2>1, LeastNatural
<1>3. m \in 1 .. n /\ m - 1 \in 0 .. n /\ ~(m <= m - 1)
  OBVIOUS
<1>4. m - 1 \in T
  BY <1>2, <1>3
<1> QED
  BY <1>3, <1>4

\* f are the states that a loop of n iterations passes through from s0, when
\* F[i] is what iteration i does to the state.
IsRun(f, n, S, s0, F) ==
    /\ f \in [0 .. n -> S]
    /\ f[0] = s0
    /\ \A i \in 1 .. n : f[i] = F[i][f[i - 1]]

\* A loop has a run.
LEMMA LoopHasRun ==
    ASSUME NEW n \in Nat, NEW S, NEW s0 \in S, NEW F \in [1 .. n -> [S -> S]]
    PROVE  \E f : IsRun(f, n, S, s0, F)
<1> DEFINE Run(k, f) == f[0] = s0 /\ \A i \in 1 .. k : f[i] = F[i][f[i - 1]]
           T == {k \in 0 .. n : \E f \in [0 .. k -> S] : Run(k, f)}
<1>1. 0 \in T
  <2> DEFINE g == [i \in 0 .. 0 |-> s0]
  <2>1. g \in [0 .. 0 -> S] /\ Run(0, g) /\ 0 \in 0 .. n
    OBVIOUS
  <2> HIDE DEF g, Run
  <2> QED
    BY <2>1
<1>2. ASSUME NEW k \in 1 .. n, k - 1 \in T PROVE k \in T
  <2>1. PICK f \in [0 .. k - 1 -> S] : Run(k - 1, f)
    BY <1>2
  <2> DEFINE g == [i \in 0 .. k |-> IF i = k THEN F[k][f[k - 1]] ELSE f[i]]
  <2>2. f[k - 1] \in S /\ F[k][f[k - 1]] \in S
    OBVIOUS
  <2>3. g \in [0 .. k -> S]
    BY <2>2
  <2>4. g[0] = s0
    BY <2>1
  <2>5. ASSUME NEW i \in 1 .. k PROVE g[i] = F[i][g[i - 1]]
    <3>1. i - 1 \in 0 .. k - 1 /\ g[i - 1] = f[i - 1]
      OBVIOUS
    <3>2. CASE i = k
      BY <3>1, <3>2
    <3>3. CASE i # k
      BY <2>1, <3>1, <3>3
    <3> QED
      BY <3>2, <3>3
  <2>6. Run(k, g)
    BY <2>4, <2>5
  <2> HIDE DEF g, Run
  <2> QED
    BY <2>3, <2>6
<1>3. n \in T
  <2> HIDE DEF T
  <2>1. \A i \in 1 .. n : i - 1 \in T => i \in T
    BY <1>2
  <2>2. \A i \in 0 .. n : i \in T
    BY <1>1, <2>1, IntervalInduction
  <2> QED
    BY <2>2
<1> QED
  BY <1>3 DEF IsRun
=============================================================================
