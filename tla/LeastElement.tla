------------------------------ MODULE LeastElement ------------------------------
(***************************************************************************)
(* Every set of natural numbers that is not empty has a least element: the *)
(* fact behind the first thread of a stop and the lowest address of a line.*)
(***************************************************************************)
EXTENDS Integers, FiniteSetTheorems, WellFoundedInduction, TLAPS

\* A set of numbers has a least one: of the intervals up to its members, one holds
\* no other (Least() of the lines of a file, First() of the threads of a stop).
LEMMA LeastExists ==
    ASSUME NEW T, T \subseteq Nat, T # {}
    PROVE  \E n \in T : \A m \in T : n <= m
<1> DEFINE Order == StrictSubsetOrdering(Int)
           Finite == FiniteSubsetsOf(Int)
           Intervals == {1 .. n : n \in T}
<1>1. IsWellFoundedOn(Order, Finite)
  BY FS_StrictSubsetOrderingWellFounded
<1>2. Intervals \subseteq Finite
  <2>1. ASSUME NEW n \in T PROVE 1 .. n \in Finite
    <3>1. n \in Int
      OBVIOUS
    <3>2. IsFiniteSet(1 .. n)
      BY <3>1, FS_Interval
    <3> QED BY <3>1, <3>2 DEF FiniteSubsetsOf
  <2> QED BY <2>1
<1>3. Intervals # {}
  OBVIOUS
<1>4. \E x \in Intervals : \A y \in Intervals : ~(<<y, x>> \in Order)
  <2> HIDE DEF Intervals, Order, Finite
  <2> QED BY <1>1, <1>2, <1>3, WFMin
<1>5. PICK n \in T : \A m \in T : ~(<<1 .. m, 1 .. n>> \in Order)
  BY <1>4
<1>6. ASSUME NEW m \in T, m < n PROVE FALSE
  <2>1. m \in Nat /\ n \in Nat
    OBVIOUS
  <2>2. 1 .. m \subseteq 1 .. n /\ n \in 1 .. n /\ n \notin 1 .. m
    BY <2>1, <1>6
  <2>3. <<1 .. m, 1 .. n>> \in Order
    BY <2>1, <2>2 DEF StrictSubsetOrdering
  <2> QED BY <1>5, <2>3
<1> QED BY <1>6

\* A set of numbers up to a bound has a greatest one (Greatest() of the functions
\* around an address).
LEMMA GreatestExists ==
    ASSUME NEW N \in Nat, NEW T, T \subseteq 1 .. N, T # {}
    PROVE  \E n \in T : \A m \in T : m <= n
<1> DEFINE Gaps == {N - m : m \in T}
<1>1. Gaps \subseteq Nat /\ Gaps # {}
  <2>1. ASSUME NEW m \in T PROVE N - m \in Nat
    BY m \in 1 .. N
  <2>2. PICK m : m \in T
    OBVIOUS
  <2>3. N - m \in Gaps
    BY <2>2
  <2> QED BY <2>1, <2>3
<1>2. PICK g \in Gaps : \A h \in Gaps : g <= h
  <2> HIDE DEF Gaps
  <2> QED BY <1>1, LeastExists
<1>3. PICK n \in T : g = N - n
  BY <1>2
<1>4. ASSUME NEW m \in T PROVE m <= n
  <2>1. N - m \in Gaps
    OBVIOUS
  <2>2. N - n <= N - m
    BY <2>1, <1>2, <1>3
  <2> QED BY <2>2
<1> QED BY <1>4

\* Induction over the numbers, for a set: what holds of a number when it holds of
\* every smaller one holds of all (what is below a DIE, one parent at a time).
LEMMA SetInduction ==
    ASSUME NEW S, \A n \in Nat : (\A m \in Nat : m < n => m \in S) => n \in S
    PROVE  Nat \subseteq S
<1> DEFINE Rest == Nat \ S
<1>1. SUFFICES ASSUME Rest # {} PROVE FALSE
  OBVIOUS
<1>2. Rest \subseteq Nat
  OBVIOUS
<1>3. PICK n \in Rest : \A m \in Rest : n <= m
  <2> HIDE DEF Rest
  <2> QED BY <1>1, <1>2, LeastExists
<1>4. ASSUME NEW m \in Nat, m < n PROVE m \in S
  BY <1>3, <1>4
<1> QED BY <1>3, <1>4

\* A recursion over the numbers K up to N: its values are in V, those of R are
\* given, and the others follow from the value of a smaller number.
Recursion(N, K, V, R, p, base, step) ==
    /\ N \in Nat /\ K \subseteq 0 .. N
    /\ p \in [K -> Int]
    /\ \A k \in K \ R : p[k] \in K /\ p[k] < k
    /\ base \in [K -> V] /\ step \in [K \X V -> V]

\* Such a function exists (what is around a DIE from what is around its parent,
\* what is found in a unit from what was found before it).
LEMMA RecursionExists ==
    ASSUME NEW N, NEW K, NEW V, NEW R, NEW p, NEW base, NEW step,
           Recursion(N, K, V, R, p, base, step)
    PROVE  \E f \in [K -> V] : \A k \in K : f[k] = IF k \in R THEN base[k] ELSE step[<<k, f[p[k]]>>]
<1> DEFINE Upto(n) == {k \in K : k < n}
           Solves(f, n) == /\ f \in [Upto(n) -> V]
                           /\ \A k \in Upto(n) : f[k] = IF k \in R THEN base[k]
                                                        ELSE step[<<k, f[p[k]]>>]
           S == {n \in Nat : \E f : Solves(f, n)}
<1> USE DEF Recursion
<1>0. \A k \in K : k \in Nat /\ k < N + 1
  <2>1. \A k \in 0 .. N : k \in Nat /\ k < N + 1
    OBVIOUS
  <2> QED BY <2>1
<1>1. ASSUME NEW n \in Nat, \A m \in Nat : m < n => m \in S PROVE n \in S
  <2>1. CASE n = 0
    <3>1. Upto(0) = {}
      <4>1. ASSUME NEW k \in K, k < 0 PROVE FALSE
        BY <4>1, <1>0
      <4> QED BY <4>1
    <3>2. Solves([k \in Upto(0) |-> base[k]], 0)
      BY <3>1
    <3> QED BY <3>2, <2>1
  <2>2. CASE n # 0
    <3>1. n - 1 \in Nat /\ n - 1 < n
      BY <2>2
    <3>2. PICK f : Solves(f, n - 1)
      BY <3>1, <1>1
    <3> DEFINE new(k) == IF k \in R THEN base[k] ELSE step[<<k, f[p[k]]>>]
               g == [k \in Upto(n) |-> IF k = n - 1 THEN new(k) ELSE f[k]]
    <3>3. ASSUME NEW k \in Upto(n) PROVE k # n - 1 => k \in Upto(n - 1)
      BY <3>1
    <3>4. ASSUME NEW k \in Upto(n), k \notin R PROVE p[k] \in Upto(n - 1)
      BY <3>1, <3>4
    <3>5. ASSUME NEW k \in Upto(n), k \notin R PROVE g[p[k]] = f[p[k]]
      <4>1. p[k] \in Upto(n) /\ p[k] # n - 1
        BY <3>4, <3>5, <3>1
      <4> QED BY <4>1
    <3>6. ASSUME NEW k \in Upto(n) PROVE new(k) \in V
      <4>1. CASE k \in R
        BY <4>1
      <4>2. CASE k \notin R
        <5>1. f[p[k]] \in V
          BY <3>2, <3>4, <4>2
        <5> QED BY <5>1, <4>2
      <4> QED BY <4>1, <4>2
    <3>7. g \in [Upto(n) -> V]
      <4>1. ASSUME NEW k \in Upto(n), k # n - 1 PROVE f[k] \in V
        BY <3>2, <3>3, <4>1
      <4> HIDE DEF new
      <4> QED BY <4>1, <3>6
    <3>8. ASSUME NEW k \in Upto(n)
          PROVE  g[k] = IF k \in R THEN base[k] ELSE step[<<k, g[p[k]]>>]
      <4>1. g[k] = new(k)
        <5>1. CASE k = n - 1
          <6> HIDE DEF new
          <6> QED BY <5>1
        <5>2. CASE k # n - 1
          <6>1. k \in Upto(n - 1)
            BY <3>3, <5>2
          <6>2. f[k] = new(k)
            BY <6>1, <3>2
          <6> HIDE DEF new
          <6> QED BY <6>2, <5>2
        <5> QED BY <5>1, <5>2
      <4>2. k \notin R => new(k) = step[<<k, g[p[k]]>>]
        <5> HIDE DEF g, Upto
        <5> QED BY <3>5
      <4> HIDE DEF g
      <4> QED BY <4>1, <4>2
    <3>9. Solves(g, n)
      <4> HIDE DEF g, Upto
      <4> QED BY <3>7, <3>8
    <3> QED BY <3>9
  <2> QED BY <2>1, <2>2
<1>2. Nat \subseteq S
  <2> HIDE DEF S
  <2> QED BY <1>1, SetInduction
<1>3. PICK f : Solves(f, N + 1)
  <2>1. N + 1 \in S
    <3> HIDE DEF S
    <3> QED BY <1>2
  <2> HIDE DEF Solves
  <2> QED BY <2>1
<1>4. Upto(N + 1) = K
  BY <1>0
<1> QED BY <1>3, <1>4

\* A set that goes on from each number up to N to the next has them all.
GoesOn(N, S) == N \in Nat /\ 0 \in S /\ \A k \in 1 .. N : k - 1 \in S => k \in S

\* What holds before a loop and is kept by each of its turns holds after each of
\* them (parse_arguments(), variables_in_scope()).
LEMMA UpToAll ==
    ASSUME NEW N, NEW S, GoesOn(N, S)
    PROVE  0 .. N \subseteq S
<1> DEFINE T == {n \in Nat : n <= N => n \in S}
<1>1. ASSUME NEW n \in Nat, \A m \in Nat : m < n => m \in T PROVE n \in T
  <2>1. CASE n = 0
    BY <2>1 DEF GoesOn
  <2>2. CASE n # 0 /\ n <= N
    <3>1. n - 1 \in Nat /\ n - 1 < n /\ n - 1 <= N /\ n \in 1 .. N
      BY <2>2 DEF GoesOn
    <3>2. n - 1 \in S
      BY <3>1, <1>1
    <3> QED BY <3>1, <3>2 DEF GoesOn
  <2> QED BY <2>1, <2>2
<1>2. Nat \subseteq T
  <2> HIDE DEF T
  <2> QED BY <1>1, SetInduction
<1>3. \A n \in 0 .. N : n \in Nat /\ n <= N
  BY DEF GoesOn
<1> QED BY <1>2, <1>3

\* The turns of a loop, from start, with values in V.
Turns(N, V, start, step) == N \in Nat /\ start \in V /\ step \in [(1 .. N) \X V -> V]

\* The values after each turn of a loop exist.
LEMMA TurnsExist ==
    ASSUME NEW N, NEW V, NEW start, NEW step, Turns(N, V, start, step)
    PROVE  \E f \in [0 .. N -> V] : f[0] = start /\ \A k \in 1 .. N : f[k] = step[<<k, f[k - 1]>>]
<1> DEFINE K == 0 .. N
           R == {0}
           p == [k \in K |-> k - 1]
           base == [k \in K |-> start]
           all == [x \in K \X V |-> IF x[1] = 0 THEN start ELSE step[<<x[1], x[2]>>]]
<1> USE DEF Turns
<1>1. p \in [K -> Int] /\ (\A k \in K \ R : p[k] \in K /\ p[k] < k)
  OBVIOUS
<1>2. base \in [K -> V]
  OBVIOUS
<1>3. all \in [K \X V -> V]
  <2>1. ASSUME NEW x \in K \X V, x[1] # 0 PROVE step[<<x[1], x[2]>>] \in V
    <3>1. x[1] \in 1 .. N /\ x[2] \in V
      BY <2>1
    <3> QED BY <3>1
  <2> HIDE DEF K
  <2> QED BY <2>1
<1>4. PICK f \in [K -> V] : \A k \in K : f[k] = IF k \in R THEN base[k] ELSE all[<<k, f[p[k]]>>]
  <2>1. N \in Nat /\ K \subseteq 0 .. N
    OBVIOUS
  <2> HIDE DEF K, R, p, base, all
  <2>2. Recursion(N, K, V, R, p, base, all)
    BY <1>1, <1>2, <1>3, <2>1 DEF Recursion
  <2> QED BY <2>2, RecursionExists
<1>5. f[0] = start
  <2>1. 0 \in K /\ 0 \in R
    OBVIOUS
  <2>2. base[0] = start
    BY <2>1
  <2> HIDE DEF K, R, base
  <2> QED BY <1>4, <2>1, <2>2
<1>6. ASSUME NEW k \in 1 .. N PROVE f[k] = step[<<k, f[k - 1]>>]
  <2>1. k \in K /\ k \notin R /\ p[k] = k - 1 /\ k - 1 \in K
    OBVIOUS
  <2>2. <<k, f[k - 1]>> \in K \X V
    <3> HIDE DEF K
    <3> QED BY <2>1, <1>4
  <2>3. all[<<k, f[k - 1]>>] = step[<<k, f[k - 1]>>]
    <3>1. k # 0
      OBVIOUS
    <3> HIDE DEF K
    <3> QED BY <2>2, <3>1
  <2>4. f[k] = all[<<k, f[k - 1]>>]
    <3> HIDE DEF K, R, p, base, all
    <3> QED BY <2>1, <1>4
  <2> QED BY <2>3, <2>4
<1> QED BY <1>4, <1>5, <1>6
================================================================================
