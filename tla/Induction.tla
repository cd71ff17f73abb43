------------------------------ MODULE Induction ------------------------------
(***************************************************************************)
(* Induction on numbers, and what it says of functions defined recursively *)
(* on 0..N.  The facts speak of sets, not of predicates: a set that holds  *)
(* 0, and i whenever it holds i - 1, holds every number.  They follow from *)
(* WFMin, that a nonempty set of a well-founded order has a least element. *)
(***************************************************************************)
EXTENDS Integers, WellFoundedInduction, NaturalsInduction, TLAPS

\* u starts with a and goes on with the steps of G.
Recursive(u, N, a, G) == u[0] = a /\ \A i \in 1..N : u[i] = G[i][u[i - 1]]

-----------------------------------------------------------------------------

\* A nonempty set of numbers has a least one.
LEMMA LeastNatural ==
    ASSUME NEW T, T \subseteq Nat, T # {}
    PROVE  \E m \in T : \A k \in T : m <= k
<1> DEFINE less == OpToRel(<, Nat)
<1>1. IsWellFoundedOn(less, Nat)
  BY NatLessThanWellFounded
<1>2. \A j, k \in Nat : j < k => <<j, k>> \in less
  BY DEF OpToRel
<1> HIDE DEF less
<1>3. \E m \in T : \A k \in T : ~(<<k, m>> \in less)
  BY <1>1, WFMin
<1>4. PICK m \in T : \A k \in T : ~(<<k, m>> \in less)
  BY <1>3
<1>5. ASSUME NEW k \in T
      PROVE  m <= k
  <2>1. k \in Nat /\ m \in Nat
    OBVIOUS
  <2>2. ~(k < m)
    BY <1>2, <1>4, <2>1
  <2>3. QED
    BY <2>1, <2>2
<1>6. QED
  BY <1>5

\* A set that holds 0 and is closed under successor holds every number.
LEMMA Successors ==
    ASSUME NEW S, 0 \in S, \A n \in Nat : n \in S => n + 1 \in S
    PROVE  Nat \subseteq S
<1>1. SUFFICES ASSUME Nat \ S # {} PROVE FALSE
  OBVIOUS
<1>2. PICK m \in Nat \ S : \A k \in Nat \ S : m <= k
  BY <1>1, LeastNatural
<1>3. m # 0
  BY <1>2
<1>4. m - 1 \in Nat /\ ~(m <= m - 1)
  BY <1>3
<1>5. m - 1 \in S
  BY <1>2, <1>4
<1>6. (m - 1) + 1 \in S
  BY <1>4, <1>5
<1>7. QED
  BY <1>2, <1>6

\* The same up to N.
LEMMA UpTo ==
    ASSUME NEW N \in Nat, NEW S, 0 \in S, \A i \in 1..N : i - 1 \in S => i \in S
    PROVE  0..N \subseteq S
<1> DEFINE T == {n \in Nat : n <= N => n \in S}
<1>1. 0 \in T
  OBVIOUS
<1>2. ASSUME NEW n \in Nat, n \in T
      PROVE  n + 1 \in T
  <2>1. SUFFICES ASSUME n + 1 <= N PROVE n + 1 \in S
    OBVIOUS
  <2>2. n \in S /\ n + 1 \in 1..N /\ (n + 1) - 1 = n
    BY <1>2, <2>1
  <2>3. QED
    BY <2>2
<1> HIDE DEF T
<1>3. Nat \subseteq T
  BY <1>1, <1>2, Successors
<1>4. QED
  BY <1>3 DEF T

\* There is a function that goes on with the steps of G, whatever they are.
LEMMA Recursion ==
    ASSUME NEW N \in Nat, NEW D, NEW a \in D, NEW G \in [1..N -> [D -> D]]
    PROVE  \E u \in [0..N -> D] : Recursive(u, N, a, G)
<1> DEFINE S == {n \in 0..N : \E u \in [0..n -> D] : Recursive(u, n, a, G)}
<1>1. 0 \in S
  <2> DEFINE u == [i \in 0..0 |-> a]
  <2>1. u \in [0..0 -> D] /\ Recursive(u, 0, a, G) /\ 0 \in 0..N
    BY DEF Recursive
  <2> HIDE DEF u
  <2>2. QED
    BY <2>1
<1>2. ASSUME NEW n \in 1..N, n - 1 \in S
      PROVE  n \in S
  <2>1. PICK u \in [0..(n - 1) -> D] : Recursive(u, n - 1, a, G)
    BY <1>2
  <2>2. G[n][u[n - 1]] \in D
    <3>1. n - 1 \in 0..(n - 1)
      OBVIOUS
    <3>2. u[n - 1] \in D
      BY <3>1
    <3>3. QED
      BY <3>2
  <2> DEFINE w == [i \in 0..n |-> IF i = n THEN G[n][u[n - 1]] ELSE u[i]]
  <2>3. w \in [0..n -> D]
    <3>1. \A i \in 0..n : i = n \/ i \in 0..(n - 1)
      OBVIOUS
    <3>2. QED
      BY <2>2, <3>1
  <2>4. w[0] = a
    <3>1. 0 \in 0..n /\ 0 # n
      OBVIOUS
    <3>2. QED
      BY <2>1, <3>1 DEF Recursive
  <2>5. ASSUME NEW i \in 1..n
        PROVE  w[i] = G[i][w[i - 1]]
    <3>1. i \in 0..n /\ i - 1 \in 0..n /\ i - 1 # n
      OBVIOUS
    <3>2. w[i - 1] = u[i - 1]
      BY <3>1
    <3>3. CASE i = n
      BY <3>1, <3>2, <3>3
    <3>4. CASE i # n
      <4>1. i \in 1..(n - 1)
        BY <3>4
      <4>2. w[i] = u[i]
        BY <3>1, <3>4
      <4>3. QED
        BY <2>1, <3>2, <4>1, <4>2 DEF Recursive
    <3>5. QED
      BY <3>3, <3>4
  <2> HIDE DEF w
  <2>6. QED
    BY <2>3, <2>4, <2>5 DEF Recursive
<1> HIDE DEF S
<1>3. 0..N \subseteq S
  BY <1>1, <1>2, UpTo
<1>4. N \in S
  BY <1>3
<1>5. QED
  BY <1>4 DEF S

\* A function that goes on with steps that stay in D stays in D.
LEMMA RecursionStays ==
    ASSUME NEW N \in Nat, NEW D, NEW u, u[0] \in D,
           \A i \in 1..N : u[i - 1] \in D => u[i] \in D
    PROVE  \A i \in 0..N : u[i] \in D
<1> DEFINE S == {i \in 0..N : u[i] \in D}
<1>1. 0 \in S
  OBVIOUS
<1>2. \A i \in 1..N : i - 1 \in S => i \in S
  <2>1. \A i \in 1..N : i \in 0..N
    OBVIOUS
  <2>2. QED
    BY <2>1
<1> HIDE DEF S
<1>3. 0..N \subseteq S
  BY <1>1, <1>2, UpTo
<1>4. QED
  BY <1>3 DEF S
=============================================================================
