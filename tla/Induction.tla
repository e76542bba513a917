------------------------------ MODULE Induction ------------------------------
(***************************************************************************)
(* Induction over the natural numbers in a form without operator           *)
(* parameters: a set of numbers with an element has a least one.  An       *)
(* inductive proof takes the least counterexample, and a recursive         *)
(* definition is shown to have a solution.                                 *)
(***************************************************************************)
EXTENDS Integers, WellFoundedInduction, TLAPS

LEMMA NatLeast ==
    ASSUME NEW T \in SUBSET Nat, T # {}
    PROVE  \E n \in T : \A m \in T : n <= m
<1> DEFINE R == OpToRel(<, Nat)
<1>1. IsWellFoundedOn(R, Nat)
  BY NatLessThanWellFounded
<1>2. \A x, y \in Nat : x < y => <<x, y>> \in R
  BY DEF OpToRel
<1> HIDE DEF R
<1>3. PICK x \in T : \A y \in T : ~ (<<y, x>> \in R)
  BY <1>1, WFMin
<1>4. \A y \in T : ~ (y < x)
  BY <1>2, <1>3
<1> QED
  BY <1>4

\* A set with 0, and with the successor of each of its numbers below N, has all up to N.
LEMMA NatUpTo ==
    ASSUME NEW N \in Nat, NEW S, 0 \in S, \A k \in 0 .. N - 1 : k \in S => k + 1 \in S
    PROVE  \A k \in 0 .. N : k \in S
<1> SUFFICES ASSUME NEW k \in 0 .. N, k \notin S PROVE FALSE
  OBVIOUS
<1> DEFINE T == {m \in 0 .. N : m \notin S}
<1>1. T \in SUBSET Nat /\ T # {}
  OBVIOUS
<1>2. PICK n \in T : \A m \in T : n <= m
  <2> HIDE DEF T
  <2> QED
    BY <1>1, NatLeast
<1>3. n # 0 /\ n \in 0 .. N /\ n \notin S
  OBVIOUS
<1>4. n - 1 \in 0 .. N - 1 /\ n - 1 \notin T
  BY <1>2, <1>3
<1>5. n - 1 \in S
  BY <1>4
<1>6. n - 1 + 1 \in S
  BY <1>4, <1>5
<1> QED
  BY <1>3, <1>6

\* f starts with the first value, and every step leads from each value to the next.
Recurs(f, N, D, first, step) ==
    /\ f \in [0 .. N -> D] /\ f[0] = first
    /\ \A k \in 1 .. N : f[k] = step[<<k, f[k - 1]>>]

\* Whoever says how to get from one value to the next has said what all of them are.
LEMMA Recursion ==
    ASSUME NEW N \in Nat, NEW D, NEW first \in D, NEW step \in [(1 .. N) \X D -> D]
    PROVE  \E f : Recurs(f, N, D, first, step)
<1> DEFINE Upto(n, f) == f[0] = first /\ \A k \in 1 .. n : f[k] = step[<<k, f[k - 1]>>]
           S == {n \in 0 .. N : \E f \in [0 .. n -> D] : Upto(n, f)}
<1>1. 0 \in S
  <2> DEFINE g == [k \in 0 .. 0 |-> first]
  <2>1. g \in [0 .. 0 -> D] /\ Upto(0, g)
    OBVIOUS
  <2> HIDE DEF g, Upto
  <2>2. \E f \in [0 .. 0 -> D] : Upto(0, f)
    BY <2>1
  <2> QED
    BY <2>2
<1>2. ASSUME NEW n \in 0 .. N - 1, n \in S PROVE n + 1 \in S
  <2>1. PICK f \in [0 .. n -> D] : Upto(n, f)
    BY <1>2
  <2>2. n + 1 \in 1 .. N /\ f[n] \in D
    OBVIOUS
  <2>3. step[<<n + 1, f[n]>>] \in D
    BY <2>2
  <2> DEFINE g == [k \in 0 .. n + 1 |-> IF k = n + 1 THEN step[<<n + 1, f[n]>>] ELSE f[k]]
  <2>4. g \in [0 .. n + 1 -> D]
    BY <2>3
  <2>5. g[0] = first
    BY <2>1, <2>2
  <2>6. ASSUME NEW k \in 1 .. n + 1 PROVE g[k] = step[<<k, g[k - 1]>>]
    <3>1. CASE k = n + 1
      <4>1. g[k - 1] = f[n] /\ g[k] = step[<<n + 1, f[n]>>]
        BY <3>1, <2>2
      <4> QED
        BY <4>1, <3>1
    <3>2. CASE k # n + 1
      <4>1. k \in 1 .. n /\ g[k] = f[k] /\ g[k - 1] = f[k - 1]
        BY <3>2
      <4> QED
        BY <4>1, <2>1
    <3> QED
      BY <3>1, <3>2
  <2>7. Upto(n + 1, g)
    BY <2>5, <2>6
  <2> HIDE DEF g, Upto
  <2> QED
    BY <2>2, <2>4, <2>7
<1> HIDE DEF S
<1>3. \A k \in 0 .. N : k \in S
  BY <1>1, <1>2, NatUpTo
<1>4. N \in S
  BY <1>3
<1> QED
  BY <1>4 DEF S, Recurs
==============================================================================
