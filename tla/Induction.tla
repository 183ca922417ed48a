------------------------------ MODULE Induction ------------------------------
(***************************************************************************)
(* Induction over natural numbers, without an operator as a parameter: a   *)
(* formula that is false for some number is false for a least one.  The    *)
(* counterexamples are a set, which every prover can be given.             *)
(***************************************************************************)
EXTENDS Integers, WellFoundedInduction, TLAPS

\* Any set of natural numbers that is not empty has a least element.
LEMMA LeastNumber ==
    ASSUME NEW T \in SUBSET Nat, T # {}
    PROVE  \E x \in T : \A y \in T : x <= y
<1> DEFINE R == {ss \in Nat \X Nat : ss[1] < ss[2]}
<1>1. IsWellFoundedOn(R, Nat)
  BY NatLessThanWellFounded DEF OpToRel
<1>2. PICK x \in T : \A y \in T : ~(<<y, x>> \in R)
  BY <1>1, WFMin
<1>3. ASSUME NEW y \in T
      PROVE  x <= y
  <2>1. x \in Nat /\ y \in Nat
    OBVIOUS
  <2>2. <<y, x>> \in Nat \X Nat /\ <<y, x>>[1] = y /\ <<y, x>>[2] = x
    BY <2>1
  <2>3. y < x => <<y, x>> \in R
    BY <2>2
  <2> HIDE DEF R
  <2> QED
    BY <1>2, <2>1, <2>3
<1> QED
  BY <1>3

\* If 0 is in T, and with a number the next one is, so are all up to N.
LEMMA InductionTo ==
    ASSUME NEW N \in Nat, NEW T, 0 \in T,
           \A i \in 1 .. N : i - 1 \in T => i \in T
    PROVE  \A i \in 0 .. N : i \in T
<1> SUFFICES ASSUME NEW n \in 0 .. N, n \notin T
             PROVE  FALSE
  OBVIOUS
<1> DEFINE U == {i \in 0 .. N : i \notin T}
<1>1. PICK i \in U : \A j \in U : i <= j
  <2>1. U \in SUBSET Nat /\ U # {}
    OBVIOUS
  <2> HIDE DEF U
  <2> QED
    BY <2>1, LeastNumber
<1>2. i \in 1 .. N /\ i - 1 \in 0 .. N /\ i - 1 < i
  <2>1. i \in 0 .. N /\ i # 0
    OBVIOUS
  <2> QED
    BY <2>1
<1>3. i - 1 \notin U
  BY <1>1, <1>2
<1> QED
  BY <1>2, <1>3

\* g starts with base, and each of its values is a step from the one before.
Recursion(g, N, base, step) ==
    /\ g[0] = base
    /\ \A i \in 1 .. N : g[i] = step[i][g[i - 1]]

\* A function on 0 .. N that is defined by recursion exists: one on 0 .. n - 1
\* is continued by a step.
LEMMA RecursionExists ==
    ASSUME NEW V, NEW base \in V, NEW N \in Nat,
           NEW step \in [1 .. N -> [V -> V]]
    PROVE  \E g \in [0 .. N -> V] : Recursion(g, N, base, step)
<1> DEFINE T == {n \in 0 .. N : \E g \in [0 .. n -> V] : Recursion(g, n, base, step)}
<1>1. 0 \in T
  <2> DEFINE g == [i \in 0 .. 0 |-> base]
  <2>1. g \in [0 .. 0 -> V] /\ Recursion(g, 0, base, step)
    BY DEF Recursion
  <2> HIDE DEF g
  <2> QED
    BY <2>1
<1>2. ASSUME NEW n \in 1 .. N, n - 1 \in T
      PROVE  n \in T
  <2>1. PICK g \in [0 .. n - 1 -> V] : Recursion(g, n - 1, base, step)
    BY <1>2
  <2> DEFINE h == [i \in 0 .. n |-> IF i = n THEN step[n][g[n - 1]] ELSE g[i]]
  <2>2. h \in [0 .. n -> V]
    BY <2>1
  <2>3. (\A i \in 0 .. n - 1 : h[i] = g[i]) /\ h[n] = step[n][g[n - 1]]
    OBVIOUS
  <2> HIDE DEF h
  <2>4. h[0] = base
    BY <2>1, <2>3 DEF Recursion
  <2>5. ASSUME NEW i \in 1 .. n
        PROVE  h[i] = step[i][h[i - 1]]
    <3>1. CASE i = n
      BY <3>1, <2>3
    <3>2. CASE i # n
      <4>1. i \in 1 .. n - 1 /\ i \in 0 .. n - 1 /\ i - 1 \in 0 .. n - 1
        BY <3>2
      <4> QED
        BY <4>1, <2>1, <2>3 DEF Recursion
    <3> QED
      BY <3>1, <3>2
  <2>6. Recursion(h, n, base, step)
    BY <2>4, <2>5 DEF Recursion
  <2> QED
    BY <2>2, <2>6
<1> HIDE DEF T
<1>3. \A i \in 0 .. N : i \in T
  BY <1>1, <1>2, InductionTo
<1>4. N \in 0 .. N
  OBVIOUS
<1> QED
  BY <1>3, <1>4 DEF T

=============================================================================
