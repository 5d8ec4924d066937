----------------------------- MODULE Induction -----------------------------
(***************************************************************************)
(* Induction and recursion over the natural numbers in a first-order form: *)
(* what is to be shown of a number is a set of numbers, and the step of a  *)
(* recursion is a function.  They follow from the well-foundedness of <.   *)
(* The proofs about the library's loops rest on them: a loop over an array *)
(* is a function on the lengths of its prefixes.                           *)
(***************************************************************************)
EXTENDS Naturals, WellFoundedInduction, TLAPS

(* A set of numbers that is not empty has a least element.                 *)
LEMMA LeastElement ==
  ASSUME NEW S \in SUBSET Nat, S # {}
  PROVE  \E n \in S : \A m \in S : n <= m
  <1> DEFINE R == OpToRel(<, Nat)
  <1>1. IsWellFoundedOn(R, Nat)
    BY NatLessThanWellFounded
  <1>2. \A x, y \in Nat : y < x => <<y, x>> \in R
    BY DEF OpToRel
  <1> HIDE DEF R
  <1>3. PICK x \in S : \A y \in S : ~ (<<y, x>> \in R)
    BY <1>1, WFMin
  <1>4. \A y \in S : ~(y < x)
    BY <1>2, <1>3
  <1>5. \A y \in S : x <= y
    <2> TAKE y \in S
    <2>1. x \in Nat /\ y \in Nat
      OBVIOUS
    <2> QED BY <1>4, <2>1
  <1> QED BY <1>5

(* A set with 0 that is closed under successor holds every number.         *)
LEMMA NatSetInduction ==
  ASSUME NEW S, 0 \in S, \A n \in Nat : n \in S => n + 1 \in S
  PROVE  \A n \in Nat : n \in S
  <1> SUFFICES ASSUME Nat \ S # {} PROVE FALSE
    OBVIOUS
  <1>1. PICK n \in Nat \ S : \A m \in Nat \ S : n <= m
    BY LeastElement
  <1>2. n # 0 /\ n - 1 \in Nat /\ ~(n <= n - 1)
    BY <1>1
  <1>3. n - 1 \in S
    BY <1>1, <1>2
  <1>4. (n - 1) + 1 \in S
    BY <1>2, <1>3
  <1> QED BY <1>1, <1>2, <1>4

(* f holds what n steps make of base, one after the other.                 *)
Computes(f, T, base, step, n) ==
  /\ f \in [0 .. n -> T] /\ f[0] = base
  /\ \A k \in 1 .. n : f[k] = step[<<k, f[k - 1]>>]

(* A step from each value to the next defines the values up to any number. *)
LEMMA Recursion ==
  ASSUME NEW T, NEW base \in T, NEW step \in [Nat \X T -> T]
  PROVE  \A n \in Nat : \E f : Computes(f, T, base, step, n)
  <1> DEFINE Runs(f, n) == Computes(f, T, base, step, n)
             S == {n \in Nat : \E f : Runs(f, n)}
  <1> USE DEF Computes
  <1>1. 0 \in S
    <2> DEFINE f == [k \in 0 .. 0 |-> base]
    <2>1. f \in [0 .. 0 -> T] /\ f[0] = base /\ 1 .. 0 = {}
      OBVIOUS
    <2>2. Runs(f, 0)
      BY <2>1
    <2> HIDE DEF f
    <2> QED BY <2>2
  <1>2. ASSUME NEW n \in Nat, n \in S PROVE n + 1 \in S
    <2>1. PICK f : Runs(f, n)
      BY <1>2
    <2> DEFINE g == [k \in 0 .. n + 1 |-> IF k = n + 1 THEN step[<<n + 1, f[n]>>] ELSE f[k]]
    <2>2. \A k \in 0 .. n + 1 : k # n + 1 => k \in 0 .. n
      OBVIOUS
    <2>3. f[n] \in T /\ step[<<n + 1, f[n]>>] \in T
      BY <2>1
    <2>4. \A k \in 0 .. n : k # n + 1 /\ k \in 0 .. n + 1
      OBVIOUS
    <2>5. n + 1 \in 0 .. n + 1
      OBVIOUS
    <2>6. /\ g[n + 1] = step[<<n + 1, f[n]>>]
          /\ \A k \in 0 .. n : g[k] = f[k]
      BY <2>4, <2>5
    <2>7. g \in [0 .. n + 1 -> T]
      BY <2>1, <2>2, <2>3
    <2> HIDE DEF g
    <2>8. \A k \in 1 .. n + 1 : g[k] = step[<<k, g[k - 1]>>]
      <3> TAKE k \in 1 .. n + 1
      <3>1. CASE k = n + 1
        <4>1. k - 1 = n /\ n \in 0 .. n
          BY <3>1
        <4> QED BY <2>6, <3>1, <4>1
      <3>2. CASE k \in 1 .. n
        <4>1. k \in 0 .. n /\ k - 1 \in 0 .. n
          BY <3>2
        <4> QED BY <2>1, <2>6, <3>2, <4>1
      <3> QED BY <3>1, <3>2
    <2>9. g[0] = base
      <3>1. 0 \in 0 .. n
        OBVIOUS
      <3> QED BY <2>1, <2>6, <3>1
    <2>10. Runs(g, n + 1)
      BY <2>7, <2>8, <2>9
    <2> HIDE DEF Runs
    <2> QED BY <2>10
  <1> HIDE DEF S
  <1>3. \A n \in Nat : n \in S
    BY <1>1, <1>2, NatSetInduction
  <1> QED BY <1>3 DEF S
=============================================================================
