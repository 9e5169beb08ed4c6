---------------------------- MODULE SetInduction ----------------------------
(***************************************************************************)
(* Induction over the natural numbers in a form that every backend can use: *)
(* the property is the set of the numbers that have it.  The proofs about   *)
(* loops, which the modules write as recursive functions, rest on it.       *)
(***************************************************************************)
EXTENDS Integers, WellFoundedInduction, TLAPS

(* Every nonempty set of numbers has a least one, and so induction holds.   *)
LEMMA Smallest ==
  ASSUME NEW S \in SUBSET Nat, NEW n \in S
  PROVE  \E m \in S : \A k \in S : m <= k
<1>1. PICK R : /\ IsWellFoundedOn(R, Nat)
               /\ \A x \in Nat, y \in Nat : y < x => <<y, x>> \in R
  <2>1. IsWellFoundedOn(OpToRel(<, Nat), Nat)
    BY NatLessThanWellFounded
  <2>2. \A x \in Nat, y \in Nat : y < x => <<y, x>> \in OpToRel(<, Nat)
    BY DEF OpToRel
  <2> QED BY <2>1, <2>2, Zenon
<1>2. \E x \in S : \A y \in S : ~ (<<y, x>> \in R)
  BY <1>1, WFMin
<1>3. PICK x \in S : \A y \in S : ~ (<<y, x>> \in R)
  BY <1>2
<1>4. ASSUME NEW k \in S
      PROVE  x <= k
  <2>1. ~ (k < x)
    BY <1>1, <1>3
  <2> QED BY <2>1
<1> QED BY <1>4

(* What holds of 0 and of each successor holds of every number: the set S   *)
(* stands for the property.                                                 *)
LEMMA Induction ==
  ASSUME NEW S, 0 \in S, \A k \in Nat : k \in S => k + 1 \in S
  PROVE  Nat \subseteq S
<1>1. SUFFICES ASSUME NEW n \in Nat, n \notin S
               PROVE  FALSE
  OBVIOUS
<1>2. PICK m \in Nat \ S : \A k \in Nat \ S : m <= k
  <2>1. Nat \ S \in SUBSET Nat /\ n \in Nat \ S
    BY <1>1
  <2> QED BY <2>1, Smallest
<1>3. m # 0 /\ m - 1 \in Nat /\ m - 1 \in S
  BY <1>2
<1> QED BY <1>2, <1>3

(* The step F of a loop stays in a set, and f holds what n steps make of x.  *)
StepsWithin(F, S, n) == \A i \in 1 .. n, y \in S : F[<<i, y>>] \in S

Iterated(f, F, x, n, S) ==
  f \in [0 .. n -> S] /\ f[0] = x /\ \A i \in 1 .. n : f[i] = F[<<i, f[i - 1]>>]

(* A recursive function over 0 .. n exists when each step stays in a set.    *)
LEMMA Iterates ==
  ASSUME NEW S, NEW F, NEW x \in S, NEW n \in Nat, StepsWithin(F, S, n)
  PROVE  \E f : Iterated(f, F, x, n, S)
<1> USE DEF StepsWithin, Iterated
<1> DEFINE Rec(f, k) == f \in [0 .. k -> S] /\ f[0] = x /\ \A i \in 1 .. k : f[i] = F[<<i, f[i - 1]>>]
           T == {k \in Nat : k <= n => \E f : Rec(f, k)}
<1>1. 0 \in T
  <2>1. PICK f : f = [i \in 0 .. 0 |-> x]
    OBVIOUS
  <2>2. Rec(f, 0)
    BY <2>1
  <2> QED BY <2>2
<1>2. ASSUME NEW k \in Nat, k \in T
      PROVE  k + 1 \in T
  <2>1. SUFFICES ASSUME k + 1 <= n
                 PROVE  \E f : Rec(f, k + 1)
    OBVIOUS
  <2>2. PICK f : Rec(f, k)
    BY <1>2, <2>1
  <2>3. f[k] \in S /\ F[<<k + 1, f[k]>>] \in S
    <3>1. f[k] \in S
      BY <2>2
    <3>2. k + 1 \in 1 .. n
      BY <2>1
    <3> QED BY <3>1, <3>2
  <2>4. PICK g : g = [i \in 0 .. k + 1 |-> IF i = k + 1 THEN F[<<k + 1, f[k]>>] ELSE f[i]]
    OBVIOUS
  <2>5. g \in [0 .. k + 1 -> S]
    BY <2>2, <2>3, <2>4
  <2>6. g[0] = x
    BY <2>2, <2>4
  <2>7. ASSUME NEW i \in 1 .. k + 1
        PROVE  g[i] = F[<<i, g[i - 1]>>]
    <3>1. CASE i = k + 1
      <4>1. g[i] = F[<<k + 1, f[k]>>] /\ g[k] = f[k]
        BY <2>4, <3>1
      <4>2. i - 1 = k
        BY <3>1
      <4> QED BY <3>1, <4>1, <4>2
    <3>2. CASE i \in 1 .. k
      <4>1. g[i] = f[i] /\ g[i - 1] = f[i - 1]
        BY <2>4, <3>2
      <4>2. f[i] = F[<<i, f[i - 1]>>]
        BY <2>2, <3>2
      <4> QED BY <4>1, <4>2
    <3> QED BY <3>1, <3>2
  <2> QED BY <2>5, <2>6, <2>7
<1>3. \E f : Rec(f, n)
  <2> HIDE DEF Rec
  <2>1. Nat \subseteq T
    <3> HIDE DEF T
    <3> QED BY <1>1, <1>2, Induction
  <2> QED BY <2>1
<1> QED BY <1>3

=============================================================================
