------------------------------ MODULE Induction ------------------------------
(***************************************************************************)
(* Induction, in a form that needs no operator for the property: over the  *)
(* natural numbers, a set takes its place.                                 *)
(*                                                                         *)
(* And what a fold over a sequence computes.  A pass of the code over a    *)
(* list is FoldLeft of the operator that models one turn.  This module is  *)
(* parameterised by that operator, Step, and by what is claimed of the     *)
(* value after i turns, Holds; a module that proves something of a fold    *)
(* takes an INSTANCE of it with its own, one that has no folds an INSTANCE *)
(* with any.  env is what a turn uses besides the value and the element.   *)
(***************************************************************************)
EXTENDS Integers, Sequences, Folds, WellFoundedInduction, TLAPS

CONSTANTS Step(_, _, _), Holds(_, _, _)

\* Lemma: a set of natural numbers that is not empty has a least element.
LEMMA LeastNat ==
  ASSUME NEW T \in SUBSET Nat, T # {}
  PROVE  \E m \in T : \A k \in T : m <= k
<1> DEFINE R == OpToRel(<, Nat)
<1>1. IsWellFoundedOn(R, Nat)
  BY NatLessThanWellFounded
<1>2. \A x, y \in Nat : y < x => <<y, x>> \in R
  BY DEF OpToRel
<1> HIDE DEF R
<1>3. PICK x \in T : \A y \in T : ~(<<y, x>> \in R)
  BY <1>1, WFMin
<1>4. x \in Nat /\ \A y \in T : y \in Nat /\ ~(y < x)
  BY <1>2, <1>3
<1> QED BY <1>3, <1>4

\* Lemma: a set of natural numbers that contains 0 and all successors has all.
LEMMA NatInSet ==
  ASSUME NEW G, 0 \in G, \A n \in Nat : n \in G => n + 1 \in G
  PROVE  Nat \subseteq G
<1> SUFFICES ASSUME Nat \ G # {} PROVE FALSE
  OBVIOUS
<1>1. PICK m \in Nat \ G : \A k \in Nat \ G : m <= k
  BY LeastNat
<1> QED BY <1>1

\* Lemma: the same up to a bound.
LEMMA UpToInSet ==
  ASSUME NEW n \in Nat, NEW G, 0 \in G, \A k \in 0 .. (n - 1) : k \in G => k + 1 \in G
  PROVE  0 .. n \subseteq G
<1> DEFINE H == {k \in Nat : k \in G \/ k > n}
<1>1. 0 \in H /\ \A k \in Nat : k \in H => k + 1 \in H
  <2> SUFFICES ASSUME NEW k \in Nat, k \in H PROVE k + 1 \in H
    OBVIOUS
  <2> QED OBVIOUS
<1> HIDE DEF H
<1>2. Nat \subseteq H
  BY <1>1, NatInSet
<1> QED BY <1>2 DEF H

-----------------------------------------------------------------------------
Largest(S) == CHOOSE x \in S : \A y \in S : x >= y

\* FoldLeft, as SequencesExt defines it: the last element is taken off first.
Fold(env, base, q) ==
  MapThenFoldSet(LAMBDA x, a : Step(env, a, x), base, LAMBDA i : q[i], LAMBDA S : Largest(S), DOMAIN q)

\* w has the values before and after each turn.
Turns(env, base, q, w) ==
  w[0] = base /\ \A i \in 1 .. Len(q) : w[i] = Step(env, w[i - 1], q[i])

\* Lemma: a fold over a sequence has the values of all turns behind it.
LEMMA Unfold ==
  ASSUME NEW S, NEW env, NEW base, NEW q \in Seq(S)
  PROVE  \E w : Turns(env, base, q, w) /\ Fold(env, base, q) = w[Len(q)]
<1> DEFINE At(h, s) == IF s = {} THEN base ELSE Step(env, h[s \ {Largest(s)}], q[Largest(s)])
           Good(h, k) == h = [s \in SUBSET (1 .. k) |-> At(h, s)]
           G == {k \in Nat : \E h : Good(h, k)}
           F == CHOOSE h : h = [s \in SUBSET (DOMAIN q) |-> At(h, s)]
<1>1. 0 \in G
  <2> DEFINE z == [s \in SUBSET (1 .. 0) |-> base]
  <2>1. \A s \in SUBSET (1 .. 0) : s = {}
    OBVIOUS
  <2>2. Good(z, 0)
    BY <2>1
  <2> QED BY <2>2
<1>2. ASSUME NEW k \in Nat, NEW h, Good(h, k) PROVE \E v : Good(v, k + 1)
  <2> DEFINE v == [s \in SUBSET (1 .. (k + 1)) |->
                     IF k + 1 \in s THEN Step(env, h[s \ {k + 1}], q[k + 1]) ELSE h[s]]
  <2>0. \A s \in SUBSET (1 .. k) : h[s] = At(h, s)
    <3> HIDE DEF At
    <3> QED BY <1>2, Zenon
  <2>1. \A s \in SUBSET (1 .. k) : v[s] = h[s]
    <3>1. \A s \in SUBSET (1 .. k) : s \in SUBSET (1 .. (k + 1)) /\ k + 1 \notin s
      OBVIOUS
    <3> QED BY <3>1
  <2>2. \A s \in SUBSET (1 .. (k + 1)) : k + 1 \in s => v[s] = Step(env, h[s \ {k + 1}], q[k + 1])
    OBVIOUS
  <2>3. v = [s \in SUBSET (1 .. (k + 1)) |-> v[s]]
    OBVIOUS
  <2> HIDE DEF v
  <2>4. ASSUME NEW s \in SUBSET (1 .. (k + 1)) PROVE v[s] = At(v, s)
    <3>1. CASE k + 1 \in s
      <4>1. Largest(s) = k + 1
        <5>1. \A y \in s : k + 1 >= y
          OBVIOUS
        <5>2. \A x \in s : (\A y \in s : x >= y) => x = k + 1
          BY <3>1
        <5> QED BY <3>1, <5>1, <5>2 DEF Largest
      <4>2. s \ {k + 1} \in SUBSET (1 .. k) /\ s # {}
        BY <3>1
      <4>3. v[s \ {k + 1}] = h[s \ {k + 1}]
        BY <2>1, <4>2
      <4> QED BY <2>2, <3>1, <4>1, <4>2, <4>3
    <3>2. CASE k + 1 \notin s
      <4>0. s \in SUBSET (1 .. k)
        BY <3>2
      <4>1. s \in SUBSET (1 .. k) /\ s \ {Largest(s)} \in SUBSET (1 .. k)
        BY <4>0, Zenon
      <4>2. v[s] = h[s] /\ v[s \ {Largest(s)}] = h[s \ {Largest(s)}] /\ h[s] = At(h, s)
        BY <2>0, <2>1, <4>1
      <4> QED BY <4>2
    <3> QED BY <3>1, <3>2
  <2>5. Good(v, k + 1)
    <3> HIDE DEF At
    <3> QED BY <2>3, <2>4
  <2> QED BY <2>5
<1>3. Len(q) \in G
  <2>1. Len(q) \in Nat
    OBVIOUS
  <2> HIDE DEF Good
  <2>2. \A m \in Nat : m \in G => m + 1 \in G
    BY <1>2
  <2> HIDE DEF G
  <2> QED BY <1>1, <2>1, <2>2, NatInSet
<1>4. DOMAIN q = 1 .. Len(q)
  OBVIOUS
<1>5. F = [s \in SUBSET (1 .. Len(q)) |-> At(F, s)]
  <2> HIDE DEF At
  <2> QED BY <1>3, <1>4
<1>6. Fold(env, base, q) = F[DOMAIN q]
  BY DEF Fold, MapThenFoldSet
<1> HIDE DEF F
<1> DEFINE w == [i \in 0 .. Len(q) |-> F[1 .. i]]
<1>7. \A s \in SUBSET (1 .. Len(q)) : F[s] = At(F, s)
  <2> HIDE DEF At
  <2> QED BY <1>5, Zenon
<1>8. w[0] = base
  <2>1. 1 .. 0 = {} /\ 1 .. 0 \in SUBSET (1 .. Len(q)) /\ 0 \in 0 .. Len(q)
    OBVIOUS
  <2> QED BY <1>7, <2>1
<1>9. ASSUME NEW i \in 1 .. Len(q) PROVE w[i] = Step(env, w[i - 1], q[i])
  <2>1. 1 .. i \in SUBSET (1 .. Len(q)) /\ i \in 0 .. Len(q) /\ i - 1 \in 0 .. Len(q) /\ i \in 1 .. i
    OBVIOUS
  <2>2. Largest(1 .. i) = i
    <3>1. \A y \in 1 .. i : i >= y
      OBVIOUS
    <3>2. \A x \in 1 .. i : (\A y \in 1 .. i : x >= y) => x = i
      BY <2>1
    <3> QED BY <2>1, <3>1, <3>2 DEF Largest
  <2>3. (1 .. i) \ {i} = 1 .. (i - 1)
    OBVIOUS
  <2>4. F[1 .. i] = At(F, 1 .. i)
    BY <1>7, <2>1
  <2>5. w[i] = F[1 .. i] /\ w[i - 1] = F[1 .. (i - 1)]
    BY <2>1
  <2> QED BY <2>1, <2>2, <2>3, <2>4, <2>5
<1>10. Fold(env, base, q) = w[Len(q)]
  <2>1. Len(q) \in 0 .. Len(q)
    OBVIOUS
  <2> QED BY <1>4, <1>6, <2>1
<1> HIDE DEF w
<1> QED BY <1>8, <1>9, <1>10 DEF Turns

\* Lemma: what holds of the base and is kept by every turn holds of the fold.
LEMMA Induct ==
  ASSUME NEW S, NEW env, NEW base, NEW q \in Seq(S), Holds(env, 0, base),
         \A x : \A i \in 1 .. Len(q) : Holds(env, i - 1, x) => Holds(env, i, Step(env, x, q[i]))
  PROVE  Holds(env, Len(q), Fold(env, base, q))
<1>1. PICK w : Turns(env, base, q, w) /\ Fold(env, base, q) = w[Len(q)]
  BY Unfold
<1> DEFINE G == {i \in 0 .. Len(q) : Holds(env, i, w[i])}
<1>2. 0 \in G /\ Len(q) \in Nat
  BY <1>1 DEF Turns
<1>3. ASSUME NEW k \in 0 .. (Len(q) - 1), k \in G PROVE k + 1 \in G
  <2>1. k + 1 \in 1 .. Len(q) /\ (k + 1) - 1 = k
    OBVIOUS
  <2>2. w[k + 1] = Step(env, w[k], q[k + 1])
    BY <1>1, <2>1 DEF Turns
  <2>3. Holds(env, k + 1, Step(env, w[k], q[k + 1]))
    BY <1>3, <2>1
  <2> QED BY <2>1, <2>2, <2>3
<1> HIDE DEF G
<1>4. 0 .. Len(q) \subseteq G
  BY <1>2, <1>3, UpToInSet
<1> QED BY <1>1, <1>2, <1>4 DEF G
=============================================================================
