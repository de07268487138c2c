--------------------------- MODULE McmAlloc_proof ---------------------------
(***************************************************************************)
(* Proofs about McmCache, the first part: what an allocation is made of,   *)
(* for chunks, caches and swap files of every size.  Good is the inductive *)
(* invariant of the two managers' state.  Splitting a block, adding a      *)
(* chunk, tossing objects out, compacting the swap file and collecting     *)
(* garbage preserve it and keep every object.                              *)
(***************************************************************************)
EXTENDS McmCache, FiniteSetTheorems, TLAPS

-----------------------------------------------------------------------------
\* Sequences.

\* Lemma: the elements of a sequence are the values at its positions.
LEMMA ToSetFacts ==
  ASSUME NEW S, NEW q \in Seq(S)
  PROVE  /\ Len(q) \in Nat /\ DOMAIN q = 1 .. Len(q)
         /\ \A x : x \in ToSet(q) <=> \E i \in 1 .. Len(q) : q[i] = x
         /\ \A i \in 1 .. Len(q) : q[i] \in S
BY DEF ToSet

\* Lemma: a concatenation has first the one, then the other.
LEMMA CatFacts ==
  ASSUME NEW S, NEW p \in Seq(S), NEW q \in Seq(S), NEW r, r = p \o q
  PROVE  /\ r \in Seq(S) /\ Len(r) = Len(p) + Len(q)
         /\ \A i \in 1 .. Len(p) : r[i] = p[i]
         /\ \A i \in 1 .. Len(q) : r[Len(p) + i] = q[i]
OBVIOUS

\* Lemma: a part of a sequence.
LEMMA PartFacts ==
  ASSUME NEW S, NEW q \in Seq(S), NEW a \in Nat, NEW b \in Nat, 1 <= a, a <= b + 1, b <= Len(q)
  PROVE  /\ SubSeq(q, a, b) \in Seq(S) /\ Len(SubSeq(q, a, b)) = (b + 1) - a
         /\ \A i \in 1 .. (b + 1) - a : SubSeq(q, a, b)[i] = q[(a - 1) + i]
OBVIOUS

\* Lemma: what is inserted in a sequence is there, and the others are where they
\* were or one further.
LEMMA InsertFacts ==
  ASSUME NEW S, NEW q \in Seq(S), NEW p \in 1 .. Len(q), NEW x \in S
  PROVE  /\ InsertAt(q, p + 1, x) \in Seq(S)
         /\ Len(InsertAt(q, p + 1, x)) = Len(q) + 1
         /\ \A i \in 1 .. Len(q) + 1 :
              InsertAt(q, p + 1, x)[i] = IF i <= p THEN q[i] ELSE IF i = p + 1 THEN x ELSE q[i - 1]
<1>1. PICK a : a = SubSeq(q, 1, (p + 1) - 1)
  OBVIOUS
<1>2. a \in Seq(S) /\ Len(a) = p /\ \A i \in 1 .. p : a[i] = q[i]
  BY <1>1
<1>3. PICK b : b = SubSeq(q, p + 1, Len(q))
  OBVIOUS
<1>4. b \in Seq(S) /\ Len(b) = Len(q) - p /\ \A i \in 1 .. Len(q) - p : b[i] = q[i + p]
  BY <1>3
<1>5. InsertAt(q, p + 1, x) = a \o <<x>> \o b
  BY <1>1, <1>3 DEF InsertAt
<1>6. PICK d : d = a \o <<x>>
  OBVIOUS
<1>7. d \in Seq(S) /\ Len(d) = p + 1 /\ \A i \in 1 .. p + 1 : d[i] = IF i <= p THEN q[i] ELSE x
  BY <1>2, <1>6
<1>r. PICK r : r = d \o b
  OBVIOUS
<1>8. /\ r \in Seq(S) /\ Len(r) = Len(q) + 1
      /\ \A i \in 1 .. p + 1 : r[i] = d[i]
      /\ \A i \in 1 .. Len(q) - p : r[(p + 1) + i] = b[i]
  <2>1. d \in Seq(S) /\ b \in Seq(S)
    BY <1>4, <1>7
  <2>2. /\ r \in Seq(S) /\ Len(r) = Len(d) + Len(b)
        /\ \A i \in 1 .. Len(d) : r[i] = d[i]
        /\ \A i \in 1 .. Len(b) : r[Len(d) + i] = b[i]
    BY <1>r, <2>1, CatFacts
  <2>3. Len(d) = p + 1 /\ Len(b) = Len(q) - p /\ (p + 1) + (Len(q) - p) = Len(q) + 1
    BY <1>4, <1>7
  <2> QED BY <2>2, <2>3
<1>9. ASSUME NEW i \in 1 .. Len(q) + 1
      PROVE  r[i] = IF i <= p THEN q[i] ELSE IF i = p + 1 THEN x ELSE q[i - 1]
  <2>1. CASE i <= p + 1
    <3>1. i \in 1 .. p + 1
      BY <2>1
    <3> QED BY <1>7, <1>8, <2>1, <3>1
  <2>2. CASE i > p + 1
    <3>1. PICK j \in 1 .. Len(q) - p : i = (p + 1) + j
      <4>1. i - (p + 1) \in 1 .. Len(q) - p /\ (p + 1) + (i - (p + 1)) = i
        BY <2>2
      <4> QED BY <4>1
    <3>2. j + p = i - 1
      BY <3>1
    <3>3. r[i] = b[j] /\ b[j] = q[j + p]
      BY <1>4, <1>8, <3>1
    <3>4. ~(i <= p) /\ i # p + 1
      BY <2>2
    <3> QED BY <3>2, <3>3, <3>4
  <2> QED BY <2>1, <2>2
<1>10. InsertAt(q, p + 1, x) = r
  BY <1>5, <1>6, <1>r
<1> QED BY <1>8, <1>9, <1>10

\* Lemma: when one position is removed the others move up.
LEMMA RemoveAtFacts ==
  ASSUME NEW S, NEW q \in Seq(S), NEW p \in 1 .. Len(q)
  PROVE  /\ RemoveAt(q, p) \in Seq(S)
         /\ Len(RemoveAt(q, p)) = Len(q) - 1
         /\ \A i \in 1 .. Len(q) - 1 : RemoveAt(q, p)[i] = IF i < p THEN q[i] ELSE q[i + 1]
<1>1. PICK a : a = SubSeq(q, 1, p - 1)
  OBVIOUS
<1>2. a \in Seq(S) /\ Len(a) = p - 1 /\ \A i \in 1 .. p - 1 : a[i] = q[i]
  BY <1>1
<1>3. PICK b : b = SubSeq(q, p + 1, Len(q))
  OBVIOUS
<1>4. b \in Seq(S) /\ Len(b) = Len(q) - p /\ \A i \in 1 .. Len(q) - p : b[i] = q[i + p]
  BY <1>3
<1>5. RemoveAt(q, p) = a \o b
  BY <1>1, <1>3 DEF RemoveAt
<1>r. PICK r : r = a \o b
  OBVIOUS
<1>8. /\ r \in Seq(S) /\ Len(r) = Len(q) - 1
      /\ \A i \in 1 .. p - 1 : r[i] = a[i]
      /\ \A i \in 1 .. Len(q) - p : r[(p - 1) + i] = b[i]
  <2>1. a \in Seq(S) /\ b \in Seq(S)
    BY <1>4, <1>2
  <2>2. /\ r \in Seq(S) /\ Len(r) = Len(a) + Len(b)
        /\ \A i \in 1 .. Len(a) : r[i] = a[i]
        /\ \A i \in 1 .. Len(b) : r[Len(a) + i] = b[i]
    BY <1>r, <2>1, CatFacts
  <2>3. Len(a) = p - 1 /\ Len(b) = Len(q) - p /\ (p - 1) + (Len(q) - p) = Len(q) - 1
    BY <1>4, <1>2
  <2> QED BY <2>2, <2>3
<1>9. ASSUME NEW i \in 1 .. Len(q) - 1
      PROVE  r[i] = IF i < p THEN q[i] ELSE q[i + 1]
  <2>1. CASE i < p
    <3>1. i \in 1 .. p - 1
      BY <2>1
    <3> QED BY <1>2, <1>8, <2>1, <3>1
  <2>2. CASE i >= p
    <3>1. PICK j \in 1 .. Len(q) - p : i = (p - 1) + j
      <4>1. i - (p - 1) \in 1 .. Len(q) - p /\ (p - 1) + (i - (p - 1)) = i
        BY <2>2
      <4> QED BY <4>1
    <3>2. j + p = i + 1
      BY <3>1
    <3>3. r[i] = b[j] /\ b[j] = q[j + p]
      BY <1>4, <1>8, <3>1
    <3>4. ~(i < p)
      BY <2>2
    <3> QED BY <3>2, <3>3, <3>4
  <2> QED BY <2>1, <2>2
<1>10. RemoveAt(q, p) = r
  BY <1>5, <1>r
<1> QED BY <1>8, <1>9, <1>10

\* Lemma: what is removed from a list without duplicates is no longer there, and
\* nothing else is missing.
LEMMA RemoveFirstFacts ==
  ASSUME NEW S, NEW q \in Seq(S), IsInjective(q), NEW e
  PROVE  /\ RemoveFirst(q, e) \in Seq(S)
         /\ IsInjective(RemoveFirst(q, e))
         /\ \A x : x \in ToSet(RemoveFirst(q, e)) <=> x \in ToSet(q) /\ x # e
<1>1. CASE ~ \E i \in 1 .. Len(q) : q[i] = e
  <2>1. RemoveFirst(q, e) = q
    BY <1>1 DEF RemoveFirst
  <2> QED BY <1>1, <2>1, ToSetFacts
<1>2. CASE \E i \in 1 .. Len(q) : q[i] = e
  <2>1. PICK p \in 1 .. Len(q) : q[p] = e
    BY <1>2
  <2>2. \A i \in 1 .. Len(q) : q[i] = e => i = p
    BY <2>1 DEF IsInjective
  <2>3. SelectInSeq(q, LAMBDA v : v = e) = p
    <3>1. {i \in 1 .. Len(q) : q[i] = e} = {p}
      BY <2>1, <2>2
    <3>2. Min({p}) = p
      BY DEF Min
    <3> QED BY <3>1, <3>2 DEF SelectInSeq
  <2>4. RemoveFirst(q, e) = RemoveAt(q, p)
    BY <1>2, <2>3 DEF RemoveFirst
  <2>5. PICK r : r = RemoveAt(q, p)
    OBVIOUS
  <2>6. r \in Seq(S) /\ Len(r) = Len(q) - 1
        /\ \A i \in 1 .. Len(q) - 1 : r[i] = IF i < p THEN q[i] ELSE q[i + 1]
    BY <2>5, RemoveAtFacts
  <2>7. \A i \in 1 .. Len(q) - 1 :
          /\ i < p => r[i] = q[i] /\ i \in 1 .. Len(q)
          /\ i >= p => r[i] = q[i + 1] /\ i + 1 \in 1 .. Len(q)
    BY <2>6
  <2>8. IsInjective(r)
    <3>1. DOMAIN r = 1 .. Len(q) - 1 /\ DOMAIN q = 1 .. Len(q)
      BY <2>6
    <3>2. ASSUME NEW i \in 1 .. Len(q) - 1, NEW j \in 1 .. Len(q) - 1, r[i] = r[j] PROVE i = j
      <4>1. PICK a \in 1 .. Len(q) : r[i] = q[a] /\ a = IF i < p THEN i ELSE i + 1
        BY <2>7
      <4>2. PICK b \in 1 .. Len(q) : r[j] = q[b] /\ b = IF j < p THEN j ELSE j + 1
        BY <2>7
      <4>3. a = b
        BY <3>1, <3>2, <4>1, <4>2 DEF IsInjective
      <4> QED BY <4>1, <4>2, <4>3
    <3> QED BY <3>1, <3>2 DEF IsInjective
  <2>9. ASSUME NEW x PROVE x \in ToSet(r) <=> x \in ToSet(q) /\ x # e
    <3>1. ASSUME NEW i \in 1 .. Len(q) - 1, r[i] = x PROVE x \in ToSet(q) /\ x # e
      <4>1. PICK a \in 1 .. Len(q) : r[i] = q[a] /\ a # p
        BY <2>7
      <4> QED BY <2>2, <3>1, <4>1, ToSetFacts
    <3>2. ASSUME NEW i \in 1 .. Len(q), q[i] = x, x # e PROVE x \in ToSet(r)
      <4>1. i # p
        BY <2>1, <3>2
      <4>2. PICK j \in 1 .. Len(q) - 1 : r[j] = x
        <5>1. CASE i < p
          BY <2>7, <3>2, <5>1
        <5>2. CASE i > p
          <6>1. i - 1 \in 1 .. Len(q) - 1 /\ i - 1 >= p /\ (i - 1) + 1 = i
            BY <5>2
          <6> QED BY <2>7, <3>2, <6>1
        <5> QED BY <4>1, <5>1, <5>2
      <4> QED BY <2>6, <4>2, ToSetFacts
    <3> QED BY <2>6, <3>1, <3>2, ToSetFacts
  <2> QED BY <2>4, <2>5, <2>6, <2>8, <2>9
<1> QED BY <1>1, <1>2

\* Lemma: what is put in front of a list it is not in keeps it without duplicates.
LEMMA ConsFacts ==
  ASSUME NEW S, NEW q \in Seq(S), IsInjective(q), NEW e \in S, e \notin ToSet(q)
  PROVE  /\ <<e>> \o q \in Seq(S)
         /\ IsInjective(<<e>> \o q)
         /\ \A x : x \in ToSet(<<e>> \o q) <=> x = e \/ x \in ToSet(q)
<1>1. PICK r : r = <<e>> \o q
  OBVIOUS
<1>2. r \in Seq(S) /\ Len(r) = Len(q) + 1 /\ r[1] = e /\ DOMAIN r = 1 .. Len(q) + 1
      /\ DOMAIN q = 1 .. Len(q)
  BY <1>1
<1>3. \A i \in 2 .. Len(q) + 1 : r[i] = q[i - 1] /\ i - 1 \in 1 .. Len(q)
  BY <1>1
<1>4. \A i \in 1 .. Len(q) : q[i] # e /\ r[i + 1] = q[i] /\ i + 1 \in 1 .. Len(q) + 1
  <2>1. \A i \in 1 .. Len(q) : i + 1 \in 2 .. Len(q) + 1 /\ (i + 1) - 1 = i
    OBVIOUS
  <2> QED BY <1>3, <2>1, ToSetFacts
<1>5. IsInjective(r)
  <2>1. ASSUME NEW i \in 1 .. Len(q) + 1, NEW j \in 1 .. Len(q) + 1, r[i] = r[j] PROVE i = j
    <3>1. CASE i = 1 \/ j = 1
      <4>1. i # 1 => r[i] # e
        BY <1>3, <1>4
      <4>2. j # 1 => r[j] # e
        BY <1>3, <1>4
      <4> QED BY <1>2, <2>1, <3>1, <4>1, <4>2
    <3>2. CASE i # 1 /\ j # 1
      <4>1. q[i - 1] = q[j - 1] /\ i - 1 \in 1 .. Len(q) /\ j - 1 \in 1 .. Len(q)
        BY <1>3, <2>1, <3>2
      <4>2. i - 1 = j - 1
        BY <1>2, <4>1 DEF IsInjective
      <4> QED BY <4>2
    <3> QED BY <3>1, <3>2
  <2> QED BY <1>2, <2>1 DEF IsInjective
<1>6. ASSUME NEW x PROVE x \in ToSet(r) <=> x = e \/ x \in ToSet(q)
  <2>1. x \in ToSet(r) <=> \E i \in 1 .. Len(q) + 1 : r[i] = x
    BY <1>2, ToSetFacts
  <2>2. x \in ToSet(q) <=> \E i \in 1 .. Len(q) : q[i] = x
    BY ToSetFacts
  <2>3. 1 \in 1 .. Len(q) + 1 /\ \A i \in 1 .. Len(q) + 1 : i = 1 \/ i \in 2 .. Len(q) + 1
    OBVIOUS
  <2> QED BY <1>2, <1>3, <1>4, <2>1, <2>2, <2>3
<1> QED BY <1>1, <1>2, <1>5, <1>6

\* Lemma: the same for what is put at the end.
LEMMA SnocFacts ==
  ASSUME NEW S, NEW q \in Seq(S), IsInjective(q), NEW e \in S, e \notin ToSet(q)
  PROVE  /\ Append(q, e) \in Seq(S)
         /\ IsInjective(Append(q, e))
         /\ \A x : x \in ToSet(Append(q, e)) <=> x = e \/ x \in ToSet(q)
<1>1. PICK r : r = Append(q, e)
  OBVIOUS
<1>2. r \in Seq(S) /\ Len(r) = Len(q) + 1 /\ r[Len(q) + 1] = e /\ DOMAIN r = 1 .. Len(q) + 1
      /\ DOMAIN q = 1 .. Len(q) /\ \A i \in 1 .. Len(q) : r[i] = q[i]
  BY <1>1
<1>4. \A i \in 1 .. Len(q) : q[i] # e
  BY ToSetFacts
<1>5. IsInjective(r)
  <2>1. ASSUME NEW i \in 1 .. Len(q) + 1, NEW j \in 1 .. Len(q) + 1, r[i] = r[j] PROVE i = j
    <3>1. i # Len(q) + 1 => i \in 1 .. Len(q)
      OBVIOUS
    <3>2. j # Len(q) + 1 => j \in 1 .. Len(q)
      OBVIOUS
    <3> QED BY <1>2, <1>4, <2>1, <3>1, <3>2 DEF IsInjective
  <2> QED BY <1>2, <2>1 DEF IsInjective
<1>6. ASSUME NEW x PROVE x \in ToSet(r) <=> x = e \/ x \in ToSet(q)
  <2>1. x \in ToSet(r) <=> \E i \in 1 .. Len(q) + 1 : r[i] = x
    BY <1>2, ToSetFacts
  <2>2. x \in ToSet(q) <=> \E i \in 1 .. Len(q) : q[i] = x
    BY ToSetFacts
  <2>3. Len(q) + 1 \in 1 .. Len(q) + 1 /\ \A i \in 1 .. Len(q) : i \in 1 .. Len(q) + 1
    OBVIOUS
  <2>4. \A i \in 1 .. Len(q) + 1 : i = Len(q) + 1 \/ i \in 1 .. Len(q)
    OBVIOUS
  <2> QED BY <1>2, <2>1, <2>2, <2>3, <2>4
<1> QED BY <1>1, <1>2, <1>5, <1>6

-----------------------------------------------------------------------------
\* Sums.

AddUp(env, sum, siz) == sum + siz

NatSoFar(env, i, sum) == sum \in Nat
InNat == INSTANCE Induction WITH Step <- AddUp, Holds <- NatSoFar

\* Lemma: Total is the fold that the instances speak of.
LEMMA TotalIsFold ==
  ASSUME NEW q
  PROVE  Total(q) = InNat!Fold(0, 0, q)
BY DEF Total, InNat!Fold, AddUp, FoldLeft, MapThenFoldSet, Max, InNat!Largest,
       InNat!MapThenFoldSet

\* Lemma: sequences with the same elements at the same positions are the same.
LEMMA SameSeq ==
  ASSUME NEW S, NEW p \in Seq(S), NEW q \in Seq(S), Len(p) = Len(q),
         \A i \in 1 .. Len(p) : p[i] = q[i]
  PROVE  p = q
OBVIOUS

\* Lemma: the sum of natural numbers is one.
LEMMA TotalNat ==
  ASSUME NEW q \in Seq(Nat)
  PROVE  Total(q) \in Nat
<1>1. NatSoFar(0, 0, 0)
  BY DEF NatSoFar
<1>2. \A x : \A i \in 1 .. Len(q) : NatSoFar(0, i - 1, x) => NatSoFar(0, i, AddUp(0, x, q[i]))
  BY DEF NatSoFar, AddUp
<1>3. NatSoFar(0, Len(q), InNat!Fold(0, 0, q))
  BY <1>1, <1>2, InNat!Induct
<1> QED BY <1>3, TotalIsFold DEF NatSoFar

\* Lemma: the sum of no numbers.
LEMMA TotalEmpty == Total(<< >>) = 0
<1>1. PICK q : q = << >>
  OBVIOUS
<1>2. q \in Seq(Nat)
  BY <1>1
<1>4. Len(q) = 0
  BY <1>1
<1>3. PICK w : InNat!Turns(0, 0, q, w) /\ InNat!Fold(0, 0, q) = w[Len(q)]
  BY <1>2, InNat!Unfold
<1> QED BY <1>1, <1>3, <1>4, TotalIsFold DEF InNat!Turns

SameTurns(env, i, sum) == sum = IF i <= env.len THEN env.w[i] ELSE env.w[env.len] + env.last
AsBefore == INSTANCE Induction WITH Step <- AddUp, Holds <- SameTurns

\* Lemma: one number more.
LEMMA TotalAppend ==
  ASSUME NEW q \in Seq(Nat), NEW x \in Nat
  PROVE  Total(Append(q, x)) = Total(q) + x
<1>1. PICK w : InNat!Turns(0, 0, q, w) /\ InNat!Fold(0, 0, q) = w[Len(q)]
  BY InNat!Unfold
<1>2. PICK r : r = Append(q, x)
  OBVIOUS
<1>3. r \in Seq(Nat) /\ Len(r) = Len(q) + 1 /\ r[Len(q) + 1] = x
      /\ \A i \in 1 .. Len(q) : r[i] = q[i]
  BY <1>2
<1>4. PICK env : env = [len |-> Len(q), w |-> w, last |-> x]
  OBVIOUS
<1>5. SameTurns(env, 0, 0)
  BY <1>1, <1>4 DEF SameTurns, InNat!Turns
<1>6. ASSUME NEW sum, NEW i \in 1 .. Len(r), SameTurns(env, i - 1, sum)
      PROVE  SameTurns(env, i, AddUp(env, sum, r[i]))
  <2>0. i - 1 <= Len(q)
    BY <1>3
  <2>1. sum = w[i - 1]
    BY <1>4, <1>6, <2>0 DEF SameTurns
  <2>2. CASE i <= Len(q)
    <3>1. i \in 1 .. Len(q)
      BY <2>2
    <3>2. w[i] = AddUp(0, w[i - 1], q[i])
      BY <1>1, <3>1 DEF InNat!Turns
    <3> QED BY <1>3, <1>4, <2>1, <2>2, <3>1, <3>2 DEF SameTurns, AddUp
  <2>3. CASE i > Len(q)
    <3>1. i = Len(q) + 1 /\ i - 1 = Len(q)
      BY <1>3, <2>3
    <3> QED BY <1>3, <1>4, <2>1, <2>3, <3>1 DEF SameTurns, AddUp
  <2> QED BY <2>2, <2>3
<1>7. SameTurns(env, Len(r), AsBefore!Fold(env, 0, r))
  BY <1>3, <1>5, <1>6, AsBefore!Induct
<1>8. AsBefore!Fold(env, 0, r) = InNat!Fold(0, 0, r)
  BY DEF AsBefore!Fold, InNat!Fold, AddUp, AsBefore!Largest, AsBefore!MapThenFoldSet,
         InNat!Largest, InNat!MapThenFoldSet
<1>9. Total(r) = w[Len(q)] + x
  BY <1>3, <1>4, <1>7, <1>8, TotalIsFold DEF SameTurns
<1> QED BY <1>1, <1>2, <1>9, TotalIsFold

WithRest(env, i, sum) ==
  sum \in Nat /\ Total(env.p \o SubSeq(env.q, 1, i)) = Total(env.p) + sum
Onwards == INSTANCE Induction WITH Step <- AddUp, Holds <- WithRest

\* Lemma: the beginning of a sequence, one element longer.
LEMMA LongerPart ==
  ASSUME NEW S, NEW q \in Seq(S), NEW i \in 1 .. Len(q)
  PROVE  SubSeq(q, 1, i) = Append(SubSeq(q, 1, i - 1), q[i])
<1>1. PICK a : a = SubSeq(q, 1, i)
  OBVIOUS
<1>2. a \in Seq(S) /\ Len(a) = i /\ \A j \in 1 .. i : a[j] = q[j]
  BY <1>1
<1>3. PICK b : b = SubSeq(q, 1, i - 1)
  OBVIOUS
<1>4. b \in Seq(S) /\ Len(b) = i - 1 /\ \A j \in 1 .. i - 1 : b[j] = q[j]
  BY <1>3
<1>5. PICK d : d = Append(b, q[i])
  OBVIOUS
<1>6. d \in Seq(S) /\ Len(d) = i /\ \A j \in 1 .. i : d[j] = IF j = i THEN q[i] ELSE b[j]
  BY <1>4, <1>5
<1>7. a = d
  BY <1>2, <1>4, <1>6, SameSeq, SMTT(20)
<1> QED BY <1>1, <1>3, <1>5, <1>7

\* Lemma: the sum of two sequences of numbers.
LEMMA TotalCat ==
  ASSUME NEW p \in Seq(Nat), NEW q \in Seq(Nat)
  PROVE  Total(p \o q) = Total(p) + Total(q)
<1>1. PICK env : env = [p |-> p, q |-> q]
  OBVIOUS
<1>w. \A i, sum : WithRest(env, i, sum) <=> /\ sum \in Nat
                                           /\ Total(p \o SubSeq(q, 1, i)) = Total(p) + sum
  <2>1. env.p = p /\ env.q = q
    BY <1>1
  <2> QED BY <2>1, Zenon DEF WithRest
<1>2. WithRest(env, 0, 0)
  <2>1. p \o SubSeq(q, 1, 0) = p
    OBVIOUS
  <2>2. Total(p) \in Nat
    BY TotalNat
  <2>3. 0 \in Nat /\ Total(p) = Total(p) + 0
    BY <2>2
  <2>4. Total(p \o SubSeq(q, 1, 0)) = Total(p) + 0
    BY <2>1, <2>3, Zenon
  <2> QED BY <1>w, <2>3, <2>4, Zenon
<1>3. ASSUME NEW sum, NEW i \in 1 .. Len(q), WithRest(env, i - 1, sum)
      PROVE  WithRest(env, i, AddUp(env, sum, q[i]))
  <2>1. PICK b : b = SubSeq(q, 1, i - 1)
    OBVIOUS
  <2>2. b \in Seq(Nat) /\ SubSeq(q, 1, i) = Append(b, q[i]) /\ q[i] \in Nat
    BY <2>1, LongerPart
  <2>3. p \o Append(b, q[i]) = Append(p \o b, q[i])
    BY <2>2
  <2>4. PICK c : c = p \o b
    OBVIOUS
  <2>5. c \in Seq(Nat)
    BY <2>2, <2>4
  <2>6. Total(Append(c, q[i])) = Total(c) + q[i]
    BY <2>2, <2>5, TotalAppend
  <2>7. sum \in Nat /\ Total(c) = Total(p) + sum /\ Total(p) \in Nat
    BY <1>w, <1>3, <2>1, <2>4, TotalNat
  <2>8. Total(p \o SubSeq(q, 1, i)) = Total(Append(c, q[i]))
    BY <2>2, <2>3, <2>4
  <2>9. AddUp(env, sum, q[i]) = sum + q[i]
    BY DEF AddUp
  <2>10. AddUp(env, sum, q[i]) \in Nat
         /\ Total(p \o SubSeq(q, 1, i)) = Total(p) + AddUp(env, sum, q[i])
    BY <2>2, <2>6, <2>7, <2>8, <2>9
  <2> QED BY <1>w, <2>10
<1>4. WithRest(env, Len(q), Onwards!Fold(env, 0, q))
  BY <1>2, <1>3, Onwards!Induct
<1>5. Onwards!Fold(env, 0, q) = InNat!Fold(0, 0, q)
  BY DEF Onwards!Fold, InNat!Fold, AddUp, Onwards!Largest, Onwards!MapThenFoldSet,
         InNat!Largest, InNat!MapThenFoldSet
<1>6. SubSeq(q, 1, Len(q)) = q
  OBVIOUS
<1> QED BY <1>w, <1>4, <1>5, <1>6, TotalIsFold

\* Lemma: the sums of the beginnings of a sequence.
LEMMA TotalPrefix ==
  ASSUME NEW q \in Seq(Nat)
  PROVE  /\ Total(SubSeq(q, 1, 0)) = 0
         /\ \A i \in 1 .. Len(q) : Total(SubSeq(q, 1, i)) = Total(SubSeq(q, 1, i - 1)) + q[i]
         /\ SubSeq(q, 1, Len(q)) = q
         /\ \A i \in 0 .. Len(q) : Total(SubSeq(q, 1, i)) \in Nat /\ Total(SubSeq(q, 1, i)) <= Total(q)
<1>1. SubSeq(q, 1, 0) = << >> /\ SubSeq(q, 1, Len(q)) = q
  OBVIOUS
<1>2. ASSUME NEW i \in 1 .. Len(q) PROVE Total(SubSeq(q, 1, i)) = Total(SubSeq(q, 1, i - 1)) + q[i]
  <2>1. SubSeq(q, 1, i - 1) \in Seq(Nat) /\ q[i] \in Nat
    OBVIOUS
  <2> QED BY <2>1, LongerPart, TotalAppend
<1>3. ASSUME NEW i \in 0 .. Len(q)
      PROVE  Total(SubSeq(q, 1, i)) \in Nat /\ Total(SubSeq(q, 1, i)) <= Total(q)
  <2>1. PICK a : a = SubSeq(q, 1, i)
    OBVIOUS
  <2>2. PICK b : b = SubSeq(q, i + 1, Len(q))
    OBVIOUS
  <2>3. a \in Seq(Nat) /\ b \in Seq(Nat) /\ Len(a) = i /\ Len(b) = Len(q) - i
        /\ (\A j \in 1 .. i : a[j] = q[j]) /\ \A j \in 1 .. Len(q) - i : b[j] = q[i + j]
    <3>1. \A j \in 1 .. (i + 1) - 1 : a[j] = q[(1 - 1) + j]
      BY <2>1, PartFacts
    <3>2. b \in Seq(Nat) /\ Len(b) = (Len(q) + 1) - (i + 1)
          /\ \A j \in 1 .. (Len(q) + 1) - (i + 1) : b[j] = q[((i + 1) - 1) + j]
      <4>1. i + 1 \in Nat /\ Len(q) \in Nat /\ 1 <= i + 1 /\ i + 1 <= Len(q) + 1 /\ Len(q) <= Len(q)
        OBVIOUS
      <4> QED BY <2>2, <4>1, PartFacts
    <3>3. (i + 1) - 1 = i /\ (Len(q) + 1) - (i + 1) = Len(q) - i /\ \A j \in Nat : (1 - 1) + j = j
      OBVIOUS
    <3>4. a \in Seq(Nat) /\ Len(a) = i
      BY <2>1
    <3> QED BY <3>1, <3>2, <3>3, <3>4
  <2>4. PICK c : c = a \o b
    OBVIOUS
  <2>5. c \in Seq(Nat) /\ Len(c) = Len(q)
        /\ (\A j \in 1 .. i : c[j] = q[j]) /\ \A j \in 1 .. Len(q) - i : c[i + j] = q[i + j]
    <3>1. a \in Seq(Nat) /\ b \in Seq(Nat)
      BY <2>3, Zenon
    <3>2. c \in Seq(Nat) /\ Len(c) = Len(a) + Len(b)
      BY <2>4, <3>1, CatFacts
    <3>3. \A j \in 1 .. Len(a) : c[j] = a[j]
      BY <2>4, <3>1, CatFacts
    <3>4. \A j \in 1 .. Len(b) : c[Len(a) + j] = b[j]
      BY <2>4, <3>1, CatFacts
    <3>5. Len(c) = Len(q)
      BY <2>3, <3>2
    <3>6. \A j \in 1 .. i : c[j] = q[j]
      BY <2>3, <3>3, Zenon
    <3>7. \A j \in 1 .. Len(q) - i : c[i + j] = q[i + j]
      BY <2>3, <3>4, Zenon
    <3> QED BY <3>2, <3>5, <3>6, <3>7
  <2>6. \A j \in 1 .. Len(q) : c[j] = q[j]
    <3> SUFFICES ASSUME NEW j \in 1 .. Len(q) PROVE c[j] = q[j]
      OBVIOUS
    <3>1. CASE j <= i
      BY <2>5, <3>1
    <3>2. CASE j > i
      <4>1. j - i \in 1 .. Len(q) - i /\ i + (j - i) = j
        BY <3>2
      <4> QED BY <2>5, <4>1
    <3> QED BY <3>1, <3>2
  <2>7. c = q
    BY <2>5, <2>6, SameSeq
  <2>8. Total(q) = Total(a) + Total(b) /\ Total(a) \in Nat /\ Total(b) \in Nat
    <3>1. a \in Seq(Nat) /\ b \in Seq(Nat) /\ q = a \o b
      BY <2>3, <2>4, <2>7, Zenon
    <3> QED BY <3>1, TotalCat, TotalNat
  <2> QED BY <2>1, <2>8
<1> QED BY <1>1, <1>2, <1>3, TotalEmpty

-----------------------------------------------------------------------------
\* The inductive invariant.

BlockType == [num : Entries, data : Versions \union {Nothing}]
SegType   == [siz : 1 .. Chunk, osz : 1 .. Chunk, inuse : BOOLEAN, data : Versions \union {Nothing}]
EntryType == [flg : SUBSET Flags, siz : 0 .. Chunk, at : (0 .. MaxChunks) \X (0 .. Chunk),
              locks : Nat, seg : Nat]
StateType == [ent : [Entries -> EntryType], heap : Seq(Seq(BlockType)), free : Seq(Entries),
              unused : SUBSET Entries, lru : Seq(Entries), segs : Seq(SegType), room : Int]

\* The flags of a cache entry agree with each other, with its locks and with
\* its segment of the swap file.
EntryGood(e) ==
  /\ "FREE" \in e.flg => e.flg = {"FREE"}
  /\ "PRES" \in e.flg => "REVRT" \notin e.flg /\ "NODISC" \in e.flg
  /\ "LRU" \in e.flg => "PRES" \in e.flg
  /\ "LOCK" \in e.flg => "PRES" \in e.flg
  /\ "LOCK" \in e.flg <=> e.locks > 0
  /\ "PRES" \in e.flg /\ "LOCK" \notin e.flg => "LRU" \in e.flg
  /\ e.seg # NoSeg <=> "NODISC" \in e.flg /\ "PRES" \notin e.flg

\* The blocks of chunk c follow each other from its start to its end.
EndOf(ent, b) == ent[b.num].at[2] + ent[b.num].siz
Chained(ent, blocks, c) ==
  /\ blocks # << >>
  /\ \A i \in 1 .. Len(blocks) : ent[blocks[i].num].at[1] = c /\ ent[blocks[i].num].siz > 0
  /\ ent[blocks[1].num].at[2] = 0
  /\ \A i \in 1 .. Len(blocks) - 1 : ent[blocks[i + 1].num].at[2] = EndOf(ent, blocks[i])
  /\ EndOf(ent, blocks[Len(blocks)]) = Chunk

\* No header is that of two blocks.
Separate(heap) ==
  \A c, d \in 1 .. Len(heap) : \A i \in 1 .. Len(heap[c]), j \in 1 .. Len(heap[d]) :
    heap[c][i].num = heap[d][j].num => c = d /\ i = j

HeapGood(ent, heap) ==
  /\ \A c \in 1 .. Len(heap) : Chained(ent, heap[c], c)
  /\ Separate(heap)

\* Present and free entries are the headers of the blocks.
BlocksOf(heap) == UNION {ToSet(heap[c]) : c \in DOMAIN heap}
InMemory(e) == "PRES" \in e.flg \/ "FREE" \in e.flg
HeadersGood(ent, heap) ==
  \A n \in Entries : InMemory(ent[n]) <=> \E b \in BlocksOf(heap) : b.num = n

\* A list has the entries with the flag f, each once.
ListOf(ent, list, f) ==
  IsInjective(list) /\ \A n \in Entries : n \in ToSet(list) <=> f \in ent[n].flg
ListsGood(ent, free, lru) == ListOf(ent, free, "FREE") /\ ListOf(ent, lru, "LRU")

\* A segment in use that an entry refers to is that of no other entry.
SegsGood(ent, segs) ==
  /\ \A g \in 1 .. Len(segs) : segs[g].osz <= segs[g].siz
  /\ \A n \in Entries : ent[n].seg # NoSeg => ent[n].seg <= Len(segs) /\ segs[ent[n].seg].inuse
  /\ \A n, k \in Entries : ent[n].seg # NoSeg /\ ent[n].seg = ent[k].seg => n = k

Good(s) ==
  /\ s \in StateType
  /\ \A n \in Entries : EntryGood(s.ent[n])
  /\ HeapGood(s.ent, s.heap)
  /\ HeadersGood(s.ent, s.heap)
  /\ ListsGood(s.ent, s.free, s.lru)
  /\ \A n \in s.unused : s.ent[n] = UnusedEntry
  /\ SegsGood(s.ent, s.segs)
  /\ FileSize(s) <= SwapSize
  /\ s.room >= 0 /\ s.heap # << >> /\ s.room + Len(s.heap) <= MaxChunks

\* What the cache manager may not touch when it makes room: entries that are
\* neither free blocks nor unused keep their objects, sizes and locks, and those
\* that are locked their addresses.
Owned(s, n) == n \in Entries /\ n \notin s.unused /\ ~Has(s, n, "FREE")
Kept(s, t, n) ==
  /\ Owned(t, n)
  /\ Stored(t, n) = Stored(s, n)
  /\ t.ent[n].locks = s.ent[n].locks /\ t.ent[n].siz = s.ent[n].siz
  /\ Has(t, n, "REVRT") <=> Has(s, n, "REVRT")
  /\ Has(t, n, "PRES") => Has(s, n, "PRES")
  /\ Has(s, n, "LOCK") => t.ent[n].at = s.ent[n].at
\* No lock is taken but the one of a header that is put to use.
Modest(s, t) == \A n \in Entries : t.ent[n].locks = s.ent[n].locks \/ t.ent[n].locks \in {0, 1}
Keeps(s, t) == (\A n : Owned(s, n) => Kept(s, t, n)) /\ Modest(s, t)
KeepsOthers(s, t, k) == (\A n : Owned(s, n) /\ n # k => Kept(s, t, n)) /\ Modest(s, t)

\* A header that a request has just been given.
Fresh(s, t, n) ==
  /\ n \in Entries /\ ~Owned(s, n) /\ n \notin t.unused
  /\ t.ent[n].flg = {"NODISC", "LOCK", "PRES"} /\ t.ent[n].locks = 1

-----------------------------------------------------------------------------
\* The state of the cache manager.

\* Lemma: the constants are numbers, and the sizes fit a chunk.
LEMMA ConstFacts ==
  /\ Chunk \in Nat /\ MaxChunks \in Nat /\ Split \in Nat /\ MaxLocks \in Nat /\ SwapSize \in Nat
  /\ NumEntries \in Nat /\ Chunk > 0 /\ MaxChunks > 0 /\ Split > 0 /\ MaxLocks > 0
  /\ StaticSize \in 1 .. Chunk /\ \A siz \in Sizes : siz \in 1 .. Chunk
BY CacheAssumption

\* Lemma: the fields of the state.
LEMMA StateFields ==
  ASSUME NEW s \in StateType
  PROVE  /\ s.ent \in [Entries -> EntryType] /\ s.heap \in Seq(Seq(BlockType))
         /\ s.free \in Seq(Entries) /\ s.unused \in SUBSET Entries /\ s.lru \in Seq(Entries)
         /\ s.segs \in Seq(SegType) /\ s.room \in Int
BY DEF StateType

\* Lemma: only the entries changes.
LEMMA WithEnt ==
  ASSUME NEW s \in StateType, NEW x \in [Entries -> EntryType], NEW t, t = [s EXCEPT !.ent = x]
  PROVE  /\ t \in StateType /\ t.ent = x
         /\ t.heap = s.heap /\ t.free = s.free /\ t.unused = s.unused
         /\ t.lru = s.lru /\ t.segs = s.segs /\ t.room = s.room
BY DEF StateType

\* Lemma: only the heap changes.
LEMMA WithHeap ==
  ASSUME NEW s \in StateType, NEW x \in Seq(Seq(BlockType)), NEW t, t = [s EXCEPT !.heap = x]
  PROVE  /\ t \in StateType /\ t.heap = x
         /\ t.ent = s.ent /\ t.free = s.free /\ t.unused = s.unused
         /\ t.lru = s.lru /\ t.segs = s.segs /\ t.room = s.room
BY DEF StateType

\* Lemma: only the free list changes.
LEMMA WithFree ==
  ASSUME NEW s \in StateType, NEW x \in Seq(Entries), NEW t, t = [s EXCEPT !.free = x]
  PROVE  /\ t \in StateType /\ t.free = x
         /\ t.ent = s.ent /\ t.heap = s.heap /\ t.unused = s.unused
         /\ t.lru = s.lru /\ t.segs = s.segs /\ t.room = s.room
BY DEF StateType

\* Lemma: only the LRU list changes.
LEMMA WithLru ==
  ASSUME NEW s \in StateType, NEW x \in Seq(Entries), NEW t, t = [s EXCEPT !.lru = x]
  PROVE  /\ t \in StateType /\ t.lru = x
         /\ t.ent = s.ent /\ t.heap = s.heap /\ t.free = s.free
         /\ t.unused = s.unused /\ t.segs = s.segs /\ t.room = s.room
BY DEF StateType

\* Lemma: only the swap file changes.
LEMMA WithSegs ==
  ASSUME NEW s \in StateType, NEW x \in Seq(SegType), NEW t, t = [s EXCEPT !.segs = x]
  PROVE  /\ t \in StateType /\ t.segs = x
         /\ t.ent = s.ent /\ t.heap = s.heap /\ t.free = s.free
         /\ t.unused = s.unused /\ t.lru = s.lru /\ t.room = s.room
BY DEF StateType

\* Lemma: only the quota of chunks changes.
LEMMA WithRoom ==
  ASSUME NEW s \in StateType, NEW x \in Int, NEW t, t = [s EXCEPT !.room = x]
  PROVE  /\ t \in StateType /\ t.room = x
         /\ t.ent = s.ent /\ t.heap = s.heap /\ t.free = s.free
         /\ t.unused = s.unused /\ t.lru = s.lru /\ t.segs = s.segs
BY DEF StateType

\* Lemma: the fields of an entry.
LEMMA EntryFields ==
  ASSUME NEW s \in StateType, NEW n \in Entries
  PROVE  /\ s.ent[n] \in EntryType
         /\ s.ent[n].flg \in SUBSET Flags /\ s.ent[n].siz \in 0 .. Chunk
         /\ s.ent[n].at \in (0 .. MaxChunks) \X (0 .. Chunk)
         /\ s.ent[n].at[1] \in 0 .. MaxChunks /\ s.ent[n].at[2] \in 0 .. Chunk
         /\ s.ent[n].locks \in Nat /\ s.ent[n].seg \in Nat
<1>1. s.ent[n] \in EntryType
  BY StateFields
<1> QED BY <1>1 DEF EntryType

\* Lemma: an entry is put together from its fields.
LEMMA EntryTyped ==
  ASSUME NEW flg \in SUBSET Flags, NEW siz \in 0 .. Chunk,
         NEW at \in (0 .. MaxChunks) \X (0 .. Chunk), NEW locks \in Nat
  PROVE  /\ Entry(flg, siz, at, locks) \in EntryType
         /\ Entry(flg, siz, at, locks).flg = flg /\ Entry(flg, siz, at, locks).siz = siz
         /\ Entry(flg, siz, at, locks).at = at /\ Entry(flg, siz, at, locks).locks = locks
         /\ Entry(flg, siz, at, locks).seg = NoSeg
BY DEF Entry, EntryType, NoSeg

\* Lemma: an entry that is not used.
LEMMA UnusedEntryFacts ==
  /\ UnusedEntry \in EntryType /\ UnusedEntry.flg = {} /\ UnusedEntry.siz = 0
  /\ UnusedEntry.locks = 0 /\ UnusedEntry.seg = NoSeg /\ EntryGood(UnusedEntry)
<1>1. {} \in SUBSET Flags /\ 0 \in 0 .. Chunk /\ Nowhere \in (0 .. MaxChunks) \X (0 .. Chunk) /\ 0 \in Nat
  BY ConstFacts DEF Nowhere
<1>2. UnusedEntry = Entry({}, 0, Nowhere, 0)
  BY DEF UnusedEntry
<1> QED BY <1>1, <1>2, EntryTyped DEF EntryGood

\* Lemma: the header that is taken is an unused one.
LEMMA UnusedFacts ==
  ASSUME NEW s \in StateType, s.unused # {}
  PROVE  Unused(s) \in s.unused /\ Unused(s) \in Entries
<1>1. s.unused \in SUBSET Nat /\ s.unused \in SUBSET Entries
  BY StateFields DEF Entries
<1>2. \E n \in s.unused : \A k \in s.unused : n <= k
  BY <1>1, InNat!LeastNat
<1> QED BY <1>1, <1>2 DEF Unused

\* Lemma: an unused entry is put to use.
LEMMA UseFacts ==
  ASSUME NEW s \in StateType, NEW n \in Entries, NEW e \in EntryType, NEW t, t = Use(s, n, e)
  PROVE  /\ t \in StateType
         /\ t.ent = [s.ent EXCEPT ![n] = e] /\ t.unused = s.unused \ {n}
         /\ t.heap = s.heap /\ t.free = s.free /\ t.lru = s.lru
         /\ t.segs = s.segs /\ t.room = s.room
BY DEF Use, StateType

\* Lemma: an entry is given back.
LEMMA DisuseFacts ==
  ASSUME NEW s \in StateType, NEW n \in Entries, NEW t, t = Disuse(s, n)
  PROVE  /\ t \in StateType
         /\ t.ent = [s.ent EXCEPT ![n] = UnusedEntry]
         /\ t.unused = s.unused \union {n}
         /\ t.heap = s.heap /\ t.free = s.free /\ t.lru = s.lru
         /\ t.segs = s.segs /\ t.room = s.room
BY UnusedEntryFacts DEF Disuse, StateType

\* Lemma: a block is put in the free list.
LEMMA LinkFreeFacts ==
  ASSUME NEW s \in StateType, NEW n \in Entries, NEW t, t = LinkFree(s, n)
  PROVE  /\ t \in StateType /\ t.free = <<n>> \o s.free
         /\ t.ent = s.ent /\ t.unused = s.unused
         /\ t.heap = s.heap /\ t.lru = s.lru
         /\ t.segs = s.segs /\ t.room = s.room
<1>1. <<n>> \o s.free \in Seq(Entries)
  BY StateFields
<1> QED BY <1>1 DEF LinkFree, StateType

\* Lemma: a block is one at some place.
LEMMA BlocksFacts ==
  ASSUME NEW heap \in Seq(Seq(BlockType))
  PROVE  /\ Len(heap) \in Nat /\ DOMAIN heap = 1 .. Len(heap)
         /\ \A b : b \in BlocksOf(heap) <=>
                     \E c \in 1 .. Len(heap) : \E i \in 1 .. Len(heap[c]) : heap[c][i] = b
         /\ \A c \in 1 .. Len(heap) :
              heap[c] \in Seq(BlockType) /\ Len(heap[c]) \in Nat /\ DOMAIN heap[c] = 1 .. Len(heap[c])
         /\ \A c \in 1 .. Len(heap) : \A i \in 1 .. Len(heap[c]) :
              /\ heap[c][i] \in BlockType /\ heap[c][i].num \in Entries
              /\ heap[c][i].data \in Versions \union {Nothing}
              /\ heap[c][i] = Block(heap[c][i].num, heap[c][i].data)
<1>1. \A c \in 1 .. Len(heap) : heap[c] \in Seq(BlockType)
  OBVIOUS
<1>2. \A c \in 1 .. Len(heap) : \A i \in 1 .. Len(heap[c]) : heap[c][i] \in BlockType
  BY <1>1
<1>3. \A c \in 1 .. Len(heap) : \A b : b \in ToSet(heap[c]) <=> \E i \in 1 .. Len(heap[c]) : heap[c][i] = b
  BY <1>1, ToSetFacts
<1>4. \A b \in BlockType : b.num \in Entries /\ b.data \in Versions \union {Nothing} /\ b = Block(b.num, b.data)
  BY DEF BlockType, Block
<1>5. \A b : b \in BlocksOf(heap) <=> \E c \in 1 .. Len(heap) : b \in ToSet(heap[c])
  <2>1. DOMAIN heap = 1 .. Len(heap)
    OBVIOUS
  <2>2. \A b : b \in BlocksOf(heap) <=> \E c \in DOMAIN heap : b \in ToSet(heap[c])
    BY Zenon DEF BlocksOf
  <2> QED BY <2>1, <2>2, Zenon
<1>6. \A b : b \in BlocksOf(heap) <=> \E c \in 1 .. Len(heap) : \E i \in 1 .. Len(heap[c]) : heap[c][i] = b
  BY <1>3, <1>5
<1> QED BY <1>1, <1>2, <1>4, <1>6

\* Lemma: a header leads to the place of its block.
LEMMA PlaceFacts ==
  ASSUME NEW s \in StateType, Separate(s.heap), NEW c \in 1 .. Len(s.heap), NEW i \in 1 .. Len(s.heap[c])
  PROVE  /\ <<c, i>> \in Places(s)
         /\ PlaceOf(s, s.heap[c][i].num) = <<c, i>> /\ DataOf(s, s.heap[c][i].num) = s.heap[c][i].data
<1>0. s.heap \in Seq(Seq(BlockType))
  BY StateFields
<1>1. \A p : p \in Places(s) <=> \E d \in 1 .. Len(s.heap) : \E j \in 1 .. Len(s.heap[d]) : p = <<d, j>>
  <2>1. DOMAIN s.heap = 1 .. Len(s.heap)
        /\ \A d \in 1 .. Len(s.heap) : DOMAIN s.heap[d] = 1 .. Len(s.heap[d])
    BY <1>0, BlocksFacts
  <2>2. \A p : p \in Places(s) <=> \E d \in DOMAIN s.heap : p \in {d} \X DOMAIN s.heap[d]
    BY Zenon DEF Places
  <2>3. \A p, d : p \in {d} \X DOMAIN s.heap[d] <=> \E j \in DOMAIN s.heap[d] : p = <<d, j>>
    OBVIOUS
  <2>4. \A p : p \in Places(s) <=> \E d \in DOMAIN s.heap : \E j \in DOMAIN s.heap[d] : p = <<d, j>>
    BY <2>2, <2>3
  <2> QED BY <2>1, <2>4
<1>2. <<c, i>> \in Places(s)
  BY <1>1
<1>3. \A p \in Places(s) : s.heap[p[1]][p[2]].num = s.heap[c][i].num => p = <<c, i>>
  BY <1>1 DEF Separate
<1>4. PlaceOf(s, s.heap[c][i].num) = <<c, i>>
  <2>1. s.heap[<<c, i>>[1]][<<c, i>>[2]].num = s.heap[c][i].num
    OBVIOUS
  <2> QED BY <1>2, <1>3, <2>1 DEF PlaceOf
<1> QED BY <1>2, <1>4 DEF DataOf

\* Lemma: so does the header of a block that is known by itself.
LEMMA DataFacts ==
  ASSUME NEW s \in StateType, Separate(s.heap), NEW b \in BlocksOf(s.heap)
  PROVE  DataOf(s, b.num) = b.data
<1>1. s.heap \in Seq(Seq(BlockType))
  BY StateFields
<1>2. PICK c \in 1 .. Len(s.heap) : \E i \in 1 .. Len(s.heap[c]) : s.heap[c][i] = b
  BY <1>1, BlocksFacts
<1>3. PICK i \in 1 .. Len(s.heap[c]) : s.heap[c][i] = b
  BY <1>2
<1>4. DataOf(s, s.heap[c][i].num) = s.heap[c][i].data
  BY PlaceFacts
<1> QED BY <1>3, <1>4

\* Lemma: an entry in memory has a place.
LEMMA HeaderPlace ==
  ASSUME NEW s, Good(s), NEW n \in Entries, Has(s, n, "PRES") \/ Has(s, n, "FREE")
  PROVE  \E c \in 1 .. Len(s.heap) : \E i \in 1 .. Len(s.heap[c]) :
           s.heap[c][i].num = n /\ PlaceOf(s, n) = <<c, i>> /\ DataOf(s, n) = s.heap[c][i].data
<1>1. s \in StateType /\ Separate(s.heap) /\ HeadersGood(s.ent, s.heap)
  BY DEF Good, HeapGood
<1>2. PICK b \in BlocksOf(s.heap) : b.num = n
  BY <1>1 DEF HeadersGood, InMemory, Has
<1>3. PICK c \in 1 .. Len(s.heap) : \E i \in 1 .. Len(s.heap[c]) : s.heap[c][i] = b
  BY <1>1, StateFields, BlocksFacts
<1>4. PICK i \in 1 .. Len(s.heap[c]) : s.heap[c][i] = b
  BY <1>3
<1>5. PlaceOf(s, s.heap[c][i].num) = <<c, i>> /\ DataOf(s, s.heap[c][i].num) = s.heap[c][i].data
  BY <1>1, PlaceFacts
<1> QED BY <1>2, <1>4, <1>5

\* Lemma: and the block at a place is that of an entry in memory.
LEMMA PlaceHeader ==
  ASSUME NEW s, Good(s), NEW c \in 1 .. Len(s.heap), NEW i \in 1 .. Len(s.heap[c])
  PROVE  /\ s.heap[c][i].num \in Entries
         /\ Has(s, s.heap[c][i].num, "PRES") \/ Has(s, s.heap[c][i].num, "FREE")
         /\ s.heap[c][i].num \notin s.unused
<1>1. s \in StateType /\ HeadersGood(s.ent, s.heap)
  BY DEF Good
<1>2. s.heap[c][i] \in BlocksOf(s.heap) /\ s.heap[c][i].num \in Entries
  BY <1>1, StateFields, BlocksFacts
<1>3. Has(s, s.heap[c][i].num, "PRES") \/ Has(s, s.heap[c][i].num, "FREE")
  BY <1>1, <1>2 DEF HeadersGood, InMemory, Has
<1> QED BY <1>2, <1>3, UnusedEntryFacts DEF Good, Has

-----------------------------------------------------------------------------
\* Chunks: blocks that follow each other, and the sums of their sizes.

\* Lemma: the sizes of some blocks, and of the first of them.
LEMMA SizesFacts ==
  ASSUME NEW s \in StateType, NEW blocks \in Seq(BlockType)
  PROVE  /\ SizesOf(s, blocks) \in Seq(Nat) /\ Len(SizesOf(s, blocks)) = Len(blocks)
         /\ \A i \in 1 .. Len(blocks) : SizesOf(s, blocks)[i] = s.ent[blocks[i].num].siz
         /\ \A i \in 0 .. Len(blocks) :
              SizesOf(s, SubSeq(blocks, 1, i)) = SubSeq(SizesOf(s, blocks), 1, i)
<1>1. \A i \in 1 .. Len(blocks) : blocks[i].num \in Entries
  <2>1. \A i \in 1 .. Len(blocks) : blocks[i] \in BlockType
    OBVIOUS
  <2> QED BY <2>1 DEF BlockType
<1>2. \A n \in Entries : s.ent[n].siz \in Nat
  BY EntryFields, ConstFacts
<1>3. PICK q : q = SizesOf(s, blocks)
  OBVIOUS
<1>4. q \in Seq(Nat) /\ Len(q) = Len(blocks)
      /\ \A i \in 1 .. Len(blocks) : q[i] = s.ent[blocks[i].num].siz
  BY <1>1, <1>2, <1>3, SMTT(20) DEF SizesOf
<1>5. ASSUME NEW i \in 0 .. Len(blocks)
      PROVE  SizesOf(s, SubSeq(blocks, 1, i)) = SubSeq(q, 1, i)
  <2>1. PICK a : a = SubSeq(blocks, 1, i)
    OBVIOUS
  <2>2. a \in Seq(BlockType) /\ Len(a) = i /\ \A j \in 1 .. i : a[j] = blocks[j]
    BY <2>1
  <2>3. PICK b : b = SubSeq(q, 1, i)
    OBVIOUS
  <2>4. b \in Seq(Nat) /\ Len(b) = i /\ \A j \in 1 .. i : b[j] = q[j]
    BY <1>4, <2>3
  <2>5. PICK d : d = SizesOf(s, a)
    OBVIOUS
  <2>6. \A j \in 1 .. i : blocks[j].num \in Entries /\ q[j] = s.ent[blocks[j].num].siz
    BY <1>1, <1>4
  <2>7. d \in Seq(Nat) /\ Len(d) = i /\ \A j \in 1 .. i : d[j] = q[j]
    BY <1>2, <2>2, <2>5, <2>6 DEF SizesOf
  <2>8. d = b
    BY <2>4, <2>7, SameSeq
  <2> QED BY <2>1, <2>3, <2>5, <2>8
<1> QED BY <1>3, <1>4, <1>5

\* Lemma: where blocks begin that are laid one after the other.
LEMMA Offsets ==
  ASSUME NEW s \in StateType, NEW blocks \in Seq(BlockType)
  PROVE  \E o : /\ \A i \in 0 .. Len(blocks) :
                      /\ o[i] = SizeOfBlocks(s, SubSeq(blocks, 1, i))
                      /\ o[i] \in Nat /\ o[i] <= o[Len(blocks)]
                /\ o[0] = 0 /\ o[Len(blocks)] = SizeOfBlocks(s, blocks)
                /\ \A i \in 1 .. Len(blocks) : o[i] = o[i - 1] + s.ent[blocks[i].num].siz
<1>4. PICK q : q = SizesOf(s, blocks)
  OBVIOUS
<1>5. q \in Seq(Nat)
  BY <1>4, SizesFacts
<1>6. /\ Len(q) = Len(blocks) /\ (\A i \in 1 .. Len(blocks) : q[i] = s.ent[blocks[i].num].siz)
      /\ \A i \in 0 .. Len(blocks) : SizesOf(s, SubSeq(blocks, 1, i)) = SubSeq(q, 1, i)
  BY <1>4, SizesFacts
<1>7. /\ Total(SubSeq(q, 1, 0)) = 0
      /\ \A i \in 1 .. Len(q) : Total(SubSeq(q, 1, i)) = Total(SubSeq(q, 1, i - 1)) + q[i]
      /\ SubSeq(q, 1, Len(q)) = q
      /\ \A i \in 0 .. Len(q) : Total(SubSeq(q, 1, i)) \in Nat /\ Total(SubSeq(q, 1, i)) <= Total(q)
  BY <1>5, TotalPrefix
<1>8. PICK o : o = [i \in 0 .. Len(blocks) |-> Total(SubSeq(q, 1, i))]
  OBVIOUS
<1>9. \A i \in 0 .. Len(blocks) : o[i] = Total(SubSeq(q, 1, i))
  BY <1>8
<1>10. Len(blocks) \in Nat
  OBVIOUS
<1>11. o[0] = 0 /\ o[Len(blocks)] = SizeOfBlocks(s, blocks) /\ o[Len(blocks)] = Total(q)
  <2>1. 0 \in 0 .. Len(blocks) /\ Len(blocks) \in 0 .. Len(blocks)
    BY <1>10
  <2>2. o[0] = Total(SubSeq(q, 1, 0)) /\ o[Len(blocks)] = Total(SubSeq(q, 1, Len(blocks)))
    BY <1>9, <2>1
  <2>3. SizeOfBlocks(s, blocks) = Total(q)
    BY <1>4 DEF SizeOfBlocks
  <2>4. Total(SubSeq(q, 1, Len(blocks))) = Total(q)
    BY <1>6, <1>7, Zenon
  <2> QED BY <1>7, <2>2, <2>3, <2>4, Zenon
<1>12. ASSUME NEW i \in 1 .. Len(blocks) PROVE o[i] = o[i - 1] + s.ent[blocks[i].num].siz
  <2>1. i - 1 \in 0 .. Len(blocks) /\ i \in 0 .. Len(blocks)
    BY <1>10
  <2>2. o[i] = Total(SubSeq(q, 1, i)) /\ o[i - 1] = Total(SubSeq(q, 1, i - 1))
    BY <1>9, <2>1
  <2>3. Total(SubSeq(q, 1, i)) = Total(SubSeq(q, 1, i - 1)) + q[i]
    BY <1>6, <1>7, Zenon
  <2>4. q[i] = s.ent[blocks[i].num].siz
    BY <1>6
  <2> QED BY <2>2, <2>3, <2>4, Zenon
<1>13. ASSUME NEW i \in 0 .. Len(blocks)
       PROVE  o[i] = SizeOfBlocks(s, SubSeq(blocks, 1, i)) /\ o[i] \in Nat /\ o[i] <= o[Len(blocks)]
  <2>1. o[i] = Total(SubSeq(q, 1, i))
    BY <1>9
  <2>2. SizeOfBlocks(s, SubSeq(blocks, 1, i)) = Total(SubSeq(q, 1, i))
    BY <1>6, Zenon DEF SizeOfBlocks
  <2>3. Total(SubSeq(q, 1, i)) \in Nat /\ Total(SubSeq(q, 1, i)) <= Total(q)
    BY <1>6, <1>7, Zenon
  <2> QED BY <1>11, <2>1, <2>2, <2>3
<1> QED BY <1>11, <1>12, <1>13

\* Lemma: blocks that follow each other are where the sizes of those before them
\* add up to, and fill the chunk.
LEMMA ChainSums ==
  ASSUME NEW s \in StateType, NEW c \in 1 .. Len(s.heap), Chained(s.ent, s.heap[c], c)
  PROVE  /\ SizeOfBlocks(s, s.heap[c]) = Chunk
         /\ \A i \in 1 .. Len(s.heap[c]) : s.ent[s.heap[c][i].num].at = Address(s, c, i)
<1>1. PICK blocks : blocks = s.heap[c]
  OBVIOUS
<1>2. blocks \in Seq(BlockType) /\ Len(blocks) \in Nat /\ Len(blocks) >= 1
  <2>1. blocks \in Seq(BlockType) /\ blocks # << >>
    BY <1>1, StateFields, BlocksFacts DEF Chained
  <2> QED BY <2>1
<1>3. \A i \in 1 .. Len(blocks) : blocks[i].num \in Entries
  BY <1>1, StateFields, BlocksFacts
<1>7. PICK o : /\ \A i \in 0 .. Len(blocks) :
                    /\ o[i] = SizeOfBlocks(s, SubSeq(blocks, 1, i))
                    /\ o[i] \in Nat /\ o[i] <= o[Len(blocks)]
               /\ o[0] = 0 /\ o[Len(blocks)] = SizeOfBlocks(s, blocks)
               /\ \A i \in 1 .. Len(blocks) : o[i] = o[i - 1] + s.ent[blocks[i].num].siz
  BY <1>2, Offsets
<1>8. /\ \A i \in 1 .. Len(blocks) : s.ent[blocks[i].num].at[1] = c
      /\ s.ent[blocks[1].num].at[2] = 0
      /\ \A i \in 1 .. Len(blocks) - 1 :
           s.ent[blocks[i + 1].num].at[2] = s.ent[blocks[i].num].at[2] + s.ent[blocks[i].num].siz
      /\ s.ent[blocks[Len(blocks)].num].at[2] + s.ent[blocks[Len(blocks)].num].siz = Chunk
  BY <1>1 DEF Chained, EndOf
<1> DEFINE G == {k \in 0 .. Len(blocks) - 1 : s.ent[blocks[k + 1].num].at[2] = o[k]}
<1>9. 0 \in G
  BY <1>2, <1>7, <1>8
<1>10. ASSUME NEW k \in 0 .. (Len(blocks) - 1) - 1, k \in G PROVE k + 1 \in G
  <2>1. k + 1 \in 1 .. Len(blocks) - 1 /\ k + 1 \in 1 .. Len(blocks) /\ (k + 1) - 1 = k
    BY <1>2
  <2>2. s.ent[blocks[(k + 1) + 1].num].at[2] = s.ent[blocks[k + 1].num].at[2] + s.ent[blocks[k + 1].num].siz
    BY <1>8, <2>1
  <2>3. o[k + 1] = o[k] + s.ent[blocks[k + 1].num].siz
    BY <1>7, <2>1
  <2> QED BY <1>10, <2>1, <2>2, <2>3
<1> HIDE DEF G
<1>11. 0 .. Len(blocks) - 1 \subseteq G
  <2>1. Len(blocks) - 1 \in Nat
    BY <1>2
  <2> QED BY <1>9, <1>10, <2>1, InNat!UpToInSet
<1>12. ASSUME NEW i \in 1 .. Len(blocks) PROVE s.ent[blocks[i].num].at = Address(s, c, i)
  <2>1. i - 1 \in G /\ (i - 1) + 1 = i /\ i - 1 \in 0 .. Len(blocks)
    BY <1>11
  <2>2. s.ent[blocks[i].num].at[2] = o[i - 1]
    BY <2>1 DEF G
  <2>3. s.ent[blocks[i].num].at = <<s.ent[blocks[i].num].at[1], s.ent[blocks[i].num].at[2]>>
    BY <1>3, EntryFields
  <2>4. o[i - 1] = SizeOfBlocks(s, SubSeq(blocks, 1, i - 1))
    BY <1>7, <2>1
  <2> QED BY <1>1, <1>8, <2>2, <2>3, <2>4 DEF Address
<1>13. SizeOfBlocks(s, blocks) = Chunk
  <2>1. Len(blocks) - 1 \in G /\ Len(blocks) \in 1 .. Len(blocks) /\ (Len(blocks) - 1) + 1 = Len(blocks)
    BY <1>2, <1>11
  <2>2. s.ent[blocks[Len(blocks)].num].at[2] = o[Len(blocks) - 1]
    BY <2>1 DEF G
  <2>3. o[Len(blocks)] = Chunk
    BY <1>7, <1>8, <2>1, <2>2
  <2> QED BY <1>7, <2>3
<1> QED BY <1>1, <1>12, <1>13

\* Lemma: the other way round.
LEMMA SumsChain ==
  ASSUME NEW s \in StateType, NEW c \in 1 .. Len(s.heap), s.heap[c] # << >>,
         SizeOfBlocks(s, s.heap[c]) = Chunk,
         \A i \in 1 .. Len(s.heap[c]) : /\ s.ent[s.heap[c][i].num].at = Address(s, c, i)
                                        /\ s.ent[s.heap[c][i].num].siz > 0
  PROVE  Chained(s.ent, s.heap[c], c)
<1>1. PICK blocks : blocks = s.heap[c]
  OBVIOUS
<1>2. blocks \in Seq(BlockType) /\ Len(blocks) \in Nat /\ Len(blocks) >= 1
  <2>1. blocks \in Seq(BlockType) /\ blocks # << >>
    BY <1>1, StateFields, BlocksFacts
  <2> QED BY <2>1
<1>7. PICK o : /\ \A i \in 0 .. Len(blocks) :
                    /\ o[i] = SizeOfBlocks(s, SubSeq(blocks, 1, i))
                    /\ o[i] \in Nat /\ o[i] <= o[Len(blocks)]
               /\ o[0] = 0 /\ o[Len(blocks)] = SizeOfBlocks(s, blocks)
               /\ \A i \in 1 .. Len(blocks) : o[i] = o[i - 1] + s.ent[blocks[i].num].siz
  BY <1>2, Offsets
<1>8. ASSUME NEW i \in 1 .. Len(blocks)
      PROVE  s.ent[blocks[i].num].at[1] = c /\ s.ent[blocks[i].num].at[2] = o[i - 1]
  <2>1. i - 1 \in 0 .. Len(blocks)
    OBVIOUS
  <2>2. o[i - 1] = SizeOfBlocks(s, SubSeq(blocks, 1, i - 1))
    BY <1>7, <2>1
  <2>3. Address(s, c, i) = <<c, o[i - 1]>>
    BY <1>1, <2>2 DEF Address
  <2> QED BY <1>1, <2>3, SMTT(20)
<1>9. o[Len(blocks)] = Chunk
  BY <1>1, <1>7
<1>10. 1 \in 1 .. Len(blocks) /\ Len(blocks) \in 1 .. Len(blocks) /\ 1 - 1 = 0
  BY <1>2
<1>11. \A i \in 1 .. Len(blocks) - 1 :
         s.ent[blocks[i + 1].num].at[2] = s.ent[blocks[i].num].at[2] + s.ent[blocks[i].num].siz
  <2> SUFFICES ASSUME NEW i \in 1 .. Len(blocks) - 1
               PROVE  s.ent[blocks[i + 1].num].at[2] = s.ent[blocks[i].num].at[2] + s.ent[blocks[i].num].siz
    OBVIOUS
  <2>1. i \in 1 .. Len(blocks) /\ i + 1 \in 1 .. Len(blocks) /\ (i + 1) - 1 = i
    BY <1>2
  <2>2. s.ent[blocks[i + 1].num].at[2] = o[i]
    BY <1>8, <2>1
  <2> QED BY <1>7, <1>8, <2>1, <2>2
<1>12. s.ent[blocks[1].num].at[2] = 0
  BY <1>7, <1>8, <1>10
<1>13. s.ent[blocks[Len(blocks)].num].at[2] + s.ent[blocks[Len(blocks)].num].siz = Chunk
  BY <1>7, <1>8, <1>9, <1>10
<1> QED BY <1>1, <1>8, <1>11, <1>12, <1>13 DEF Chained, EndOf

\* The header k of one heap has the place of n in another.
SamePlace(ent, tne, n, k) == tne[n].at = ent[k].at /\ tne[n].siz = ent[k].siz
Distinct(blocks) == \A i, j \in 1 .. Len(blocks) : blocks[i].num = blocks[j].num => i = j

\* The blocks are strangers to the other chunks, whose blocks stay where they are.
Apart(heap, c, blocks) ==
  \A d \in 1 .. Len(heap) : d # c => \A j \in 1 .. Len(heap[d]) :
    \A i \in 1 .. Len(blocks) : blocks[i].num # heap[d][j].num
OthersStay(ent, tne, heap, c) ==
  \A d \in 1 .. Len(heap) : d # c => \A j \in 1 .. Len(heap[d]) :
    SamePlace(ent, tne, heap[d][j].num, heap[d][j].num)

\* Lemma: a chain stays one when none of its blocks moves.
LEMMA ChainStays ==
  ASSUME NEW ent, NEW tne, NEW c, NEW old \in Seq(BlockType), NEW new \in Seq(BlockType),
         Chained(ent, old, c), Len(new) = Len(old),
         \A i \in 1 .. Len(old) : SamePlace(ent, tne, new[i].num, old[i].num)
  PROVE  Chained(tne, new, c)
<1>1. Len(old) \in Nat /\ Len(old) >= 1 /\ new # << >>
  <2>1. old # << >>
    BY DEF Chained
  <2> QED BY <2>1
<1>2. \A i \in 1 .. Len(old) : /\ tne[new[i].num].at = ent[old[i].num].at
                               /\ tne[new[i].num].siz = ent[old[i].num].siz
  BY DEF SamePlace
<1>3. 1 \in 1 .. Len(old) /\ Len(old) \in 1 .. Len(old)
      /\ \A i \in 1 .. Len(old) - 1 : i \in 1 .. Len(old) /\ i + 1 \in 1 .. Len(old)
  BY <1>1
<1> QED BY <1>1, <1>2, <1>3 DEF Chained, EndOf

\* Chunk c has other blocks; the heap remains good.
Replaced(tne, heap, c, blocks) ==
  LET new == [heap EXCEPT ![c] = blocks]
  IN  /\ new \in Seq(Seq(BlockType)) /\ Len(new) = Len(heap) /\ HeapGood(tne, new)
      /\ \A b : b \in BlocksOf(new) <=>
                  \/ \E i \in 1 .. Len(blocks) : blocks[i] = b
                  \/ \E d \in 1 .. Len(heap) : d # c /\ \E j \in 1 .. Len(heap[d]) : heap[d][j] = b

\* Lemma: the blocks of one chunk are replaced.
LEMMA RewriteChunk ==
  ASSUME NEW ent, NEW tne, NEW heap \in Seq(Seq(BlockType)), HeapGood(ent, heap),
         NEW c \in 1 .. Len(heap), NEW blocks \in Seq(BlockType), Chained(tne, blocks, c),
         Distinct(blocks), Apart(heap, c, blocks), OthersStay(ent, tne, heap, c)
  PROVE  Replaced(tne, heap, c, blocks)
<1>1. PICK new : new = [heap EXCEPT ![c] = blocks]
  OBVIOUS
<1>2. new \in Seq(Seq(BlockType))
  BY <1>1
<1>20. Len(new) = Len(heap) /\ new[c] = blocks /\ \A d \in 1 .. Len(heap) : d # c => new[d] = heap[d]
  BY <1>1
<1>3. ASSUME NEW d \in 1 .. Len(heap), d # c PROVE Chained(tne, new[d], d)
  <2>1. Chained(ent, heap[d], d) /\ heap[d] \in Seq(BlockType) /\ new[d] = heap[d]
    BY <1>20, <1>3, BlocksFacts DEF HeapGood
  <2>2. \A i \in 1 .. Len(heap[d]) : SamePlace(ent, tne, heap[d][i].num, heap[d][i].num)
    BY <1>3 DEF OthersStay
  <2> QED BY <2>1, <2>2, ChainStays
<1>4. \A d \in 1 .. Len(new) : Chained(tne, new[d], d)
  BY <1>20, <1>3
<1>5. Separate(new)
  <2> SUFFICES ASSUME NEW d \in 1 .. Len(heap), NEW e \in 1 .. Len(heap),
                      NEW i \in 1 .. Len(new[d]), NEW j \in 1 .. Len(new[e]),
                      new[d][i].num = new[e][j].num
               PROVE  d = e /\ i = j
    BY <1>20 DEF Separate
  <2>1. CASE d = c /\ e = c
    BY <1>20, <2>1 DEF Distinct
  <2>2. CASE d = c /\ e # c
    BY <1>20, <2>2 DEF Apart
  <2>3. CASE d # c /\ e = c
    BY <1>20, <2>3 DEF Apart
  <2>4. CASE d # c /\ e # c
    BY <1>20, <2>4, SMTT(20) DEF HeapGood, Separate
  <2> QED BY <2>1, <2>2, <2>3, <2>4
<1>6. ASSUME NEW b
      PROVE  b \in BlocksOf(new) <=>
               \/ \E i \in 1 .. Len(blocks) : blocks[i] = b
               \/ \E d \in 1 .. Len(heap) : d # c /\ \E j \in 1 .. Len(heap[d]) : heap[d][j] = b
  <2>1. b \in BlocksOf(new) <=> \E d \in 1 .. Len(new) : \E i \in 1 .. Len(new[d]) : new[d][i] = b
    BY <1>2, BlocksFacts
  <2> QED BY <1>20, <2>1
<1>7. HeapGood(tne, new)
  BY <1>4, <1>5 DEF HeapGood
<1> QED BY <1>1, <1>2, <1>20, <1>6, <1>7, Zenon DEF Replaced

\* Lemma: blocks change their headers or data, not their places.
LEMMA RelabelHeap ==
  ASSUME NEW ent, NEW tne, NEW heap \in Seq(Seq(BlockType)), HeapGood(ent, heap),
         NEW new \in Seq(Seq(BlockType)), Len(new) = Len(heap), Separate(new),
         \A c \in 1 .. Len(heap) : Len(new[c]) = Len(heap[c]),
         \A c \in 1 .. Len(heap) : \A i \in 1 .. Len(heap[c]) :
           SamePlace(ent, tne, new[c][i].num, heap[c][i].num)
  PROVE  HeapGood(tne, new)
<1>1. ASSUME NEW d \in 1 .. Len(heap) PROVE Chained(tne, new[d], d)
  <2>1. Chained(ent, heap[d], d) /\ heap[d] \in Seq(BlockType)
    BY BlocksFacts DEF HeapGood
  <2>2. new[d] \in Seq(BlockType) /\ Len(new[d]) = Len(heap[d])
    BY BlocksFacts
  <2> QED BY <2>1, <2>2, ChainStays
<1> QED BY <1>1 DEF HeapGood

\* n blocks of sizes v that begin at u fill a chunk.
Laid(u, v, n) ==
  /\ n >= 1 /\ u \in [1 .. n -> Nat] /\ v \in [1 .. n -> Nat]
  /\ u[1] = 0 /\ \A i \in 1 .. n - 1 : u[i + 1] = u[i] + v[i]
  /\ u[n] + v[n] = Chunk /\ \A i \in 1 .. n : v[i] > 0
LaidAt(ent, blocks, c, u, v) ==
  \A i \in 1 .. Len(blocks) : /\ ent[blocks[i].num].at[1] = c /\ ent[blocks[i].num].at[2] = u[i]
                              /\ ent[blocks[i].num].siz = v[i]

NumbersIn(ent, blocks) ==
  \A i \in 1 .. Len(blocks) : ent[blocks[i].num].at[2] \in Nat /\ ent[blocks[i].num].siz \in Nat
StayBut(ent, tne, blocks, edited) ==
  \A i \in 1 .. Len(blocks) : i \notin edited => SamePlace(ent, tne, blocks[i].num, blocks[i].num)

\* How that changes when block p is split, or takes over the one behind it.
SplitStarts(u, n, p, siz, a) ==
  a = [i \in 1 .. n + 1 |-> IF i <= p THEN u[i] ELSE IF i = p + 1 THEN u[p] + siz ELSE u[i - 1]]
SplitSizes(v, n, p, siz, rest, z) ==
  z = [i \in 1 .. n + 1 |-> IF i < p THEN v[i] ELSE IF i = p THEN siz
                            ELSE IF i = p + 1 THEN rest ELSE v[i - 1]]
AnnexStarts(u, n, p, a) == a = [i \in 1 .. n - 1 |-> IF i <= p THEN u[i] ELSE u[i + 1]]
AnnexSizes(v, n, p, z) ==
  z = [i \in 1 .. n - 1 |-> IF i < p THEN v[i] ELSE IF i = p THEN v[p] + v[p + 1] ELSE v[i + 1]]

\* Lemma: the offsets and sizes of a chain.
LEMMA ChainLaid ==
  ASSUME NEW ent, NEW c, NEW blocks \in Seq(BlockType), Chained(ent, blocks, c),
         NumbersIn(ent, blocks)
  PROVE  \E u, v : Laid(u, v, Len(blocks)) /\ LaidAt(ent, blocks, c, u, v)
<1>1. Len(blocks) \in Nat /\ Len(blocks) >= 1
  <2>1. blocks # << >>
    BY DEF Chained
  <2> QED BY <2>1
<1>2. PICK u : u = [i \in 1 .. Len(blocks) |-> ent[blocks[i].num].at[2]]
  OBVIOUS
<1>3. PICK v : v = [i \in 1 .. Len(blocks) |-> ent[blocks[i].num].siz]
  OBVIOUS
<1>4. u \in [1 .. Len(blocks) -> Nat] /\ v \in [1 .. Len(blocks) -> Nat]
  BY <1>2, <1>3 DEF NumbersIn
<1>5. \A i \in 1 .. Len(blocks) : u[i] = ent[blocks[i].num].at[2] /\ v[i] = ent[blocks[i].num].siz
  BY <1>2, <1>3
<1>6. LaidAt(ent, blocks, c, u, v)
  BY <1>5 DEF LaidAt, Chained
<1>7. 1 \in 1 .. Len(blocks) /\ Len(blocks) \in 1 .. Len(blocks)
      /\ \A i \in 1 .. Len(blocks) - 1 : i \in 1 .. Len(blocks) /\ i + 1 \in 1 .. Len(blocks)
  BY <1>1
<1>8. Laid(u, v, Len(blocks))
  BY <1>1, <1>4, <1>5, <1>7 DEF Laid, Chained, EndOf
<1> QED BY <1>6, <1>8

\* Lemma: what has such offsets and sizes is a chain.
LEMMA LaidChain ==
  ASSUME NEW ent, NEW c, NEW blocks \in Seq(BlockType), NEW u, NEW v,
         Laid(u, v, Len(blocks)), LaidAt(ent, blocks, c, u, v)
  PROVE  Chained(ent, blocks, c)
<1>1. Len(blocks) \in Nat /\ Len(blocks) >= 1
  BY DEF Laid
<1>2. blocks # << >>
  BY <1>1
<1>7. 1 \in 1 .. Len(blocks) /\ Len(blocks) \in 1 .. Len(blocks)
      /\ \A i \in 1 .. Len(blocks) - 1 : i \in 1 .. Len(blocks) /\ i + 1 \in 1 .. Len(blocks)
  BY <1>1
<1> QED BY <1>2, <1>7, SMTT(20) DEF Laid, LaidAt, Chained, EndOf

\* Lemma: a block of such a layout is split.
LEMMA SplitLaid ==
  ASSUME NEW n \in Nat, NEW p \in 1 .. n, NEW u, NEW v, Laid(u, v, n),
         NEW siz \in Nat, siz > 0, NEW rest \in Nat, rest > 0, v[p] = siz + rest,
         NEW a, NEW z, SplitStarts(u, n, p, siz, a), SplitSizes(v, n, p, siz, rest, z)
  PROVE  Laid(a, z, n + 1)
<1>d. /\ n >= 1 /\ u \in [1 .. n -> Nat] /\ v \in [1 .. n -> Nat]
      /\ u[1] = 0 /\ \A i \in 1 .. n - 1 : u[i + 1] = u[i] + v[i]
      /\ u[n] + v[n] = Chunk /\ \A i \in 1 .. n : v[i] > 0
  BY DEF Laid
<1>a. a = [i \in 1 .. n + 1 |-> IF i <= p THEN u[i] ELSE IF i = p + 1 THEN u[p] + siz ELSE u[i - 1]]
  BY DEF SplitStarts
<1>b. z = [i \in 1 .. n + 1 |-> IF i < p THEN v[i] ELSE IF i = p THEN siz
                               ELSE IF i = p + 1 THEN rest ELSE v[i - 1]]
  BY DEF SplitSizes
<1>c. v[p] = siz + rest /\ p \in 1 .. n
  OBVIOUS
<1>1. a \in [1 .. n + 1 -> Nat] /\ z \in [1 .. n + 1 -> Nat] /\ \A i \in 1 .. n + 1 : z[i] > 0
  BY <1>a, <1>b, <1>c, <1>d, SMTT(20)
<1>2. \A i \in 1 .. n + 1 :
        /\ a[i] = IF i <= p THEN u[i] ELSE IF i = p + 1 THEN u[p] + siz ELSE u[i - 1]
        /\ z[i] = IF i < p THEN v[i] ELSE IF i = p THEN siz
                                       ELSE IF i = p + 1 THEN rest ELSE v[i - 1]
  BY <1>a, <1>b
<1>3. ASSUME NEW i \in 1 .. n PROVE a[i + 1] = a[i] + z[i]
  <2>0. i \in 1 .. n + 1 /\ i + 1 \in 1 .. n + 1
    OBVIOUS
  <2>1. CASE i < p
    <3>1. a[i] = u[i] /\ a[i + 1] = u[i + 1] /\ z[i] = v[i] /\ i \in 1 .. n - 1
      BY <1>c, <1>2, <2>0, <2>1
    <3> QED BY <1>d, <3>1
  <2>2. CASE i = p
    BY <1>c, <1>d, <1>2, <2>0, <2>2
  <2>3. CASE i = p + 1
    <3>1. a[i] = u[p] + siz /\ a[i + 1] = u[p + 1] /\ z[i] = rest /\ p \in 1 .. n - 1
      BY <1>c, <1>2, <2>0, <2>3
    <3> QED BY <1>c, <1>d, <3>1
  <2>4. CASE i > p + 1
    <3>1. a[i] = u[i - 1] /\ a[i + 1] = u[i] /\ z[i] = v[i - 1] /\ i - 1 \in 1 .. n - 1 /\ (i - 1) + 1 = i
      BY <1>c, <1>2, <2>0, <2>4
    <3> QED BY <1>d, <3>1
  <2> QED BY <1>c, <2>1, <2>2, <2>3, <2>4
<1>4. a[1] = 0
  BY <1>c, <1>d, <1>2
<1>5. a[n + 1] + z[n + 1] = Chunk
  <2>1. CASE p = n
    <3>1. a[n + 1] = u[n] + siz /\ z[n + 1] = rest
      BY <1>c, <1>2, <2>1
    <3> QED BY <1>c, <1>d, <2>1, <3>1
  <2>2. CASE p # n
    <3>1. a[n + 1] = u[n] /\ z[n + 1] = v[n]
      BY <1>c, <1>2, <2>2
    <3> QED BY <1>d, <3>1
  <2> QED BY <2>1, <2>2
<1>16. n + 1 >= 1 /\ (n + 1) - 1 = n
  OBVIOUS
<1> QED BY <1>1, <1>3, <1>4, <1>5, <1>16 DEF Laid

\* Lemma: a block is split; the header of b gets the rest of it.
LEMMA ChainSplit ==
  ASSUME NEW ent, NEW tne, NEW c, NEW old \in Seq(BlockType), Chained(ent, old, c),
         NEW p \in 1 .. Len(old), NEW b \in BlockType, NEW siz \in Nat, siz > 0,
         NEW rest \in Nat, rest > 0, ent[old[p].num].siz = siz + rest,
         NumbersIn(ent, old), StayBut(ent, tne, old, {p}),
         tne[old[p].num].at = ent[old[p].num].at, tne[old[p].num].siz = siz,
         tne[b.num].at[1] = c, tne[b.num].at[2] = ent[old[p].num].at[2] + siz,
         tne[b.num].siz = rest
  PROVE  Chained(tne, InsertAt(old, p + 1, b), c)
<1>1. PICK new : new = InsertAt(old, p + 1, b)
  OBVIOUS
<1>2. new \in Seq(BlockType) /\ Len(new) = Len(old) + 1
  BY <1>1, InsertFacts
<1>3. \A i \in 1 .. Len(old) + 1 :
        new[i] = IF i <= p THEN old[i] ELSE IF i = p + 1 THEN b ELSE old[i - 1]
  BY <1>1, InsertFacts, SMTT(20)
<1>4. PICK u, v : Laid(u, v, Len(old)) /\ LaidAt(ent, old, c, u, v)
  BY ChainLaid
<1>5. PICK n \in Nat : n = Len(old)
  OBVIOUS
<1>6. PICK a : a = [i \in 1 .. n + 1 |-> IF i <= p THEN u[i] ELSE IF i = p + 1 THEN u[p] + siz ELSE u[i - 1]]
  OBVIOUS
<1>7. PICK z : z = [i \in 1 .. n + 1 |-> IF i < p THEN v[i] ELSE IF i = p THEN siz
                                         ELSE IF i = p + 1 THEN rest ELSE v[i - 1]]
  OBVIOUS
<1>8. v[p] = siz + rest /\ p \in 1 .. n /\ ent[old[p].num].at[2] = u[p] /\ ent[old[p].num].at[1] = c
  BY <1>4, <1>5 DEF LaidAt
<1>9. /\ n >= 1 /\ u \in [1 .. n -> Nat] /\ v \in [1 .. n -> Nat]
      /\ u[1] = 0 /\ \A i \in 1 .. n - 1 : u[i + 1] = u[i] + v[i]
      /\ u[n] + v[n] = Chunk /\ \A i \in 1 .. n : v[i] > 0
  BY <1>4, <1>5 DEF Laid
<1>10. Laid(a, z, n + 1)
  <2>1. Laid(u, v, n)
    BY <1>4, <1>5
  <2>2. SplitStarts(u, n, p, siz, a) /\ SplitSizes(v, n, p, siz, rest, z)
    BY <1>6, <1>7, Zenon DEF SplitStarts, SplitSizes
  <2> QED BY <1>8, <2>1, <2>2, SplitLaid
<1>11. ASSUME NEW i \in 1 .. n + 1
       PROVE  /\ tne[new[i].num].at[1] = c /\ tne[new[i].num].at[2] = a[i]
              /\ tne[new[i].num].siz = z[i]
  <2>1. /\ a[i] = IF i <= p THEN u[i] ELSE IF i = p + 1 THEN u[p] + siz ELSE u[i - 1]
        /\ z[i] = IF i < p THEN v[i] ELSE IF i = p THEN siz ELSE IF i = p + 1 THEN rest ELSE v[i - 1]
    BY <1>6, <1>7
  <2>2. CASE i = p
    BY <1>3, <1>5, <1>8, <2>1, <2>2
  <2>3. CASE i = p + 1
    BY <1>3, <1>5, <1>8, <2>1, <2>3
  <2>4. CASE i # p /\ i # p + 1
    <3>1. PICK j \in 1 .. Len(old) : new[i] = old[j] /\ a[i] = u[j] /\ z[i] = v[j] /\ j # p
      <4>1. CASE i < p
        BY <1>3, <1>5, <2>1, <4>1
      <4>2. CASE i > p + 1
        <5>1. i - 1 \in 1 .. Len(old) /\ i - 1 # p
          BY <1>5, <4>2
        <5> QED BY <1>3, <1>5, <2>1, <4>2, <5>1
      <4> QED BY <2>4, <4>1, <4>2
    <3>2. ent[old[j].num].at[1] = c /\ ent[old[j].num].at[2] = u[j] /\ ent[old[j].num].siz = v[j]
      BY <1>4 DEF LaidAt
    <3>3. tne[old[j].num].at = ent[old[j].num].at /\ tne[old[j].num].siz = ent[old[j].num].siz
      BY <3>1 DEF StayBut, SamePlace
    <3> QED BY <3>1, <3>2, <3>3
  <2> QED BY <2>2, <2>3, <2>4
<1>12. LaidAt(tne, new, c, a, z) /\ Laid(a, z, Len(new))
  BY <1>2, <1>5, <1>10, <1>11 DEF LaidAt
<1> QED BY <1>1, <1>2, <1>12, LaidChain

\* Lemma: two blocks of such a layout become one.
LEMMA AnnexLaid ==
  ASSUME NEW n \in Nat, NEW p \in 1 .. n - 1, NEW u, NEW v, Laid(u, v, n),
         NEW a, NEW z, AnnexStarts(u, n, p, a), AnnexSizes(v, n, p, z)
  PROVE  Laid(a, z, n - 1)
<1>d. /\ n >= 1 /\ u \in [1 .. n -> Nat] /\ v \in [1 .. n -> Nat]
      /\ u[1] = 0 /\ \A i \in 1 .. n - 1 : u[i + 1] = u[i] + v[i]
      /\ u[n] + v[n] = Chunk /\ \A i \in 1 .. n : v[i] > 0
  BY DEF Laid
<1>a. a = [i \in 1 .. n - 1 |-> IF i <= p THEN u[i] ELSE u[i + 1]]
  BY DEF AnnexStarts
<1>b. z = [i \in 1 .. n - 1 |-> IF i < p THEN v[i] ELSE IF i = p THEN v[p] + v[p + 1] ELSE v[i + 1]]
  BY DEF AnnexSizes
<1>c. p \in 1 .. n - 1 /\ p + 1 \in 1 .. n /\ p \in 1 .. n
  OBVIOUS
<1>1. a \in [1 .. n - 1 -> Nat] /\ z \in [1 .. n - 1 -> Nat] /\ \A i \in 1 .. n - 1 : z[i] > 0
  <2>1. \A i \in 1 .. n - 1 : i \in 1 .. n /\ i + 1 \in 1 .. n
    OBVIOUS
  <2>2. \A i \in 1 .. n : u[i] \in Nat /\ v[i] \in Nat /\ v[i] > 0
    BY <1>d
  <2>3. \A i \in 1 .. n - 1 : a[i] \in Nat
    BY <1>a, <2>1, <2>2
  <2>4. \A i \in 1 .. n - 1 : z[i] \in Nat /\ z[i] > 0
    <3>1. v[p] + v[p + 1] \in Nat /\ v[p] + v[p + 1] > 0
      BY <1>c, <2>2
    <3> QED BY <1>b, <2>1, <2>2, <3>1
  <2>5. a = [i \in 1 .. n - 1 |-> a[i]] /\ z = [i \in 1 .. n - 1 |-> z[i]]
    BY <1>a, <1>b
  <2> QED BY <2>3, <2>4, <2>5
<1>2. \A i \in 1 .. n - 1 :
        /\ a[i] = IF i <= p THEN u[i] ELSE u[i + 1]
        /\ z[i] = IF i < p THEN v[i] ELSE IF i = p THEN v[p] + v[p + 1] ELSE v[i + 1]
  BY <1>a, <1>b
<1>3. ASSUME NEW i \in 1 .. (n - 1) - 1 PROVE a[i + 1] = a[i] + z[i]
  <2>0. i \in 1 .. n - 1 /\ i + 1 \in 1 .. n - 1
    OBVIOUS
  <2>1. CASE i < p
    <3>1. a[i] = u[i] /\ a[i + 1] = u[i + 1] /\ z[i] = v[i]
      BY <1>c, <1>2, <2>0, <2>1
    <3> QED BY <1>d, <2>0, <3>1
  <2>2. CASE i = p
    <3>1. a[i] = u[p] /\ a[i + 1] = u[(p + 1) + 1] /\ z[i] = v[p] + v[p + 1] /\ p + 1 \in 1 .. n - 1
      BY <1>c, <1>2, <2>0, <2>2
    <3>2. u[(p + 1) + 1] = u[p + 1] + v[p + 1] /\ u[p + 1] = u[p] + v[p]
      BY <1>c, <1>d, <3>1
    <3> QED BY <1>c, <1>d, <3>1, <3>2, SMTT(20)
  <2>4. CASE i > p
    <3>1. a[i] = u[i + 1] /\ a[i + 1] = u[(i + 1) + 1] /\ z[i] = v[i + 1]
      BY <1>c, <1>2, <2>0, <2>4
    <3> QED BY <1>d, <2>0, <3>1
  <2> QED BY <1>c, <2>1, <2>2, <2>4
<1>4. a[1] = 0
  BY <1>c, <1>d, <1>2
<1>5. a[n - 1] + z[n - 1] = Chunk
  <2>0. n - 1 \in 1 .. n - 1 /\ (n - 1) + 1 = n
    BY <1>c
  <2>1. CASE p = n - 1
    <3>1. a[n - 1] = u[p] /\ z[n - 1] = v[p] + v[p + 1] /\ p + 1 = n
      BY <1>c, <1>2, <2>0, <2>1
    <3>2. u[p + 1] = u[p] + v[p]
      BY <1>c, <1>d
    <3> QED BY <1>c, <1>d, <3>1, <3>2
  <2>2. CASE p # n - 1
    <3>1. a[n - 1] = u[n] /\ z[n - 1] = v[n]
      BY <1>c, <1>2, <2>0, <2>2
    <3> QED BY <1>d, <3>1
  <2> QED BY <2>1, <2>2
<1>16. n - 1 >= 1
  BY <1>c
<1> QED BY <1>1, <1>3, <1>4, <1>5, <1>16 DEF Laid

\* Lemma: a block takes over the one behind it.
LEMMA ChainAnnex ==
  ASSUME NEW ent, NEW tne, NEW c, NEW old \in Seq(BlockType), Chained(ent, old, c),
         NEW p \in 1 .. Len(old) - 1,
         NumbersIn(ent, old), StayBut(ent, tne, old, {p, p + 1}),
         tne[old[p].num].at = ent[old[p].num].at,
         tne[old[p].num].siz = ent[old[p].num].siz + ent[old[p + 1].num].siz
  PROVE  Chained(tne, RemoveAt(old, p + 1), c)
<1>0. p + 1 \in 1 .. Len(old) /\ p \in 1 .. Len(old)
  OBVIOUS
<1>1. PICK new : new = RemoveAt(old, p + 1)
  OBVIOUS
<1>2. new \in Seq(BlockType) /\ Len(new) = Len(old) - 1
  BY <1>0, <1>1, RemoveAtFacts
<1>3. \A i \in 1 .. Len(old) - 1 : new[i] = IF i < p + 1 THEN old[i] ELSE old[i + 1]
  BY <1>0, <1>1, RemoveAtFacts
<1>4. PICK u, v : Laid(u, v, Len(old)) /\ LaidAt(ent, old, c, u, v)
  BY ChainLaid
<1>5. PICK n \in Nat : n = Len(old)
  OBVIOUS
<1>6. PICK a : a = [i \in 1 .. n - 1 |-> IF i <= p THEN u[i] ELSE u[i + 1]]
  OBVIOUS
<1>7. PICK z : z = [i \in 1 .. n - 1 |-> IF i < p THEN v[i] ELSE IF i = p THEN v[p] + v[p + 1] ELSE v[i + 1]]
  OBVIOUS
<1>8. p \in 1 .. n - 1 /\ p + 1 \in 1 .. n /\ p \in 1 .. n
      /\ tne[old[p].num].siz = v[p] + v[p + 1] /\ tne[old[p].num].at[2] = u[p] /\ tne[old[p].num].at[1] = c
  BY <1>0, <1>4, <1>5 DEF LaidAt
<1>9. /\ n >= 1 /\ u \in [1 .. n -> Nat] /\ v \in [1 .. n -> Nat]
      /\ u[1] = 0 /\ \A i \in 1 .. n - 1 : u[i + 1] = u[i] + v[i]
      /\ u[n] + v[n] = Chunk /\ \A i \in 1 .. n : v[i] > 0
  BY <1>4, <1>5 DEF Laid
<1>10. Laid(a, z, n - 1)
  <2>1. Laid(u, v, n)
    BY <1>4, <1>5
  <2>2. AnnexStarts(u, n, p, a) /\ AnnexSizes(v, n, p, z)
    BY <1>6, <1>7, Zenon DEF AnnexStarts, AnnexSizes
  <2> QED BY <1>8, <2>1, <2>2, AnnexLaid
<1>11. ASSUME NEW i \in 1 .. n - 1
       PROVE  /\ tne[new[i].num].at[1] = c /\ tne[new[i].num].at[2] = a[i]
              /\ tne[new[i].num].siz = z[i]
  <2>1. /\ a[i] = IF i <= p THEN u[i] ELSE u[i + 1]
        /\ z[i] = IF i < p THEN v[i] ELSE IF i = p THEN v[p] + v[p + 1] ELSE v[i + 1]
    BY <1>6, <1>7
  <2>2. CASE i = p
    BY <1>3, <1>5, <1>8, <2>1, <2>2
  <2>4. CASE i # p
    <3>1. PICK j \in 1 .. Len(old) : new[i] = old[j] /\ a[i] = u[j] /\ z[i] = v[j] /\ j # p /\ j # p + 1
      <4>1. CASE i < p
        BY <1>3, <1>5, <2>1, <4>1
      <4>2. CASE i > p
        <5>1. i + 1 \in 1 .. Len(old) /\ i + 1 # p /\ i + 1 # p + 1
          BY <1>5, <4>2
        <5> QED BY <1>3, <1>5, <2>1, <4>2, <5>1
      <4> QED BY <2>4, <4>1, <4>2
    <3>2. ent[old[j].num].at[1] = c /\ ent[old[j].num].at[2] = u[j] /\ ent[old[j].num].siz = v[j]
      BY <1>4 DEF LaidAt
    <3>3. tne[old[j].num].at = ent[old[j].num].at /\ tne[old[j].num].siz = ent[old[j].num].siz
      BY <3>1 DEF StayBut, SamePlace
    <3> QED BY <3>1, <3>2, <3>3
  <2> QED BY <2>2, <2>4
<1>12. LaidAt(tne, new, c, a, z) /\ Laid(a, z, Len(new))
  BY <1>2, <1>5, <1>10, <1>11 DEF LaidAt
<1> QED BY <1>1, <1>2, <1>12, LaidChain

-----------------------------------------------------------------------------
\* What an operation leaves alone.

\* An entry, its block and its place if it is locked are those of before.
SameEntry(s, t, n) ==
  /\ t.ent[n].flg = s.ent[n].flg /\ t.ent[n].locks = s.ent[n].locks
  /\ t.ent[n].siz = s.ent[n].siz /\ t.ent[n].seg = s.ent[n].seg
  /\ "LOCK" \in s.ent[n].flg => t.ent[n].at = s.ent[n].at
BlockStays(s, t, n) == \A b \in BlocksOf(s.heap) : b.num = n => b \in BlocksOf(t.heap)

\* Lemma: an object in memory has the data of its block.
LEMMA SameData ==
  ASSUME NEW s, NEW t, Good(s), t \in StateType, Separate(t.heap), NEW n \in Entries,
         Has(s, n, "PRES"), BlockStays(s, t, n)
  PROVE  DataOf(t, n) = DataOf(s, n)
<1>1. PICK c \in 1 .. Len(s.heap) : \E i \in 1 .. Len(s.heap[c]) :
        s.heap[c][i].num = n /\ DataOf(s, n) = s.heap[c][i].data
  BY HeaderPlace
<1>2. PICK i \in 1 .. Len(s.heap[c]) : s.heap[c][i].num = n /\ DataOf(s, n) = s.heap[c][i].data
  BY <1>1
<1>3. s.heap[c][i] \in BlocksOf(s.heap)
  BY StateFields, BlocksFacts DEF Good
<1>4. s.heap[c][i] \in BlocksOf(t.heap)
  BY <1>2, <1>3 DEF BlockStays
<1>5. DataOf(t, s.heap[c][i].num) = s.heap[c][i].data
  BY <1>4, DataFacts
<1> QED BY <1>2, <1>5

\* Lemma: such an entry is kept.
LEMMA KeptIf ==
  ASSUME NEW s, NEW t, Good(s), t \in StateType, Separate(t.heap), NEW n, Owned(s, n),
         n \notin t.unused, SameEntry(s, t, n), BlockStays(s, t, n),
         t.segs = s.segs \/ s.ent[n].seg = NoSeg
  PROVE  Kept(s, t, n)
<1>1. n \in Entries /\ Owned(t, n)
  BY DEF Owned, SameEntry, Has
<1>2. \A f : Has(t, n, f) <=> Has(s, n, f)
  BY DEF SameEntry, Has
<1>3. Stored(t, n) = Stored(s, n)
  <2>1. CASE Has(s, n, "PRES")
    BY <1>1, <1>2, <2>1, SameData DEF Stored
  <2>2. CASE ~Has(s, n, "PRES") /\ t.segs = s.segs
    BY <1>2, <2>2 DEF Stored, SameEntry
  <2>3. CASE ~Has(s, n, "PRES") /\ s.ent[n].seg = NoSeg
    <3>1. ~Has(s, n, "NODISC")
      BY <1>1, <2>3 DEF Good, EntryGood, Has
    <3> QED BY <1>2, <2>3, <3>1 DEF Stored
  <2> QED BY <2>1, <2>2, <2>3
<1> QED BY <1>1, <1>2, <1>3 DEF Kept, SameEntry, Has

\* Lemma: keeping is reflexive and transitive.
LEMMA KeepsSame ==
  ASSUME NEW s
  PROVE  Keeps(s, s)
BY DEF Keeps, Kept, Modest

\* Lemma: what is kept twice is kept.
LEMMA KeptTwice ==
  ASSUME NEW s, NEW t, NEW u, NEW n, Good(t), Kept(s, t, n), Owned(s, n), Kept(t, u, n),
         Good(s)
  PROVE  Kept(s, u, n)
<1>1. n \in Entries
  BY DEF Owned
<1>2. Has(s, n, "LOCK") => Has(t, n, "LOCK")
  BY <1>1 DEF Kept, Good, EntryGood, Has
<1> QED BY <1>2 DEF Kept

\* Lemma: so are all entries together.
LEMMA KeepsTwice ==
  ASSUME NEW s, NEW t, NEW u, Good(s), Good(t), Keeps(s, t), Keeps(t, u)
  PROVE  Keeps(s, u)
<1>1. Modest(s, u)
  BY DEF Keeps, Modest
<1>2. ASSUME NEW n, Owned(s, n) PROVE Kept(s, u, n)
  <2>1. Kept(s, t, n) /\ Owned(t, n)
    BY <1>2 DEF Keeps, Kept
  <2>2. Kept(t, u, n)
    BY <2>1 DEF Keeps
  <2> QED BY <1>2, <2>1, <2>2, KeptTwice
<1> QED BY <1>1, <1>2 DEF Keeps

\* Lemma: a header that was handed out later was not that of an object before.
LEMMA FreshBefore ==
  ASSUME NEW s, NEW t, NEW u, NEW n, Keeps(s, t), Fresh(t, u, n)
  PROVE  Fresh(s, u, n)
BY DEF Keeps, Kept, Fresh

\* An entry has the segment of the swap file it had, or none.
SegsKept(ent, tne) == \A n \in Entries : tne[n].seg = ent[n].seg \/ tne[n].seg = NoSeg

\* Lemma: the swap file stays as it was.
LEMMA SegsStay ==
  ASSUME NEW ent, NEW tne, NEW segs, SegsGood(ent, segs), SegsKept(ent, tne)
  PROVE  SegsGood(tne, segs)
BY DEF SegsGood, SegsKept

\* Lemma: the file's size depends on nothing else.
LEMMA FileStays ==
  ASSUME NEW s, NEW t, t.segs = s.segs
  PROVE  FileSize(t) = FileSize(s)
BY DEF FileSize

\* The header k has no block in the heap, and the blocks of the heap stay in place.
NotIn(heap, k) == \A c \in 1 .. Len(heap) : \A i \in 1 .. Len(heap[c]) : heap[c][i].num # k
HeapStays(ent, tne, heap) ==
  \A c \in 1 .. Len(heap) : \A i \in 1 .. Len(heap[c]) :
    SamePlace(ent, tne, heap[c][i].num, heap[c][i].num)

\* Lemma: a chunk is added, one block under the header k.
LEMMA AppendChunk ==
  ASSUME NEW ent, NEW tne, NEW heap \in Seq(Seq(BlockType)), HeapGood(ent, heap),
         NEW k \in Entries, NEW data \in Versions \union {Nothing},
         NotIn(heap, k), HeapStays(ent, tne, heap),
         tne[k].at = <<Len(heap) + 1, 0>>, tne[k].siz = Chunk
  PROVE  /\ Append(heap, <<Block(k, data)>>) \in Seq(Seq(BlockType))
         /\ Len(Append(heap, <<Block(k, data)>>)) = Len(heap) + 1
         /\ HeapGood(tne, Append(heap, <<Block(k, data)>>))
         /\ \A b : b \in BlocksOf(Append(heap, <<Block(k, data)>>)) <=>
                     b = Block(k, data) \/ b \in BlocksOf(heap)
<1>1. PICK blocks : blocks = <<Block(k, data)>>
  OBVIOUS
<1>2. blocks \in Seq(BlockType) /\ Len(blocks) = 1 /\ blocks[1] = Block(k, data) /\ blocks[1].num = k
  BY <1>1 DEF Block, BlockType
<1>0. blocks # << >> /\ \A i : i \in 1 .. Len(blocks) => i = 1
  <2>1. \A i : i \in 1 .. 1 => i = 1
    OBVIOUS
  <2>2. Len(blocks) = 1
    BY <1>2
  <2> QED BY <1>1, <2>1, <2>2
<1>3. PICK new : new = Append(heap, blocks)
  OBVIOUS
<1>4. new \in Seq(Seq(BlockType)) /\ Len(new) = Len(heap) + 1 /\ new[Len(heap) + 1] = blocks
      /\ \A c \in 1 .. Len(heap) : new[c] = heap[c]
  BY <1>2, <1>3
<1>5. Len(heap) \in Nat
  BY BlocksFacts
<1>6. ASSUME NEW d \in 1 .. Len(heap) PROVE Chained(tne, new[d], d)
  <2>1. Chained(ent, heap[d], d) /\ heap[d] \in Seq(BlockType)
    BY BlocksFacts DEF HeapGood
  <2>2. Chained(tne, heap[d], d)
    <3>1. \A i \in 1 .. Len(heap[d]) : SamePlace(ent, tne, heap[d][i].num, heap[d][i].num)
      BY DEF HeapStays
    <3> QED BY <2>1, <3>1, ChainStays
  <2> QED BY <1>4, <2>2
<1>7. Chained(tne, blocks, Len(heap) + 1)
  <2>1. /\ tne[blocks[1].num].at[1] = Len(heap) + 1 /\ tne[blocks[1].num].at[2] = 0
        /\ tne[blocks[1].num].siz = Chunk
    BY <1>2
  <2>2. blocks # << >> /\ \A i \in 1 .. Len(blocks) : i = 1
    BY <1>0
  <2>3. ~ \E i : i \in 1 .. Len(blocks) - 1
    BY <1>2
  <2> QED BY <1>2, <2>1, <2>2, <2>3, ConstFacts DEF Chained, EndOf
<1>8. Separate(new)
  <2> SUFFICES ASSUME NEW d \in 1 .. Len(heap) + 1, NEW e \in 1 .. Len(heap) + 1,
                      NEW i \in 1 .. Len(new[d]), NEW j \in 1 .. Len(new[e]),
                      new[d][i].num = new[e][j].num
               PROVE  d = e /\ i = j
    BY <1>4 DEF Separate
  <2>1. CASE d = Len(heap) + 1 /\ e = Len(heap) + 1
    <3>1. new[d] = blocks /\ new[e] = blocks
      BY <1>4, <2>1
    <3>2. i = 1 /\ j = 1
      BY <1>0, <3>1
    <3> QED BY <2>1, <3>2
  <2>2. CASE d = Len(heap) + 1 /\ e \in 1 .. Len(heap)
    <3>1. new[d] = blocks /\ new[e] = heap[e]
      BY <1>4, <2>2
    <3>2. heap[e][j].num = k
      <4>1. i = 1
        BY <1>0, <3>1
      <4> QED BY <1>2, <3>1, <4>1
    <3> QED BY <2>2, <3>1, <3>2 DEF NotIn
  <2>3. CASE d \in 1 .. Len(heap) /\ e = Len(heap) + 1
    <3>1. new[e] = blocks /\ new[d] = heap[d]
      BY <1>4, <2>3
    <3>2. heap[d][i].num = k
      <4>1. j = 1
        BY <1>0, <3>1
      <4> QED BY <1>2, <3>1, <4>1
    <3> QED BY <2>3, <3>1, <3>2 DEF NotIn
  <2>4. CASE d \in 1 .. Len(heap) /\ e \in 1 .. Len(heap)
    <3>1. new[d] = heap[d] /\ new[e] = heap[e]
      BY <1>4, <2>4
    <3> QED BY <2>4, <3>1 DEF HeapGood, Separate
  <2> QED BY <1>5, <2>1, <2>2, <2>3, <2>4
<1>9. \A d \in 1 .. Len(new) : Chained(tne, new[d], d)
  <2>1. \A d \in 1 .. Len(new) : d \in 1 .. Len(heap) \/ d = Len(heap) + 1
    BY <1>4, <1>5
  <2> QED BY <1>4, <1>6, <1>7, <2>1
<1>10. ASSUME NEW b PROVE b \in BlocksOf(new) <=> b = Block(k, data) \/ b \in BlocksOf(heap)
  <2>1. b \in BlocksOf(new) <=> \E d \in 1 .. Len(new) : \E i \in 1 .. Len(new[d]) : new[d][i] = b
    BY <1>4, BlocksFacts
  <2>2. b \in BlocksOf(heap) <=> \E d \in 1 .. Len(heap) : \E i \in 1 .. Len(heap[d]) : heap[d][i] = b
    BY BlocksFacts
  <2>3. \A d \in 1 .. Len(new) : d \in 1 .. Len(heap) \/ d = Len(heap) + 1
    BY <1>4, <1>5
  <2>4. 1 \in 1 .. Len(blocks) /\ (\A i \in 1 .. Len(blocks) : i = 1) /\ Len(heap) + 1 \in 1 .. Len(new)
        /\ \A d \in 1 .. Len(heap) : d \in 1 .. Len(new)
    BY <1>2, <1>4, <1>5
  <2>5. (\E i \in 1 .. Len(blocks) : blocks[i] = b) <=> b = Block(k, data)
    BY <1>2, <2>4
  <2>6. (\E d \in 1 .. Len(new) : \E i \in 1 .. Len(new[d]) : new[d][i] = b)
          <=> \/ \E i \in 1 .. Len(blocks) : blocks[i] = b
              \/ \E d \in 1 .. Len(heap) : \E i \in 1 .. Len(heap[d]) : heap[d][i] = b
    <3>1. \A d \in 1 .. Len(heap) : new[d] = heap[d]
      BY <1>4
    <3>2. new[Len(heap) + 1] = blocks
      BY <1>4
    <3> QED BY <2>3, <2>4, <3>1, <3>2, Zenon
  <2> QED BY <2>1, <2>2, <2>5, <2>6
<1> QED BY <1>1, <1>3, <1>4, <1>8, <1>9, <1>10 DEF HeapGood

-----------------------------------------------------------------------------
\* The lists.

\* Other entries than k keep the flag f.
FlagStays(ent, tne, f, k) == \A n \in Entries : n # k => (f \in tne[n].flg <=> f \in ent[n].flg)

\* Lemma: an entry gets the flag and goes to the head of the list.
LEMMA ListCons ==
  ASSUME NEW ent, NEW tne, NEW list \in Seq(Entries), NEW f, NEW k \in Entries,
         ListOf(ent, list, f), FlagStays(ent, tne, f, k), f \notin ent[k].flg, f \in tne[k].flg
  PROVE  <<k>> \o list \in Seq(Entries) /\ ListOf(tne, <<k>> \o list, f)
<1>1. IsInjective(list) /\ k \notin ToSet(list)
  BY DEF ListOf
<1>2. /\ <<k>> \o list \in Seq(Entries) /\ IsInjective(<<k>> \o list)
      /\ \A x : x \in ToSet(<<k>> \o list) <=> x = k \/ x \in ToSet(list)
  BY <1>1, ConsFacts
<1>3. PICK r : r = <<k>> \o list
  OBVIOUS
<1>4. /\ r \in Seq(Entries) /\ IsInjective(r) /\ \A x : x \in ToSet(r) <=> x = k \/ x \in ToSet(list)
  BY <1>2, <1>3
<1>5. ListOf(tne, r, f)
  BY <1>4 DEF ListOf, FlagStays
<1> QED BY <1>3, <1>4, <1>5

\* Lemma: or to its end.
LEMMA ListSnoc ==
  ASSUME NEW ent, NEW tne, NEW list \in Seq(Entries), NEW f, NEW k \in Entries,
         ListOf(ent, list, f), FlagStays(ent, tne, f, k), f \notin ent[k].flg, f \in tne[k].flg
  PROVE  Append(list, k) \in Seq(Entries) /\ ListOf(tne, Append(list, k), f)
<1>1. IsInjective(list) /\ k \notin ToSet(list)
  BY DEF ListOf
<1>2. /\ Append(list, k) \in Seq(Entries) /\ IsInjective(Append(list, k))
      /\ \A x : x \in ToSet(Append(list, k)) <=> x = k \/ x \in ToSet(list)
  BY <1>1, SnocFacts
<1>3. PICK r : r = Append(list, k)
  OBVIOUS
<1>4. /\ r \in Seq(Entries) /\ IsInjective(r) /\ \A x : x \in ToSet(r) <=> x = k \/ x \in ToSet(list)
  BY <1>2, <1>3
<1>5. ListOf(tne, r, f)
  BY <1>4 DEF ListOf, FlagStays
<1> QED BY <1>3, <1>4, <1>5

\* Lemma: an entry without the flag is taken out of the list.
LEMMA ListDrop ==
  ASSUME NEW ent, NEW tne, NEW list \in Seq(Entries), NEW f, NEW k \in Entries,
         ListOf(ent, list, f), FlagStays(ent, tne, f, k), f \notin tne[k].flg
  PROVE  RemoveFirst(list, k) \in Seq(Entries) /\ ListOf(tne, RemoveFirst(list, k), f)
<1>1. IsInjective(list)
  BY DEF ListOf
<1>2. /\ RemoveFirst(list, k) \in Seq(Entries) /\ IsInjective(RemoveFirst(list, k))
      /\ \A x : x \in ToSet(RemoveFirst(list, k)) <=> x \in ToSet(list) /\ x # k
  BY <1>1, RemoveFirstFacts
<1>3. PICK r : r = RemoveFirst(list, k)
  OBVIOUS
<1>4. /\ r \in Seq(Entries) /\ IsInjective(r) /\ \A x : x \in ToSet(r) <=> x \in ToSet(list) /\ x # k
  BY <1>2, <1>3
<1>5. ListOf(tne, r, f)
  BY <1>4 DEF ListOf, FlagStays
<1> QED BY <1>3, <1>4, <1>5

\* Lemma: nobody gets or loses the flag.
LEMMA ListSame ==
  ASSUME NEW ent, NEW tne, NEW list, NEW f, NEW k, ListOf(ent, list, f),
         FlagStays(ent, tne, f, k), k \notin Entries \/ (f \in tne[k].flg <=> f \in ent[k].flg)
  PROVE  ListOf(tne, list, f)
BY DEF ListOf, FlagStays

-----------------------------------------------------------------------------
\* Allocation.

\* Lemma: a block ends within its chunk.
LEMMA EndFits ==
  ASSUME NEW s, Good(s), NEW c \in 1 .. Len(s.heap), NEW i \in 1 .. Len(s.heap[c])
  PROVE  /\ s.ent[s.heap[c][i].num].at[1] = c /\ s.ent[s.heap[c][i].num].siz > 0
         /\ s.ent[s.heap[c][i].num].at[2] + s.ent[s.heap[c][i].num].siz <= Chunk
<1>1. s \in StateType /\ Chained(s.ent, s.heap[c], c)
  BY DEF Good, HeapGood
<1>2. s.heap[c] \in Seq(BlockType)
  BY <1>1, StateFields, BlocksFacts
<1>3. PICK blocks : blocks = s.heap[c]
  OBVIOUS
<1>7. PICK o : /\ \A j \in 0 .. Len(blocks) :
                    /\ o[j] = SizeOfBlocks(s, SubSeq(blocks, 1, j))
                    /\ o[j] \in Nat /\ o[j] <= o[Len(blocks)]
               /\ o[0] = 0 /\ o[Len(blocks)] = SizeOfBlocks(s, blocks)
               /\ \A j \in 1 .. Len(blocks) : o[j] = o[j - 1] + s.ent[blocks[j].num].siz
  <2>1. s \in StateType /\ blocks \in Seq(BlockType)
    BY <1>1, <1>2, <1>3
  <2> QED BY <2>1, Offsets
<1>8. /\ SizeOfBlocks(s, blocks) = Chunk
      /\ \A j \in 1 .. Len(blocks) : s.ent[blocks[j].num].at = Address(s, c, j)
  BY <1>1, <1>3, ChainSums
<1>9. i \in 1 .. Len(blocks) /\ i - 1 \in 0 .. Len(blocks) /\ i \in 0 .. Len(blocks)
  BY <1>3
<1>10. s.ent[blocks[i].num].at[2] = o[i - 1]
  <2>1. s.ent[blocks[i].num].at = <<c, SizeOfBlocks(s, SubSeq(blocks, 1, i - 1))>>
    BY <1>3, <1>8, <1>9 DEF Address
  <2> QED BY <1>7, <1>9, <2>1
<1>11. o[i] = o[i - 1] + s.ent[blocks[i].num].siz /\ o[i] <= Chunk
  BY <1>7, <1>8, <1>9
<1>12. s.ent[blocks[i].num].at[1] = c /\ s.ent[blocks[i].num].siz > 0
  BY <1>1, <1>3, <1>9 DEF Chained
<1> QED BY <1>3, <1>10, <1>11, <1>12

\* Lemma: an unused header has no block, and is in no list.
LEMMA UnusedApart ==
  ASSUME NEW s, Good(s), NEW k \in s.unused
  PROVE  /\ k \in Entries /\ s.ent[k].flg = {} /\ s.ent[k].seg = NoSeg
         /\ NotIn(s.heap, k) /\ ~Owned(s, k)
<1>1. k \in Entries /\ s.ent[k] = UnusedEntry
  BY DEF Good, StateType
<1>2. NotIn(s.heap, k)
  BY PlaceHeader DEF NotIn
<1> QED BY <1>1, <1>2, UnusedEntryFacts DEF Owned

\* The state s has these parts.
Fields(s, ent, heap, free, unused, lru, segs, room) ==
  /\ s \in StateType /\ s.ent = ent /\ s.heap = heap /\ s.free = free /\ s.unused = unused
  /\ s.lru = lru /\ s.segs = segs /\ s.room = room

\* Lemma: the parts of the state after a chunk is allocated.
LEMMA NewChunkFields ==
  ASSUME NEW s \in StateType, s.unused # {}, Len(s.heap) + 1 <= MaxChunks
  PROVE  Fields(NewChunk(s),
                [s.ent EXCEPT ![Unused(s)] = Entry({"FREE"}, Chunk, <<Len(s.heap) + 1, 0>>, 0)],
                Append(s.heap, <<Block(Unused(s), Nothing)>>), <<Unused(s)>> \o s.free,
                s.unused \ {Unused(s)}, s.lru, s.segs, s.room - 1)
<1>a. PICK t : t = NewChunk(s)
  OBVIOUS
<1>b. PICK k : k = Unused(s)
  OBVIOUS
<1>1. k \in Entries
  BY <1>b, UnusedFacts
<1>2. PICK u1 : u1 = [s EXCEPT !.room = @ - 1]
  OBVIOUS
<1>3. /\ u1 \in StateType /\ u1.ent = s.ent /\ u1.heap = s.heap /\ u1.free = s.free
      /\ u1.unused = s.unused /\ u1.lru = s.lru /\ u1.segs = s.segs /\ u1.room = s.room - 1
  <2>1. s.room - 1 \in Int
    BY StateFields
  <2> QED BY <1>2, <2>1, WithRoom
<1>4. PICK heap : heap = Append(s.heap, <<Block(k, Nothing)>>)
  OBVIOUS
<1>5. heap \in Seq(Seq(BlockType))
  <2>1. Block(k, Nothing) \in BlockType
    BY <1>1 DEF Block, BlockType
  <2> QED BY <1>4, <2>1, StateFields
<1>6. PICK u2 : u2 = [u1 EXCEPT !.heap = heap]
  OBVIOUS
<1>7. /\ u2 \in StateType /\ u2.ent = s.ent /\ u2.heap = heap /\ u2.free = s.free
      /\ u2.unused = s.unused /\ u2.lru = s.lru /\ u2.segs = s.segs /\ u2.room = s.room - 1
  BY <1>3, <1>5, <1>6, WithHeap
<1>8. PICK e : e = Entry({"FREE"}, Chunk, <<Len(s.heap) + 1, 0>>, 0)
  OBVIOUS
<1>9. e \in EntryType
  <2>1. {"FREE"} \in SUBSET Flags /\ Chunk \in 0 .. Chunk /\ 0 \in Nat
    BY ConstFacts DEF Flags
  <2>2. Len(s.heap) \in Nat
    BY StateFields, BlocksFacts
  <2>3. <<Len(s.heap) + 1, 0>> \in (0 .. MaxChunks) \X (0 .. Chunk)
    BY <2>2, ConstFacts
  <2> QED BY <1>8, <2>1, <2>3, EntryTyped
<1>10. PICK u3 : u3 = Use(u2, k, e)
  OBVIOUS
<1>11. /\ u3 \in StateType /\ u3.ent = [s.ent EXCEPT ![k] = e] /\ u3.heap = heap /\ u3.free = s.free
       /\ u3.unused = s.unused \ {k} /\ u3.lru = s.lru /\ u3.segs = s.segs /\ u3.room = s.room - 1
  BY <1>1, <1>7, <1>9, <1>10, UseFacts
<1>12. t = LinkFree(u3, k)
  <2>1. u2 = [[s EXCEPT !.room = @ - 1] EXCEPT !.heap = Append(@, <<Block(k, Nothing)>>)]
    BY <1>2, <1>3, <1>4, <1>6
  <2> QED BY <1>a, <1>b, <1>8, <1>10, <2>1, Zenon DEF NewChunk
<1>13. /\ t \in StateType /\ t.free = <<k>> \o u3.free /\ t.ent = u3.ent /\ t.unused = u3.unused
       /\ t.heap = u3.heap /\ t.lru = u3.lru /\ t.segs = u3.segs /\ t.room = u3.room
  <2>1. u3 \in StateType
    BY <1>11
  <2>2. ASSUME NEW v, v = LinkFree(u3, k)
        PROVE  /\ v \in StateType /\ v.free = <<k>> \o u3.free /\ v.ent = u3.ent /\ v.unused = u3.unused
               /\ v.heap = u3.heap /\ v.lru = u3.lru /\ v.segs = u3.segs /\ v.room = u3.room
    BY <1>1, <2>1, <2>2, LinkFreeFacts
  <2> QED BY <1>12, <2>2, Zenon
<1>14. /\ t \in StateType /\ t.ent = u3.ent /\ t.heap = u3.heap /\ t.free = <<k>> \o u3.free
       /\ t.unused = u3.unused /\ t.lru = u3.lru /\ t.segs = u3.segs /\ t.room = u3.room
  BY <1>13
<1> QED BY <1>a, <1>b, <1>4, <1>8, <1>11, <1>14, Zenon DEF Fields

-----------------------------------------------------------------------------
\* New chunks.

\* Lemma: a state whose parts are good.
LEMMA GoodParts ==
  ASSUME NEW s
  PROVE  Good(s) <=>
           /\ s \in StateType
           /\ \A n \in Entries : EntryGood(s.ent[n])
           /\ HeapGood(s.ent, s.heap)
           /\ HeadersGood(s.ent, s.heap)
           /\ ListsGood(s.ent, s.free, s.lru)
           /\ \A n \in s.unused : s.ent[n] = UnusedEntry
           /\ SegsGood(s.ent, s.segs)
           /\ FileSize(s) <= SwapSize
           /\ s.room >= 0 /\ s.heap # << >> /\ s.room + Len(s.heap) <= MaxChunks
BY DEF Good

\* Lemma: a free block.
LEMMA FreeEntry ==
  ASSUME NEW siz \in 0 .. Chunk, NEW at \in (0 .. MaxChunks) \X (0 .. Chunk), NEW e, e = Entry({"FREE"}, siz, at, 0)
  PROVE  /\ e \in EntryType /\ e.flg = {"FREE"} /\ e.siz = siz /\ e.at = at /\ e.locks = 0
         /\ e.seg = NoSeg /\ EntryGood(e)
<1>1. {"FREE"} \in SUBSET Flags /\ 0 \in Nat
  BY DEF Flags
<1>2. e \in EntryType /\ e.flg = {"FREE"} /\ e.siz = siz /\ e.at = at /\ e.locks = 0 /\ e.seg = NoSeg
  BY <1>1, EntryTyped
<1> QED BY <1>2 DEF EntryGood

\* Lemma: a new chunk, or none, leaves a good state.
LEMMA NewChunkGood ==
  ASSUME NEW s, Good(s), s.room > 0
  PROVE  Good(NewChunk(s)) /\ Keeps(s, NewChunk(s))
<1>0. PICK t : t = NewChunk(s)
  OBVIOUS
<1>1. s \in StateType
  BY DEF Good
<1>2. CASE s.unused = {}
  <2>1. t = [s EXCEPT !.room = s.room - 1]
    BY <1>0, <1>2 DEF NewChunk
  <2>2. s.room - 1 \in Int
    BY <1>1, StateFields
  <2>3. /\ t \in StateType /\ t.ent = s.ent /\ t.heap = s.heap /\ t.free = s.free
        /\ t.unused = s.unused /\ t.lru = s.lru /\ t.segs = s.segs /\ t.room = s.room - 1
    BY <1>1, <2>1, <2>2, WithRoom
  <2>4. FileSize(t) = FileSize(s)
    BY <2>3, FileStays
  <2>5. t.room >= 0 /\ t.heap # << >> /\ t.room + Len(t.heap) <= MaxChunks
    <3>1. Len(s.heap) \in Nat
      BY <1>1, StateFields, BlocksFacts
    <3> QED BY <1>1, <2>3, <3>1, ConstFacts, StateFields DEF Good
  <2>6. Good(t)
    BY <2>3, <2>4, <2>5 DEF Good
  <2>7. ASSUME NEW n, Owned(s, n) PROVE Kept(s, t, n)
    <3>1. n \notin t.unused /\ SameEntry(s, t, n) /\ BlockStays(s, t, n)
      BY <2>3, <2>7 DEF Owned, SameEntry, BlockStays
    <3> QED BY <2>3, <2>6, <2>7, <3>1, KeptIf DEF Good, HeapGood
  <2>8. Modest(s, t)
    BY <2>3 DEF Modest
  <2> QED BY <1>0, <2>6, <2>7, <2>8 DEF Keeps
<1>3. CASE s.unused # {}
  <2>1. PICK k : k = Unused(s)
    OBVIOUS
  <2>2. k \in s.unused /\ k \in Entries
    BY <1>1, <1>3, <2>1, UnusedFacts
  <2>3. Len(s.heap) \in Nat /\ Len(s.heap) + 1 <= MaxChunks
    <3>1. Len(s.heap) \in Nat
      BY <1>1, StateFields, BlocksFacts
    <3> QED BY <1>1, <3>1, ConstFacts, StateFields DEF Good
  <2>4. PICK e : e = Entry({"FREE"}, Chunk, <<Len(s.heap) + 1, 0>>, 0)
    OBVIOUS
  <2>5. /\ e \in EntryType /\ e.flg = {"FREE"} /\ e.siz = Chunk /\ e.at = <<Len(s.heap) + 1, 0>>
        /\ e.locks = 0 /\ e.seg = NoSeg /\ EntryGood(e)
    <3>1. Chunk \in 0 .. Chunk /\ <<Len(s.heap) + 1, 0>> \in (0 .. MaxChunks) \X (0 .. Chunk)
      BY <2>3, ConstFacts
    <3> QED BY <2>4, <3>1, FreeEntry
  <2>6. /\ t \in StateType /\ t.ent = [s.ent EXCEPT ![k] = e]
        /\ t.heap = Append(s.heap, <<Block(k, Nothing)>>)
        /\ t.free = <<k>> \o s.free /\ t.unused = s.unused \ {k} /\ t.lru = s.lru
        /\ t.segs = s.segs /\ t.room = s.room - 1
    <3>1. Fields(NewChunk(s),
                [s.ent EXCEPT ![Unused(s)] = Entry({"FREE"}, Chunk, <<Len(s.heap) + 1, 0>>, 0)],
                Append(s.heap, <<Block(Unused(s), Nothing)>>), <<Unused(s)>> \o s.free,
                s.unused \ {Unused(s)}, s.lru, s.segs, s.room - 1)
      BY <1>1, <1>3, <2>3, NewChunkFields
    <3> QED BY <1>0, <2>1, <2>4, <3>1, Zenon DEF Fields
  <2>7. t.ent[k] = e /\ \A n \in Entries : n # k => t.ent[n] = s.ent[n]
    BY <1>1, <2>2, <2>6, StateFields
  <2>8. /\ k \in Entries /\ s.ent[k].flg = {} /\ s.ent[k].seg = NoSeg
        /\ NotIn(s.heap, k) /\ ~Owned(s, k)
    BY <2>2, UnusedApart
  <2>9. HeapStays(s.ent, t.ent, s.heap)
    <3>1. \A c \in 1 .. Len(s.heap) : \A i \in 1 .. Len(s.heap[c]) :
            s.heap[c][i].num # k /\ s.heap[c][i].num \in Entries
      BY <1>1, <2>8, StateFields, BlocksFacts DEF NotIn
    <3> QED BY <2>7, <3>1 DEF HeapStays, SamePlace
  <2>10. /\ Len(t.heap) = Len(s.heap) + 1 /\ HeapGood(t.ent, t.heap)
         /\ \A b : b \in BlocksOf(t.heap) <=> b = Block(k, Nothing) \/ b \in BlocksOf(s.heap)
    <3>1. s.heap \in Seq(Seq(BlockType)) /\ HeapGood(s.ent, s.heap)
      BY <1>1, StateFields DEF Good
    <3>2. Nothing \in Versions \union {Nothing}
      OBVIOUS
    <3>3. t.ent[k].at = <<Len(s.heap) + 1, 0>> /\ t.ent[k].siz = Chunk
      BY <2>5, <2>7
    <3>4. /\ Len(Append(s.heap, <<Block(k, Nothing)>>)) = Len(s.heap) + 1
          /\ HeapGood(t.ent, Append(s.heap, <<Block(k, Nothing)>>))
          /\ \A b : b \in BlocksOf(Append(s.heap, <<Block(k, Nothing)>>))
                      <=> b = Block(k, Nothing) \/ b \in BlocksOf(s.heap)
      <4>1. NotIn(s.heap, k)
        BY <2>8
      <4> QED BY <2>2, <2>9, <3>1, <3>2, <3>3, <4>1, AppendChunk, Zenon
    <3> QED BY <2>6, <3>4
  <2>11. \A n \in Entries : EntryGood(t.ent[n])
    BY <2>5, <2>7 DEF Good
  <2>12. HeadersGood(t.ent, t.heap)
    <3> SUFFICES ASSUME NEW n \in Entries
                 PROVE  InMemory(t.ent[n]) <=> \E b \in BlocksOf(t.heap) : b.num = n
      BY DEF HeadersGood
    <3>1. InMemory(s.ent[n]) <=> \E b \in BlocksOf(s.heap) : b.num = n
      BY DEF Good, HeadersGood
    <3>2. Block(k, Nothing).num = k
      BY DEF Block
    <3>3. CASE n = k
      BY <2>5, <2>7, <2>10, <3>2, <3>3 DEF InMemory
    <3>4. CASE n # k
      BY <2>7, <2>10, <3>1, <3>2, <3>4
    <3> QED BY <3>3, <3>4
  <2>13. ListsGood(t.ent, t.free, t.lru)
    <3>1. ListOf(s.ent, s.free, "FREE") /\ ListOf(s.ent, s.lru, "LRU") /\ s.free \in Seq(Entries)
      BY <1>1, StateFields DEF Good, ListsGood
    <3>2. FlagStays(s.ent, t.ent, "FREE", k) /\ FlagStays(s.ent, t.ent, "LRU", k)
      BY <2>7 DEF FlagStays
    <3>3. "FREE" \notin s.ent[k].flg /\ "FREE" \in t.ent[k].flg
          /\ ("LRU" \in t.ent[k].flg <=> "LRU" \in s.ent[k].flg)
      BY <2>5, <2>7, <2>8
    <3>4. ListOf(t.ent, t.free, "FREE")
      BY <2>2, <2>6, <3>1, <3>2, <3>3, ListCons
    <3>5. ListOf(t.ent, t.lru, "LRU")
      BY <2>6, <3>1, <3>2, <3>3, ListSame
    <3> QED BY <3>4, <3>5 DEF ListsGood
  <2>14. \A n \in t.unused : t.ent[n] = UnusedEntry
    BY <1>1, <2>6, <2>7, StateFields DEF Good
  <2>15. SegsGood(t.ent, t.segs)
    <3>1. SegsGood(s.ent, s.segs)
      BY DEF Good
    <3>2. SegsKept(s.ent, t.ent)
      BY <2>5, <2>7 DEF SegsKept
    <3> QED BY <2>6, <3>1, <3>2, SegsStay
  <2>16. FileSize(t) <= SwapSize
    BY <2>6, FileStays DEF Good
  <2>17. t.room >= 0 /\ t.heap # << >> /\ t.room + Len(t.heap) <= MaxChunks
    <3>1. s.room \in Int /\ s.room + Len(s.heap) <= MaxChunks
      BY <1>1, StateFields DEF Good
    <3>2. t.heap # << >>
      BY <2>3, <2>10
    <3>3. t.room = s.room - 1 /\ Len(t.heap) = Len(s.heap) + 1
      BY <2>6, <2>10
    <3> QED BY <2>3, <3>1, <3>2, <3>3, ConstFacts
  <2>18. Good(t)
    BY <2>6, <2>10, <2>11, <2>12, <2>13, <2>14, <2>15, <2>16, <2>17, GoodParts
  <2>19. ASSUME NEW n, Owned(s, n) PROVE Kept(s, t, n)
    <3>1. n # k /\ n \in Entries
      BY <2>8, <2>19 DEF Owned
    <3>2. n \notin t.unused /\ SameEntry(s, t, n) /\ BlockStays(s, t, n)
      BY <2>6, <2>7, <2>10, <2>19, <3>1 DEF Owned, SameEntry, BlockStays
    <3> QED BY <2>6, <2>18, <2>19, <3>2, KeptIf DEF Good, HeapGood
  <2>20. Modest(s, t)
    BY <2>5, <2>7 DEF Modest
  <2> QED BY <1>0, <2>18, <2>19, <2>20 DEF Keeps
<1> QED BY <1>0, <1>2, <1>3

-----------------------------------------------------------------------------
\* Splitting a block.

\* A block of the header k is not among these, and header k has no block at all.
NotAmong(blocks, k) == \A i \in 1 .. Len(blocks) : blocks[i].num # k

\* Block b is inserted behind block p.
Inserted(old, p, b) ==
  LET new == InsertAt(old, p + 1, b)
  IN  /\ new \in Seq(BlockType)
      /\ \A x : (\E i \in 1 .. Len(new) : new[i] = x) <=> x = b \/ \E j \in 1 .. Len(old) : old[j] = x
      /\ Distinct(old) /\ NotAmong(old, b.num) => Distinct(new)
InsertedIn(tne, heap, c, p, b) ==
  LET new == [heap EXCEPT ![c] = InsertAt(heap[c], p + 1, b)]
  IN  /\ new \in Seq(Seq(BlockType)) /\ Len(new) = Len(heap) /\ HeapGood(tne, new)
      /\ \A x : x \in BlocksOf(new) <=> x = b \/ x \in BlocksOf(heap)

\* Lemma: the blocks with one more among them.
LEMMA InsertedBlocks ==
  ASSUME NEW old \in Seq(BlockType), NEW p \in 1 .. Len(old), NEW b \in BlockType
  PROVE  Inserted(old, p, b)
<1>0. PICK new : new = InsertAt(old, p + 1, b)
  OBVIOUS
<1>1. /\ new \in Seq(BlockType) /\ Len(new) = Len(old) + 1
      /\ \A i \in 1 .. Len(old) + 1 :
           new[i] = IF i <= p THEN old[i] ELSE IF i = p + 1 THEN b ELSE old[i - 1]
  BY <1>0, InsertFacts
<1>2. PICK n \in Nat : n = Len(old)
  OBVIOUS
<1>3. p \in 1 .. n /\ p + 1 \in 1 .. n + 1 /\ new[p + 1] = b
  <2>1. p \in 1 .. n /\ p + 1 \in 1 .. n + 1 /\ ~(p + 1 <= p)
    BY <1>2
  <2> QED BY <1>1, <1>2, <2>1
<1>4. PICK back : back = [i \in 1 .. n + 1 |-> IF i <= p THEN i ELSE i - 1]
  OBVIOUS
<1>5. ASSUME NEW i \in 1 .. n + 1, i # p + 1
      PROVE  back[i] \in 1 .. n /\ new[i] = old[back[i]]
  <2>1. CASE i <= p
    <3>1. back[i] = i /\ i \in 1 .. n
      BY <1>3, <1>4, <2>1
    <3> QED BY <1>1, <1>2, <2>1, <3>1
  <2>2. CASE i > p + 1
    <3>1. back[i] = i - 1 /\ i - 1 \in 1 .. n /\ ~(i <= p)
      BY <1>3, <1>4, <2>2
    <3> QED BY <1>1, <1>2, <2>2, <3>1
  <2> QED BY <1>3, <1>5, <2>1, <2>2
<1>6. \A i, j \in 1 .. n + 1 : i # p + 1 /\ j # p + 1 /\ back[i] = back[j] => i = j
  BY <1>3, <1>4
<1>7. ASSUME NEW j \in 1 .. n PROVE \E i \in 1 .. n + 1 : i # p + 1 /\ back[i] = j
  <2>1. CASE j <= p
    <3>1. j \in 1 .. n + 1 /\ j # p + 1
      BY <1>3, <2>1
    <3>2. back[j] = j
      BY <1>4, <2>1, <3>1
    <3> QED BY <3>1, <3>2
  <2>2. CASE j > p
    <3>1. j + 1 \in 1 .. n + 1 /\ ~(j + 1 <= p) /\ j + 1 # p + 1 /\ (j + 1) - 1 = j
      BY <1>3, <2>2
    <3> QED BY <1>4, <3>1
  <2> QED BY <1>3, <2>1, <2>2
<1>8. \A j \in 1 .. n : \E i \in 1 .. n + 1 : new[i] = old[j]
  <2> SUFFICES ASSUME NEW j \in 1 .. n PROVE \E i \in 1 .. n + 1 : new[i] = old[j]
    BY Zenon
  <2>1. PICK i \in 1 .. n + 1 : i # p + 1 /\ back[i] = j
    BY <1>7, Zenon
  <2>2. new[i] = old[j]
    BY <1>5, <2>1, Zenon
  <2> QED BY <2>2, Zenon
<1>9. ASSUME NEW x
      PROVE  (\E i \in 1 .. n + 1 : new[i] = x) <=> x = b \/ \E j \in 1 .. n : old[j] = x
  <2>1. \A i \in 1 .. n + 1 : new[i] = b \/ \E j \in 1 .. n : old[j] = new[i]
    <3>1. \A i \in 1 .. n + 1 : i # p + 1 => \E j \in 1 .. n : old[j] = new[i]
      BY <1>5
    <3> QED BY <1>3, <3>1, Zenon
  <2> QED BY <1>3, <1>8, <2>1, Zenon
<1>10. ASSUME Distinct(old), NotAmong(old, b.num) PROVE Distinct(new)
  <2> SUFFICES ASSUME NEW i \in 1 .. n + 1, NEW j \in 1 .. n + 1, new[i].num = new[j].num
               PROVE  i = j
    BY <1>1, <1>2 DEF Distinct
  <2>1. \A x \in 1 .. n : old[x].num # b.num
    BY <1>2, <1>10 DEF NotAmong
  <2>2. CASE i = p + 1
    BY <1>3, <1>5, <2>1, <2>2
  <2>3. CASE j = p + 1
    BY <1>3, <1>5, <2>1, <2>3
  <2>4. CASE i # p + 1 /\ j # p + 1
    <3>1. back[i] \in 1 .. n /\ back[j] \in 1 .. n /\ old[back[i]].num = old[back[j]].num
      BY <1>5, <2>4
    <3>2. back[i] = back[j]
      BY <1>2, <1>10, <3>1 DEF Distinct
    <3> QED BY <1>6, <2>4, <3>2
  <2> QED BY <2>2, <2>3, <2>4
<1>11. new \in Seq(BlockType) /\ \A x : (\E i \in 1 .. Len(new) : new[i] = x) <=> x = b \/ \E j \in 1 .. Len(old) : old[j] = x
  BY <1>1, <1>2, <1>9
<1> QED BY <1>0, <1>10, <1>11, Zenon DEF Inserted

\* Lemma: what a good heap says of one chunk.
LEMMA ChunkFacts ==
  ASSUME NEW ent, NEW heap \in Seq(Seq(BlockType)), HeapGood(ent, heap), NEW c \in 1 .. Len(heap)
  PROVE  /\ heap[c] \in Seq(BlockType) /\ Chained(ent, heap[c], c) /\ Distinct(heap[c])
         /\ \A d \in 1 .. Len(heap) : d # c => \A j \in 1 .. Len(heap[d]) :
              \A i \in 1 .. Len(heap[c]) : heap[c][i].num # heap[d][j].num
<1>1. Separate(heap) /\ Chained(ent, heap[c], c) /\ heap[c] \in Seq(BlockType)
  BY BlocksFacts DEF HeapGood
<1>2. Distinct(heap[c])
  BY <1>1 DEF Separate, Distinct
<1>3. \A d \in 1 .. Len(heap) : d # c => \A j \in 1 .. Len(heap[d]) :
              \A i \in 1 .. Len(heap[c]) : heap[c][i].num # heap[d][j].num
  BY <1>1 DEF Separate
<1> QED BY <1>1, <1>2, <1>3

\* Lemma: a block more in one chunk.
LEMMA InsertInHeap ==
  ASSUME NEW ent, NEW tne, NEW heap \in Seq(Seq(BlockType)), HeapGood(ent, heap),
         NEW c \in 1 .. Len(heap), NEW p \in 1 .. Len(heap[c]), NEW b \in BlockType,
         NotIn(heap, b.num), OthersStay(ent, tne, heap, c),
         Chained(tne, InsertAt(heap[c], p + 1, b), c)
  PROVE  InsertedIn(tne, heap, c, p, b)
<1>1. PICK blocks : blocks = InsertAt(heap[c], p + 1, b)
  OBVIOUS
<1>2. /\ heap[c] \in Seq(BlockType) /\ Distinct(heap[c])
      /\ \A d \in 1 .. Len(heap) : d # c => \A j \in 1 .. Len(heap[d]) :
           \A i \in 1 .. Len(heap[c]) : heap[c][i].num # heap[d][j].num
  BY ChunkFacts
<1>3. NotAmong(heap[c], b.num)
  BY DEF NotIn, NotAmong
<1>4. /\ blocks \in Seq(BlockType) /\ Distinct(blocks)
      /\ \A x : (\E i \in 1 .. Len(blocks) : blocks[i] = x) <=> x = b \/ \E j \in 1 .. Len(heap[c]) : heap[c][j] = x
  <2>1. heap[c] \in Seq(BlockType) /\ Distinct(heap[c])
    BY <1>2
  <2>2. Inserted(heap[c], p, b)
    BY <2>1, InsertedBlocks
  <2> QED BY <1>1, <1>3, <2>1, <2>2, Zenon DEF Inserted
<1>5. Apart(heap, c, blocks)
  <2> SUFFICES ASSUME NEW d \in 1 .. Len(heap), d # c, NEW j \in 1 .. Len(heap[d]), NEW i \in 1 .. Len(blocks)
               PROVE  blocks[i].num # heap[d][j].num
    BY DEF Apart
  <2>1. blocks[i] = b \/ \E x \in 1 .. Len(heap[c]) : heap[c][x] = blocks[i]
    BY <1>4
  <2>2. CASE blocks[i] = b
    BY <2>2 DEF NotIn
  <2>3. CASE \E x \in 1 .. Len(heap[c]) : heap[c][x] = blocks[i]
    BY <1>2, <2>3
  <2> QED BY <2>1, <2>2, <2>3
<1>6. PICK new : new = [heap EXCEPT ![c] = blocks]
  OBVIOUS
<1>7. Chained(tne, blocks, c)
  BY <1>1
<1>8. /\ new \in Seq(Seq(BlockType)) /\ Len(new) = Len(heap) /\ HeapGood(tne, new)
      /\ \A x : x \in BlocksOf(new) <=>
                  \/ \E i \in 1 .. Len(blocks) : blocks[i] = x
                  \/ \E d \in 1 .. Len(heap) : d # c /\ \E j \in 1 .. Len(heap[d]) : heap[d][j] = x
  <2>1. blocks \in Seq(BlockType) /\ Distinct(blocks)
    BY <1>4
  <2>2. Replaced(tne, heap, c, blocks)
    BY <1>5, <1>7, <2>1, RewriteChunk
  <2> QED BY <1>6, <2>2, Zenon DEF Replaced
<1>9. \A x : x \in BlocksOf(heap) <=> \E d \in 1 .. Len(heap) : \E j \in 1 .. Len(heap[d]) : heap[d][j] = x
  BY BlocksFacts
<1>10. \A x : x \in BlocksOf(new) <=> x = b \/ x \in BlocksOf(heap)
  <2>1. ASSUME NEW x PROVE x \in BlocksOf(new) <=> x = b \/ x \in BlocksOf(heap)
    BY <1>4, <1>8, <1>9
  <2> QED BY <2>1
<1> QED BY <1>1, <1>6, <1>8, <1>10, Zenon DEF InsertedIn

\* The block of n gives its end to a free block of header k.
SplitOf(s, t, n, k, siz) ==
  LET p == PlaceOf(s, n)
      e == Entry({"FREE"}, s.ent[n].siz - siz, <<s.ent[n].at[1], s.ent[n].at[2] + siz>>, 0)
  IN  /\ t.ent[n] = [s.ent[n] EXCEPT !.siz = siz] /\ t.ent[k] = e
      /\ \A j \in Entries : j # n /\ j # k => t.ent[j] = s.ent[j]
      /\ t.heap = [s.heap EXCEPT ![p[1]] = InsertAt(s.heap[p[1]], p[2] + 1, Block(k, Nothing))]
      /\ t.free = <<k>> \o s.free /\ t.unused = s.unused \ {k}
      /\ t.lru = s.lru /\ t.segs = s.segs /\ t.room = s.room

Shorter(s, n, siz) == siz \in Nat /\ siz > 0 /\ s.ent[n].siz - siz > 0

\* An object keeps all but the size of its block.
KeptSized(s, t, n) ==
  /\ Owned(t, n) /\ Stored(t, n) = Stored(s, n) /\ t.ent[n].flg = s.ent[n].flg
  /\ t.ent[n].locks = s.ent[n].locks /\ t.ent[n].at = s.ent[n].at /\ t.ent[n].seg = s.ent[n].seg
  /\ t.ent[n].siz > 0

\* Lemma: the entry that has given up the end of its block.
LEMMA ShortEntry ==
  ASSUME NEW d \in EntryType, NEW siz \in 0 .. Chunk, NEW e, e = [d EXCEPT !.siz = siz]
  PROVE  /\ e \in EntryType /\ e.flg = d.flg /\ e.siz = siz /\ e.at = d.at /\ e.locks = d.locks
         /\ e.seg = d.seg /\ (EntryGood(d) => EntryGood(e))
BY DEF EntryType, EntryGood

\* Lemma: splitting a block leaves a good state.
LEMMA SplitGood ==
  ASSUME NEW s, Good(s), NEW t, t \in StateType, NEW n \in Entries, NEW k \in s.unused, Has(s, n, "PRES"),
         NEW siz, Shorter(s, n, siz), SplitOf(s, t, n, k, siz)
  PROVE  Good(t) /\ KeepsOthers(s, t, n) /\ KeptSized(s, t, n)
<1>1. s \in StateType
  BY DEF Good
<1>2. PICK c \in 1 .. Len(s.heap) : \E i \in 1 .. Len(s.heap[c]) :
        s.heap[c][i].num = n /\ PlaceOf(s, n) = <<c, i>> /\ DataOf(s, n) = s.heap[c][i].data
  BY HeaderPlace
<1>3. PICK p \in 1 .. Len(s.heap[c]) : s.heap[c][p].num = n /\ PlaceOf(s, n) = <<c, p>>
  BY <1>2
<1>4. /\ k \in Entries /\ s.ent[k].flg = {} /\ s.ent[k].seg = NoSeg
      /\ NotIn(s.heap, k) /\ ~Owned(s, k)
  BY UnusedApart
<1>5. n # k
  BY <1>3, <1>4 DEF NotIn
<1>6. PICK rest \in Nat : rest = s.ent[n].siz - siz
  BY <1>1, EntryFields DEF Shorter
<1>7. /\ s.ent[n].at[1] = c /\ s.ent[n].siz > 0 /\ s.ent[n].at[2] + s.ent[n].siz <= Chunk
  BY <1>3, EndFits
<1>8. /\ s.ent[n].siz \in Nat /\ s.ent[n].at[2] \in Nat /\ rest > 0 /\ s.ent[n].siz = siz + rest
      /\ siz \in Nat /\ siz > 0
  <2>1. s.ent[n].siz \in 0 .. Chunk /\ s.ent[n].at[2] \in 0 .. Chunk
    BY <1>1, EntryFields
  <2>2. siz \in Nat /\ siz > 0 /\ s.ent[n].siz - siz > 0
    BY DEF Shorter
  <2>3. s.ent[n].siz \in Nat /\ s.ent[n].at[2] \in Nat
    BY <2>1, ConstFacts
  <2> QED BY <1>6, <2>2, <2>3
<1>9. PICK e : e = Entry({"FREE"}, rest, <<c, s.ent[n].at[2] + siz>>, 0)
  OBVIOUS
<1>10. /\ e \in EntryType /\ e.flg = {"FREE"} /\ e.siz = rest /\ e.at = <<c, s.ent[n].at[2] + siz>>
       /\ e.locks = 0 /\ e.seg = NoSeg /\ EntryGood(e)
  <2>1. rest \in 0 .. Chunk /\ s.ent[n].at[2] + siz \in 0 .. Chunk
    BY <1>7, <1>8, ConstFacts, SMTT(20)
  <2>2. c \in 0 .. MaxChunks
    BY <1>1, <1>7, EntryFields
  <2>3. <<c, s.ent[n].at[2] + siz>> \in (0 .. MaxChunks) \X (0 .. Chunk)
    BY <2>1, <2>2
  <2> QED BY <1>9, <2>1, <2>3, FreeEntry
<1>11. PICK f : f = [s.ent[n] EXCEPT !.siz = siz]
  OBVIOUS
<1>12. /\ f \in EntryType /\ f.flg = s.ent[n].flg /\ f.siz = siz /\ f.at = s.ent[n].at
       /\ f.locks = s.ent[n].locks /\ f.seg = s.ent[n].seg /\ EntryGood(f)
  <2>1. siz \in 0 .. Chunk
    BY <1>7, <1>8, ConstFacts
  <2>2. s.ent[n] \in EntryType /\ EntryGood(s.ent[n])
    BY <1>1, EntryFields DEF Good
  <2> QED BY <1>11, <2>1, <2>2, ShortEntry
<1>13. PICK b : b = Block(k, Nothing)
  OBVIOUS
<1>14. b \in BlockType /\ b.num = k
  BY <1>4, <1>13 DEF Block, BlockType
<1>15. PICK old : old = s.heap[c]
  OBVIOUS
<1>16. PICK blocks : blocks = InsertAt(old, p + 1, b)
  OBVIOUS
<1>17. /\ t.ent[n] = f /\ t.ent[k] = e /\ (\A j \in Entries : j # n /\ j # k => t.ent[j] = s.ent[j])
       /\ t.heap = [s.heap EXCEPT ![c] = blocks]
       /\ t.free = <<k>> \o s.free /\ t.unused = s.unused \ {k}
       /\ t.lru = s.lru /\ t.segs = s.segs /\ t.room = s.room
  <2>1. PlaceOf(s, n) = <<c, p>> /\ s.ent[n].at[1] = c
    BY <1>3, <1>7
  <2>2. /\ t.ent[n] = [s.ent[n] EXCEPT !.siz = siz]
        /\ t.ent[k] = Entry({"FREE"}, s.ent[n].siz - siz, <<s.ent[n].at[1], s.ent[n].at[2] + siz>>, 0)
        /\ \A j \in Entries : j # n /\ j # k => t.ent[j] = s.ent[j]
        /\ t.heap = [s.heap EXCEPT ![PlaceOf(s, n)[1]] =
                       InsertAt(s.heap[PlaceOf(s, n)[1]], PlaceOf(s, n)[2] + 1, Block(k, Nothing))]
        /\ t.free = <<k>> \o s.free /\ t.unused = s.unused \ {k}
        /\ t.lru = s.lru /\ t.segs = s.segs /\ t.room = s.room
    BY Zenon DEF SplitOf
  <2>3. PlaceOf(s, n)[1] = c /\ PlaceOf(s, n)[2] = p
    BY <2>1
  <2>4. t.heap = [s.heap EXCEPT ![c] = blocks]
    BY <1>13, <1>15, <1>16, <2>2, <2>3, Zenon
  <2>5. t.ent[n] = f /\ t.ent[k] = e
    BY <1>6, <1>9, <1>11, <2>1, <2>2, Zenon
  <2> QED BY <2>2, <2>4, <2>5, Zenon
<1>18. old \in Seq(BlockType) /\ Chained(s.ent, old, c) /\ p \in 1 .. Len(old) /\ old[p].num = n
  BY <1>1, <1>3, <1>15, StateFields, BlocksFacts DEF Good, HeapGood
<1>20. ASSUME NEW d \in 1 .. Len(s.heap), NEW j \in 1 .. Len(s.heap[d])
       PROVE  /\ s.heap[d][j].num \in Entries /\ s.heap[d][j].num # k
              /\ (s.heap[d][j].num = n => d = c /\ j = p)
              /\ (s.heap[d][j].num # n => SamePlace(s.ent, t.ent, s.heap[d][j].num, s.heap[d][j].num))
  <2>1. s.heap[d][j].num \in Entries
    BY <1>1, StateFields, BlocksFacts
  <2>2. s.heap[d][j].num # k
    BY <1>4 DEF NotIn
  <2>3. Separate(s.heap)
    BY DEF Good, HeapGood
  <2>4. s.heap[d][j].num = n => d = c /\ j = p
    BY <1>3, <2>3 DEF Separate
  <2> QED BY <1>17, <2>1, <2>2, <2>4 DEF SamePlace
<1>21. Chained(t.ent, blocks, c)
  <2>1. NumbersIn(s.ent, old)
    <3>1. \A i \in 1 .. Len(old) : old[i].num \in Entries
      BY <1>15, <1>20
    <3>2. \A j \in Entries : s.ent[j].at[2] \in Nat /\ s.ent[j].siz \in Nat
      BY <1>1, EntryFields, ConstFacts
    <3> QED BY <3>1, <3>2 DEF NumbersIn
  <2>2. StayBut(s.ent, t.ent, old, {p})
    BY <1>3, <1>15, <1>20 DEF StayBut
  <2>3. /\ s.ent[old[p].num].siz = siz + rest /\ t.ent[old[p].num].at = s.ent[old[p].num].at
        /\ t.ent[old[p].num].siz = siz /\ t.ent[b.num].at[1] = c /\ t.ent[b.num].siz = rest
        /\ t.ent[b.num].at[2] = s.ent[old[p].num].at[2] + siz
    BY <1>8, <1>10, <1>12, <1>14, <1>17, <1>18
  <2> QED BY <1>8, <1>14, <1>16, <1>18, <2>1, <2>2, <2>3, ChainSplit
<1>22. /\ HeapGood(t.ent, t.heap) /\ Len(t.heap) = Len(s.heap)
       /\ \A x : x \in BlocksOf(t.heap) <=> x = b \/ x \in BlocksOf(s.heap)
  <2>1. s.heap \in Seq(Seq(BlockType)) /\ HeapGood(s.ent, s.heap)
    BY <1>1, StateFields DEF Good
  <2>2. OthersStay(s.ent, t.ent, s.heap, c)
    BY <1>20 DEF OthersStay
  <2>3. NotIn(s.heap, b.num)
    BY <1>4, <1>14
  <2>4. Chained(t.ent, InsertAt(s.heap[c], p + 1, b), c)
    BY <1>15, <1>16, <1>21
  <2>5. t.heap = [s.heap EXCEPT ![c] = InsertAt(s.heap[c], p + 1, b)]
    BY <1>15, <1>16, <1>17
  <2>6. b \in BlockType
    BY <1>14
  <2>7. InsertedIn(t.ent, s.heap, c, p, b)
    BY <2>1, <2>2, <2>3, <2>4, <2>6, InsertInHeap
  <2> QED BY <2>5, <2>7, Zenon DEF InsertedIn
<1>23. \A x : x \in BlocksOf(t.heap) <=> x = b \/ x \in BlocksOf(s.heap)
  BY <1>22
<1>24. \A j \in Entries : EntryGood(t.ent[j])
  BY <1>10, <1>12, <1>17 DEF Good
<1>25. HeadersGood(t.ent, t.heap)
  <2> SUFFICES ASSUME NEW j \in Entries
               PROVE  InMemory(t.ent[j]) <=> \E x \in BlocksOf(t.heap) : x.num = j
    BY DEF HeadersGood
  <2>1. InMemory(s.ent[j]) <=> \E x \in BlocksOf(s.heap) : x.num = j
    BY DEF Good, HeadersGood
  <2>2. CASE j = k
    BY <1>10, <1>14, <1>17, <1>23, <2>2 DEF InMemory
  <2>3. CASE j # k
    <3>1. t.ent[j].flg = s.ent[j].flg
      BY <1>12, <1>17, <2>3
    <3> QED BY <1>14, <1>23, <2>1, <2>3, <3>1 DEF InMemory
  <2> QED BY <2>2, <2>3
<1>26. ListsGood(t.ent, t.free, t.lru)
  <2>1. ListOf(s.ent, s.free, "FREE") /\ ListOf(s.ent, s.lru, "LRU") /\ s.free \in Seq(Entries)
    BY <1>1, StateFields DEF Good, ListsGood
  <2>2. FlagStays(s.ent, t.ent, "FREE", k) /\ FlagStays(s.ent, t.ent, "LRU", k)
    BY <1>12, <1>17 DEF FlagStays
  <2>3. "FREE" \notin s.ent[k].flg /\ "FREE" \in t.ent[k].flg
        /\ ("LRU" \in t.ent[k].flg <=> "LRU" \in s.ent[k].flg)
    BY <1>4, <1>10, <1>17
  <2>4. ListOf(t.ent, t.free, "FREE")
    <3>1. t.free = <<k>> \o s.free
      BY <1>17
    <3> QED BY <1>4, <2>1, <2>2, <2>3, <3>1, ListCons, SMTT(20)
  <2>5. ListOf(t.ent, t.lru, "LRU")
    BY <1>17, <2>1, <2>2, <2>3, ListSame
  <2> QED BY <2>4, <2>5 DEF ListsGood
<1>27. \A j \in t.unused : t.ent[j] = UnusedEntry
  <2>1. n \notin s.unused
    BY <1>3, UnusedApart DEF NotIn
  <2> QED BY <1>1, <1>17, <2>1, StateFields DEF Good
<1>28. SegsGood(t.ent, t.segs)
  <2>1. SegsGood(s.ent, s.segs)
    BY DEF Good
  <2>2. SegsKept(s.ent, t.ent)
    BY <1>10, <1>12, <1>17 DEF SegsKept
  <2> QED BY <1>17, <2>1, <2>2, SegsStay
<1>29. FileSize(t) <= SwapSize
  BY <1>17, FileStays DEF Good
<1>30. t.room >= 0 /\ t.heap # << >> /\ t.room + Len(t.heap) <= MaxChunks
  <2>1. s.room >= 0 /\ s.room + Len(s.heap) <= MaxChunks
    BY DEF Good
  <2>2. t.heap # << >>
    BY <1>22
  <2> QED BY <1>17, <1>22, <2>1, <2>2
<1>31. Good(t)
  BY <1>22, <1>24, <1>25, <1>26, <1>27, <1>28, <1>29, <1>30, GoodParts
<1>32. Separate(t.heap)
  BY <1>22 DEF HeapGood
<1>33. ASSUME NEW j, Owned(s, j), j # n PROVE Kept(s, t, j)
  <2>1. j # k /\ j \in Entries
    BY <1>4, <1>33 DEF Owned
  <2>2. j \notin t.unused /\ SameEntry(s, t, j) /\ BlockStays(s, t, j)
    BY <1>17, <1>23, <1>33, <2>1 DEF Owned, SameEntry, BlockStays
  <2>3. t.segs = s.segs
    BY <1>17
  <2> QED BY <1>32, <1>33, <2>2, <2>3, KeptIf
<1>34. KeptSized(s, t, n)
  <2>1. n \notin t.unused /\ ~Has(s, n, "FREE")
    <3>1. n \notin s.unused
      BY <1>3, UnusedApart DEF NotIn
    <3>2. EntryGood(s.ent[n])
      BY DEF Good
    <3> QED BY <1>17, <3>1, <3>2 DEF EntryGood, Has
  <2>2. Owned(t, n) /\ Has(t, n, "PRES")
    BY <1>12, <1>17, <2>1 DEF Owned, Has
  <2>3. BlockStays(s, t, n)
    BY <1>23 DEF BlockStays
  <2>4. Stored(t, n) = Stored(s, n)
    BY <1>32, <2>2, <2>3, SameData DEF Stored
  <2> QED BY <1>8, <1>12, <1>17, <2>2, <2>4 DEF KeptSized
<1>35. Modest(s, t)
  BY <1>10, <1>12, <1>17 DEF Modest
<1> QED BY <1>31, <1>33, <1>34, <1>35 DEF KeepsOthers

\* Lemma: entries and heap change together.
LEMMA WithEntHeap ==
  ASSUME NEW s \in StateType, NEW x \in [Entries -> EntryType], NEW y \in Seq(Seq(BlockType)),
         NEW t, t = [s EXCEPT !.ent = x, !.heap = y]
  PROVE  Fields(t, x, y, s.free, s.unused, s.lru, s.segs, s.room)
BY DEF StateType, Fields

\* Lemma: the parts of the state after a block is split.
LEMMA SplitFields ==
  ASSUME NEW s \in StateType, NEW n \in Entries, NEW k \in Entries, k # n, NEW c \in 1 .. Len(s.heap),
         NEW p \in 1 .. Len(s.heap[c]), NEW siz \in 0 .. Chunk, NEW e \in EntryType, NEW t,
         t = LinkFree(Use([s EXCEPT !.ent[n].siz = siz,
                                    !.heap[c] = InsertAt(@, p + 1, Block(k, Nothing))], k, e), k)
  PROVE  Fields(t, [[s.ent EXCEPT ![n] = [s.ent[n] EXCEPT !.siz = siz]] EXCEPT ![k] = e],
                [s.heap EXCEPT ![c] = InsertAt(s.heap[c], p + 1, Block(k, Nothing))],
                <<k>> \o s.free, s.unused \ {k}, s.lru, s.segs, s.room)
<1>0. s.ent \in [Entries -> EntryType] /\ s.heap \in Seq(Seq(BlockType))
  BY StateFields
<1>1. PICK x : x = [s.ent EXCEPT ![n] = [s.ent[n] EXCEPT !.siz = siz]]
  OBVIOUS
<1>2. x \in [Entries -> EntryType]
  <2>1. [s.ent[n] EXCEPT !.siz = siz] \in EntryType
    BY <1>0, ShortEntry
  <2> QED BY <1>0, <1>1, <2>1
<1>3. PICK b : b = Block(k, Nothing)
  OBVIOUS
<1>4. PICK blocks : blocks = InsertAt(s.heap[c], p + 1, b)
  OBVIOUS
<1>5. PICK y : y = [s.heap EXCEPT ![c] = blocks]
  OBVIOUS
<1>6. y \in Seq(Seq(BlockType))
  <2>1. b \in BlockType
    BY <1>3 DEF Block, BlockType
  <2>2. s.heap[c] \in Seq(BlockType)
    BY <1>0
  <2>3. Inserted(s.heap[c], p, b)
    BY <2>1, <2>2, InsertedBlocks
  <2>4. blocks \in Seq(BlockType)
    BY <1>4, <2>3, Zenon DEF Inserted
  <2> QED BY <1>0, <1>5, <2>4
<1>7. PICK u : u = [s EXCEPT !.ent = x, !.heap = y]
  OBVIOUS
<1>8. Fields(u, x, y, s.free, s.unused, s.lru, s.segs, s.room)
  BY <1>2, <1>6, <1>7, WithEntHeap
<1>9. u = [s EXCEPT !.ent[n].siz = siz, !.heap[c] = InsertAt(@, p + 1, b)]
  BY <1>1, <1>4, <1>5, <1>7
<1>10. PICK v : v = Use(u, k, e)
  OBVIOUS
<1>11. Fields(v, [x EXCEPT ![k] = e], y, s.free, s.unused \ {k}, s.lru, s.segs, s.room)
  <2>1. u \in StateType
    BY <1>8 DEF Fields
  <2>2. /\ v \in StateType
        /\ v.ent = [u.ent EXCEPT ![k] = e] /\ v.unused = u.unused \ {k}
        /\ v.heap = u.heap /\ v.free = u.free /\ v.lru = u.lru
        /\ v.segs = u.segs /\ v.room = u.room
    BY <1>10, <2>1, UseFacts
  <2> QED BY <1>8, <2>2, Zenon DEF Fields
<1>12. t = LinkFree(v, k)
  BY <1>3, <1>9, <1>10
<1>13. Fields(t, [x EXCEPT ![k] = e], y, <<k>> \o s.free, s.unused \ {k}, s.lru, s.segs, s.room)
  <2>1. v \in StateType
    BY <1>11 DEF Fields
  <2>2. ASSUME NEW w, w = LinkFree(v, k)
        PROVE  /\ w \in StateType /\ w.free = <<k>> \o v.free
               /\ w.ent = v.ent /\ w.unused = v.unused
               /\ w.heap = v.heap /\ w.lru = v.lru
               /\ w.segs = v.segs /\ w.room = v.room
    BY <2>1, <2>2, LinkFreeFacts
  <2> QED BY <1>11, <1>12, <2>2, Zenon DEF Fields
<1> QED BY <1>1, <1>3, <1>4, <1>5, <1>13

\* A free block becomes that of a locked object.
TakenEntry(e) == [e EXCEPT !.flg = {"NODISC", "LOCK", "PRES"}, !.locks = 1, !.seg = NoSeg]
Taken(s, n) == [s EXCEPT !.free = RemoveFirst(@, n), !.ent[n] = TakenEntry(@)]

\* Lemma: its entry.
LEMMA TakenEntryFacts ==
  ASSUME NEW d \in EntryType, NEW e, e = TakenEntry(d)
  PROVE  /\ e \in EntryType /\ e.flg = {"NODISC", "LOCK", "PRES"} /\ e.siz = d.siz /\ e.at = d.at
         /\ e.locks = 1 /\ e.seg = NoSeg
BY DEF TakenEntry, EntryType, Flags, NoSeg

-----------------------------------------------------------------------------
\* Taking a free block: one attempt to allocate.

\* Lemma: the parts of the state after a block is taken.
LEMMA TakenFields ==
  ASSUME NEW s \in StateType, IsInjective(s.free), NEW n \in Entries
  PROVE  Fields(Taken(s, n), [s.ent EXCEPT ![n] = TakenEntry(s.ent[n])], s.heap,
                RemoveFirst(s.free, n), s.unused, s.lru, s.segs, s.room)
<1>1. s.ent \in [Entries -> EntryType] /\ s.free \in Seq(Entries)
  BY StateFields
<1>2. PICK e : e = TakenEntry(s.ent[n])
  OBVIOUS
<1>3. e \in EntryType
  BY <1>1, <1>2, TakenEntryFacts
<1>4. PICK x : x = [s.ent EXCEPT ![n] = e]
  OBVIOUS
<1>5. x \in [Entries -> EntryType]
  BY <1>1, <1>3, <1>4
<1>6. PICK f : f = RemoveFirst(s.free, n)
  OBVIOUS
<1>7. f \in Seq(Entries)
  BY <1>1, <1>6, RemoveFirstFacts
<1>8. PICK t : t = [s EXCEPT !.free = f, !.ent = x]
  OBVIOUS
<1>9. Fields(t, x, s.heap, f, s.unused, s.lru, s.segs, s.room)
  BY <1>5, <1>7, <1>8 DEF Fields, StateType
<1>10. t = Taken(s, n)
  BY <1>2, <1>4, <1>6, <1>8 DEF Taken
<1> QED BY <1>2, <1>4, <1>6, <1>9, <1>10

\* Lemma: the taken block is that of a locked object.
LEMMA TakeGood ==
  ASSUME NEW s, Good(s), NEW n \in Entries, Has(s, n, "FREE"), NEW t, t = Taken(s, n)
  PROVE  Good(t) /\ Keeps(s, t) /\ Fresh(s, t, n) /\ t.heap = s.heap /\ t.unused = s.unused
<1>1. s \in StateType
  BY DEF Good
<1>2. PICK e : e = TakenEntry(s.ent[n])
  OBVIOUS
<1>3. /\ e \in EntryType /\ e.flg = {"NODISC", "LOCK", "PRES"} /\ e.siz = s.ent[n].siz
      /\ e.at = s.ent[n].at /\ e.locks = 1 /\ e.seg = NoSeg
  <2>1. s.ent[n] \in EntryType
    BY <1>1, EntryFields
  <2> QED BY <1>2, <2>1, TakenEntryFacts
<1>4. EntryGood(e)
  BY <1>3 DEF EntryGood
<1>5. Fields(t, [s.ent EXCEPT ![n] = e], s.heap, RemoveFirst(s.free, n), s.unused, s.lru, s.segs, s.room)
  <2>1. IsInjective(s.free)
    BY DEF Good, ListsGood, ListOf
  <2> QED BY <1>1, <1>2, <2>1, TakenFields
<1>6. /\ t \in StateType /\ t.ent = [s.ent EXCEPT ![n] = e] /\ t.heap = s.heap
      /\ t.free = RemoveFirst(s.free, n) /\ t.unused = s.unused /\ t.lru = s.lru
      /\ t.segs = s.segs /\ t.room = s.room
  BY <1>5 DEF Fields
<1>7. t.ent[n] = e /\ \A j \in Entries : j # n => t.ent[j] = s.ent[j]
  BY <1>1, <1>6, StateFields
<1>8. /\ s.ent[n].flg = {"FREE"} /\ n \notin s.unused
  <2>1. EntryGood(s.ent[n])
    BY DEF Good
  <2>2. s.ent[n].flg = {"FREE"}
    BY <2>1 DEF EntryGood, Has
  <2>3. n \in s.unused => s.ent[n].flg = {}
    BY UnusedEntryFacts DEF Good
  <2> QED BY <2>2, <2>3
<1>9. \A j \in Entries : EntryGood(t.ent[j])
  BY <1>4, <1>7 DEF Good
<1>10. HeapGood(t.ent, t.heap)
  <2>1. s.heap \in Seq(Seq(BlockType)) /\ HeapGood(s.ent, s.heap) /\ Separate(s.heap)
    BY <1>1, StateFields DEF Good, HeapGood
  <2>2. ASSUME NEW c \in 1 .. Len(s.heap), NEW i \in 1 .. Len(s.heap[c])
        PROVE  SamePlace(s.ent, t.ent, s.heap[c][i].num, s.heap[c][i].num)
    <3>1. s.heap[c][i].num \in Entries
      BY <2>1, BlocksFacts
    <3> QED BY <1>3, <1>7, <3>1 DEF SamePlace
  <2>3. HeapGood(t.ent, s.heap)
    BY <2>1, <2>2, RelabelHeap
  <2> QED BY <1>6, <2>3
<1>11. HeadersGood(t.ent, t.heap)
  <2>1. HeadersGood(s.ent, s.heap)
    BY DEF Good
  <2> QED BY <1>3, <1>6, <1>7, <1>8, <2>1 DEF HeadersGood, InMemory
<1>12. ListsGood(t.ent, t.free, t.lru)
  <2>1. ListOf(s.ent, s.free, "FREE") /\ ListOf(s.ent, s.lru, "LRU") /\ s.free \in Seq(Entries)
    BY <1>1, StateFields DEF Good, ListsGood
  <2>2. FlagStays(s.ent, t.ent, "FREE", n) /\ FlagStays(s.ent, t.ent, "LRU", n)
    BY <1>7 DEF FlagStays
  <2>3. "FREE" \notin t.ent[n].flg /\ ("LRU" \in t.ent[n].flg <=> "LRU" \in s.ent[n].flg)
    BY <1>3, <1>7, <1>8
  <2>4. ListOf(t.ent, t.free, "FREE")
    <3>1. t.free = RemoveFirst(s.free, n)
      BY <1>6
    <3> QED BY <2>1, <2>2, <2>3, <3>1, ListDrop
  <2>5. ListOf(t.ent, t.lru, "LRU")
    BY <1>6, <2>1, <2>2, <2>3, ListSame
  <2> QED BY <2>4, <2>5 DEF ListsGood
<1>13. \A j \in t.unused : t.ent[j] = UnusedEntry
  BY <1>1, <1>6, <1>7, <1>8, StateFields DEF Good
<1>14. SegsGood(t.ent, t.segs)
  <2>1. SegsGood(s.ent, s.segs)
    BY DEF Good
  <2>2. SegsKept(s.ent, t.ent)
    BY <1>3, <1>7 DEF SegsKept
  <2> QED BY <1>6, <2>1, <2>2, SegsStay
<1>15. FileSize(t) <= SwapSize
  BY <1>6, FileStays DEF Good
<1>16. t.room >= 0 /\ t.heap # << >> /\ t.room + Len(t.heap) <= MaxChunks
  BY <1>6 DEF Good
<1>17. Good(t)
  BY <1>6, <1>9, <1>10, <1>11, <1>12, <1>13, <1>14, <1>15, <1>16, GoodParts
<1>18. ASSUME NEW j, Owned(s, j) PROVE Kept(s, t, j)
  <2>1. j # n /\ j \in Entries
    BY <1>18 DEF Owned
  <2>2. j \notin t.unused /\ SameEntry(s, t, j) /\ BlockStays(s, t, j)
    BY <1>6, <1>7, <1>18, <2>1 DEF Owned, SameEntry, BlockStays
  <2>3. t.segs = s.segs /\ Separate(t.heap) /\ t \in StateType
    BY <1>6, <1>10 DEF HeapGood
  <2> QED BY <1>18, <2>2, <2>3, KeptIf
<1>19. Fresh(s, t, n)
  BY <1>3, <1>6, <1>7, <1>8 DEF Fresh, Owned
<1>20. Modest(s, t)
  BY <1>3, <1>7, <1>8 DEF Modest
<1> QED BY <1>6, <1>17, <1>18, <1>19, <1>20 DEF Keeps

\* Lemma: the header that is taken is none of those of the heap.
LEMMA UnusedOther ==
  ASSUME NEW s, Good(s), s.unused # {}, NEW n \in Entries, Has(s, n, "PRES") \/ Has(s, n, "FREE")
  PROVE  Unused(s) \in s.unused /\ Unused(s) \in Entries /\ Unused(s) # n
<1>1. Unused(s) \in s.unused /\ Unused(s) \in Entries
  BY UnusedFacts DEF Good
<1>2. s.ent[Unused(s)].flg = {}
  BY <1>1, UnusedApart
<1> QED BY <1>1, <1>2 DEF Has

\* Lemma: the numbers of a block that is split.
LEMMA RestFacts ==
  ASSUME NEW z \in 0 .. Chunk, NEW siz \in Nat, siz > 0, ~(z - siz < Split), NEW a \in Nat, a + z <= Chunk
  PROVE  z - siz \in 0 .. Chunk /\ z - siz > 0 /\ siz \in 0 .. Chunk /\ a + siz \in 0 .. Chunk
BY ConstFacts

\* Lemma: mcmsplt keeps the object whose block it is, and all others.
LEMMA mcmspltGood ==
  ASSUME NEW s, Good(s), NEW n \in Entries, Has(s, n, "PRES"), NEW siz \in Nat, siz > 0
  PROVE  Good(mcmsplt(s, n, siz)) /\ KeepsOthers(s, mcmsplt(s, n, siz), n)
         /\ KeptSized(s, mcmsplt(s, n, siz), n)
<1>1. s \in StateType
  BY DEF Good
<1>2. PICK c \in 1 .. Len(s.heap) : \E i \in 1 .. Len(s.heap[c]) :
        s.heap[c][i].num = n /\ PlaceOf(s, n) = <<c, i>> /\ DataOf(s, n) = s.heap[c][i].data
  BY HeaderPlace
<1>3. PICK p \in 1 .. Len(s.heap[c]) : s.heap[c][p].num = n /\ PlaceOf(s, n) = <<c, p>>
  BY <1>2
<1>4. s.ent[n].siz > 0 /\ s.ent[n].at[1] = c /\ s.ent[n].siz \in 0 .. Chunk
      /\ s.ent[n].at[2] + s.ent[n].siz <= Chunk /\ s.ent[n].at[2] \in Nat
  <2>1. s.ent[n].siz > 0 /\ s.ent[n].at[1] = c /\ s.ent[n].at[2] + s.ent[n].siz <= Chunk
    BY <1>3, EndFits
  <2>2. s.ent[n].siz \in 0 .. Chunk /\ s.ent[n].at[2] \in 0 .. Chunk
    BY <1>1, EntryFields
  <2> QED BY <2>1, <2>2, ConstFacts
<1>5. CASE s.ent[n].siz - siz < Split \/ s.unused = {}
  <2>1. mcmsplt(s, n, siz) = s
    BY <1>5, Zenon DEF mcmsplt
  <2>2. Owned(s, n)
    BY UnusedEntryFacts DEF Owned, Good, Has, EntryGood
  <2> QED BY <1>4, <2>1, <2>2 DEF KeepsOthers, Kept, KeptSized, Modest
<1>6. CASE ~(s.ent[n].siz - siz < Split \/ s.unused = {})
  <2>1. PICK k : k = Unused(s)
    OBVIOUS
  <2>2. k \in s.unused /\ k \in Entries /\ k # n
    BY <1>6, <2>1, UnusedOther
  <2>3. PICK rest : rest = s.ent[n].siz - siz
    OBVIOUS
  <2>4. rest \in 0 .. Chunk /\ rest > 0 /\ siz \in 0 .. Chunk /\ s.ent[n].at[2] + siz \in 0 .. Chunk
    BY <1>4, <1>6, <2>3, ConstFacts, RestFacts
  <2>5. PICK e : e = Entry({"FREE"}, rest, <<s.ent[n].at[1], s.ent[n].at[2] + siz>>, 0)
    OBVIOUS
  <2>6. e \in EntryType
    <3>1. <<s.ent[n].at[1], s.ent[n].at[2] + siz>> \in (0 .. MaxChunks) \X (0 .. Chunk)
      BY <1>1, <2>4, EntryFields
    <3> QED BY <2>4, <2>5, <3>1, FreeEntry
  <2>7. PICK t : t = mcmsplt(s, n, siz)
    OBVIOUS
  <2>8. t = LinkFree(Use([s EXCEPT !.ent[n].siz = siz,
                                   !.heap[c] = InsertAt(@, p + 1, Block(k, Nothing))], k, e), k)
    <3>1. PlaceOf(s, n)[1] = c /\ PlaceOf(s, n)[2] = p
      BY <1>3
    <3> QED BY <1>6, <2>1, <2>3, <2>5, <2>7, <3>1 DEF mcmsplt
  <2>9. Fields(t, [[s.ent EXCEPT ![n] = [s.ent[n] EXCEPT !.siz = siz]] EXCEPT ![k] = e],
               [s.heap EXCEPT ![c] = InsertAt(s.heap[c], p + 1, Block(k, Nothing))],
               <<k>> \o s.free, s.unused \ {k}, s.lru, s.segs, s.room)
    BY <1>1, <2>2, <2>4, <2>6, <2>8, SplitFields
  <2>10. SplitOf(s, t, n, k, siz)
    <3>1. PlaceOf(s, n)[1] = c /\ PlaceOf(s, n)[2] = p
      BY <1>3
    <3>2. s.ent \in [Entries -> EntryType] /\ t.ent = [[s.ent EXCEPT ![n] = [s.ent[n] EXCEPT !.siz = siz]] EXCEPT ![k] = e]
      BY <1>1, <2>9, StateFields DEF Fields
    <3>3. /\ t.ent[n] = [s.ent[n] EXCEPT !.siz = siz] /\ t.ent[k] = e
          /\ \A j \in Entries : j # n /\ j # k => t.ent[j] = s.ent[j]
      BY <2>2, <3>2
    <3>4. t.heap = [s.heap EXCEPT ![PlaceOf(s, n)[1]] =
                       InsertAt(s.heap[PlaceOf(s, n)[1]], PlaceOf(s, n)[2] + 1, Block(k, Nothing))]
      BY <2>9, <3>1, Zenon DEF Fields
    <3>5. /\ t.free = <<k>> \o s.free /\ t.unused = s.unused \ {k}
          /\ t.lru = s.lru /\ t.segs = s.segs /\ t.room = s.room
      BY <2>9, Zenon DEF Fields
    <3> QED BY <2>3, <2>5, <3>3, <3>4, <3>5, Zenon DEF SplitOf
  <2>11. Shorter(s, n, siz) /\ t \in StateType
    BY <2>3, <2>4, <2>9 DEF Shorter, Fields
  <2>12. Good(t) /\ KeepsOthers(s, t, n) /\ KeptSized(s, t, n)
    BY <2>2, <2>10, <2>11, SplitGood
  <2> QED BY <2>7, <2>12
<1> QED BY <1>5, <1>6

\* Lemma: of some numbers there is one with the least measure, the first of those.
LEMMA LeastFirst ==
  ASSUME NEW I, I \in SUBSET Nat, I # {}, NEW f, \A i \in I : f[i] \in Nat
  PROVE  \E i \in I : \A j \in I : f[i] < f[j] \/ (f[i] = f[j] /\ i <= j)
<1>1. PICK V : V = {f[i] : i \in I}
  OBVIOUS
<1>2. V \in SUBSET Nat /\ V # {}
  BY <1>1
<1>3. PICK v \in V : \A w \in V : v <= w
  BY <1>2, InNat!LeastNat
<1>4. PICK J : J = {i \in I : f[i] = v}
  OBVIOUS
<1>5. J \in SUBSET Nat /\ J # {}
  BY <1>1, <1>4
<1>6. PICK i \in J : \A j \in J : i <= j
  BY <1>5, InNat!LeastNat
<1>7. i \in I /\ f[i] = v
  BY <1>4, <1>6
<1>8. ASSUME NEW j \in I PROVE f[i] < f[j] \/ (f[i] = f[j] /\ i <= j)
  <2>1. f[j] \in V /\ f[j] \in Nat /\ v \in Nat
    BY <1>1, <1>2
  <2>2. v <= f[j]
    BY <1>3, <2>1
  <2>3. CASE f[j] = v
    <3>1. j \in J
      BY <1>4, <2>3
    <3> QED BY <1>6, <1>7, <2>3, <3>1
  <2>4. CASE f[j] # v
    <3>1. \A x, y \in Nat : x <= y /\ y # x => x < y
      OBVIOUS
    <3>2. v < f[j]
      BY <2>1, <2>2, <2>4, <3>1
    <3> QED BY <1>7, <3>2
  <2> QED BY <2>3, <2>4
<1> QED BY <1>7, <1>8

\* Lemma: the block that fits best is a free one.
LEMMA BestFitFree ==
  ASSUME NEW s, Good(s), NEW siz, Fits(s, siz) # {}
  PROVE  BestFit(s, siz) \in Entries /\ Has(s, BestFit(s, siz), "FREE")
<1>1. s \in StateType /\ s.free \in Seq(Entries)
  BY StateFields DEF Good
<1>2. PICK I : I = Fits(s, siz)
  OBVIOUS
<1>3. PICK f : f = [i \in I |-> s.ent[s.free[i]].siz]
  OBVIOUS
<1>4. I \in SUBSET (1 .. Len(s.free)) /\ I # {}
  BY <1>1, <1>2 DEF Fits
<1>5. \A i \in I : f[i] = s.ent[s.free[i]].siz /\ f[i] \in Nat
  <2> SUFFICES ASSUME NEW i \in I PROVE f[i] = s.ent[s.free[i]].siz /\ f[i] \in Nat
    OBVIOUS
  <2>1. s.free[i] \in Entries
    BY <1>1, <1>4
  <2> QED BY <1>1, <1>3, <2>1, EntryFields, ConstFacts
<1>6. I \in SUBSET Nat
  BY <1>1, <1>4
<1>7. \E i \in I : \A j \in I : f[i] < f[j] \/ (f[i] = f[j] /\ i <= j)
  BY <1>4, <1>5, <1>6, LeastFirst
<1>8. \E i \in I : \A j \in I :
           \/ s.ent[s.free[i]].siz < s.ent[s.free[j]].siz
           \/ s.ent[s.free[i]].siz = s.ent[s.free[j]].siz /\ i <= j
  BY <1>5, <1>7
<1>9. PICK i \in I : BestFit(s, siz) = s.free[i]
  BY <1>2, <1>8 DEF BestFit
<1>10. s.free[i] \in Entries /\ s.free[i] \in ToSet(s.free)
  BY <1>1, <1>4, ToSetFacts
<1> QED BY <1>9, <1>10 DEF Good, ListsGood, ListOf, Has

\* Lemma: states with the same parts are the same.
LEMMA SameState ==
  ASSUME NEW s, NEW t, NEW a, NEW b, NEW c, NEW d, NEW e, NEW f, NEW g,
         Fields(s, a, b, c, d, e, f, g), Fields(t, a, b, c, d, e, f, g)
  PROVE  s = t
<1>1. s = [ent |-> s.ent, heap |-> s.heap, free |-> s.free, unused |-> s.unused, lru |-> s.lru,
           segs |-> s.segs, room |-> s.room]
  BY DEF Fields, StateType
<1>2. t = [ent |-> t.ent, heap |-> t.heap, free |-> t.free, unused |-> t.unused, lru |-> t.lru,
           segs |-> t.segs, room |-> t.room]
  BY DEF Fields, StateType
<1>3. /\ s.ent = t.ent /\ s.heap = t.heap /\ s.free = t.free /\ s.unused = t.unused
      /\ s.lru = t.lru /\ s.segs = t.segs /\ s.room = t.room
  BY Zenon DEF Fields
<1> QED BY <1>1, <1>2, <1>3, Zenon

\* Lemma: an entry's fields that a request sets, and the size of its block.
LEMMA TakenShort ==
  ASSUME NEW d \in EntryType, NEW siz
  PROVE  TakenEntry([d EXCEPT !.siz = siz]) = [TakenEntry(d) EXCEPT !.siz = siz]
BY DEF TakenEntry, EntryType

\* Lemma: a request takes a free block.
LEMMA GrabGood ==
  ASSUME NEW s, Good(s), NEW n \in Entries, Has(s, n, "FREE"), NEW siz \in Nat, siz > 0
  PROVE  /\ Good(Grab(s, n, siz).m) /\ Keeps(s, Grab(s, n, siz).m)
         /\ Fresh(s, Grab(s, n, siz).m, n) /\ Grab(s, n, siz).n = n
<1>1. s \in StateType /\ s.free \in Seq(Entries) /\ IsInjective(s.free)
      /\ s.ent \in [Entries -> EntryType] /\ s.ent[n] \in EntryType
  BY StateFields, EntryFields DEF Good, ListsGood, ListOf
<1>2. PICK u : u = Taken(s, n)
  OBVIOUS
<1>3. Good(u) /\ Keeps(s, u) /\ Fresh(s, u, n) /\ u.heap = s.heap /\ u.unused = s.unused
  BY <1>2, TakeGood
<1>4. Fields(u, [s.ent EXCEPT ![n] = TakenEntry(s.ent[n])], s.heap,
             RemoveFirst(s.free, n), s.unused, s.lru, s.segs, s.room)
  BY <1>1, <1>2, TakenFields
<1>5. PICK v : v = [s EXCEPT !.free = RemoveFirst(s.free, n)]
  OBVIOUS
<1>6. Fields(v, s.ent, s.heap, RemoveFirst(s.free, n), s.unused, s.lru, s.segs, s.room)
  <2>1. PICK f : f = RemoveFirst(s.free, n)
    OBVIOUS
  <2>2. f \in Seq(Entries)
    BY <1>1, <2>1, RemoveFirstFacts
  <2>3. v = [s EXCEPT !.free = f]
    BY <1>5, <2>1
  <2>4. /\ v \in StateType /\ v.free = f /\ v.ent = s.ent /\ v.heap = s.heap /\ v.unused = s.unused
        /\ v.lru = s.lru /\ v.segs = s.segs /\ v.room = s.room
    BY <1>1, <2>2, <2>3, WithFree
  <2> QED BY <2>1, <2>4 DEF Fields
<1>7. PICK g : g = Grab(s, n, siz).m
  OBVIOUS
<1>8. Grab(s, n, siz).n = n
  BY DEF Grab
<1>9. v \in StateType /\ v.ent = s.ent /\ v.unused = s.unused /\ v.heap = s.heap
  BY <1>6 DEF Fields
<1>10. g = [mcmsplt(v, n, siz) EXCEPT !.ent[n].flg = {"NODISC", "LOCK", "PRES"},
                                      !.ent[n].locks = 1, !.ent[n].seg = NoSeg]
  BY <1>5, <1>7 DEF Grab
<1>11. ASSUME NEW w \in StateType,
              g = [w EXCEPT !.ent[n].flg = {"NODISC", "LOCK", "PRES"},
                            !.ent[n].locks = 1, !.ent[n].seg = NoSeg]
       PROVE  Fields(g, [w.ent EXCEPT ![n] = TakenEntry(w.ent[n])], w.heap, w.free, w.unused,
                     w.lru, w.segs, w.room)
  <2>1. w.ent \in [Entries -> EntryType] /\ w.ent[n] \in EntryType
    BY StateFields, EntryFields
  <2>2. PICK e : e = TakenEntry(w.ent[n])
    OBVIOUS
  <2>3. e \in EntryType
    BY <2>1, <2>2, TakenEntryFacts
  <2>4. PICK x : x = [w.ent EXCEPT ![n] = e]
    OBVIOUS
  <2>5. x \in [Entries -> EntryType]
    BY <2>1, <2>3, <2>4
  <2>6. g = [w EXCEPT !.ent = x]
    BY <1>11, <2>1, <2>2, <2>4 DEF TakenEntry, EntryType
  <2>7. /\ g \in StateType /\ g.ent = x /\ g.heap = w.heap /\ g.free = w.free /\ g.unused = w.unused
        /\ g.lru = w.lru /\ g.segs = w.segs /\ g.room = w.room
    BY <2>5, <2>6, WithEnt
  <2> QED BY <2>2, <2>4, <2>7, Zenon DEF Fields
<1>12. CASE s.ent[n].siz - siz < Split \/ s.unused = {}
  <2>1. mcmsplt(v, n, siz) = v
    BY <1>9, <1>12, Zenon DEF mcmsplt
  <2>2. Fields(g, [v.ent EXCEPT ![n] = TakenEntry(v.ent[n])], v.heap, v.free, v.unused,
               v.lru, v.segs, v.room)
    BY <1>9, <1>10, <1>11, <2>1
  <2>3. Fields(g, [s.ent EXCEPT ![n] = TakenEntry(s.ent[n])], s.heap,
               RemoveFirst(s.free, n), s.unused, s.lru, s.segs, s.room)
    BY <1>6, <2>2, Zenon DEF Fields
  <2>4. g = u
    BY <1>4, <2>3, SameState
  <2> QED BY <1>3, <1>7, <1>8, <2>4

<1>13. CASE ~(s.ent[n].siz - siz < Split \/ s.unused = {})
  <2>1. PICK k : k = Unused(s)
    OBVIOUS
  <2>2. k \in s.unused /\ k \in Entries /\ k # n /\ k = Unused(v)
    BY <1>9, <1>13, <2>1, UnusedOther DEF Unused
  <2>3. PICK c \in 1 .. Len(s.heap) : \E i \in 1 .. Len(s.heap[c]) :
          s.heap[c][i].num = n /\ PlaceOf(s, n) = <<c, i>> /\ DataOf(s, n) = s.heap[c][i].data
    BY HeaderPlace
  <2>4. PICK p \in 1 .. Len(s.heap[c]) : s.heap[c][p].num = n /\ PlaceOf(s, n) = <<c, p>>
    BY <2>3
  <2>5. PlaceOf(v, n) = <<c, p>> /\ PlaceOf(u, n) = <<c, p>>
    BY <1>3, <1>9, <2>4 DEF PlaceOf, Places
  <2>6. s.ent[n].siz \in 0 .. Chunk /\ s.ent[n].at[2] \in Nat /\ s.ent[n].at[2] + s.ent[n].siz <= Chunk
    <3>1. s.ent[n].siz \in 0 .. Chunk /\ s.ent[n].at[2] \in 0 .. Chunk
      BY <1>1, EntryFields
    <3>2. s.ent[n].at[2] + s.ent[n].siz <= Chunk
      BY <2>4, EndFits
    <3> QED BY <3>1, <3>2, ConstFacts
  <2>7. PICK rest : rest = s.ent[n].siz - siz
    OBVIOUS
  <2>8. rest \in 0 .. Chunk /\ rest > 0 /\ siz \in 0 .. Chunk /\ s.ent[n].at[2] + siz \in 0 .. Chunk
    BY <1>13, <2>6, <2>7, RestFacts
  <2>9. PICK e : e = Entry({"FREE"}, rest, <<s.ent[n].at[1], s.ent[n].at[2] + siz>>, 0)
    OBVIOUS
  <2>10. e \in EntryType
    <3>1. <<s.ent[n].at[1], s.ent[n].at[2] + siz>> \in (0 .. MaxChunks) \X (0 .. Chunk)
      BY <1>1, <2>8, EntryFields
    <3> QED BY <2>8, <2>9, <3>1, FreeEntry
  <2>11. PICK w : w = mcmsplt(v, n, siz)
    OBVIOUS
  <2>12. w = LinkFree(Use([v EXCEPT !.ent[n].siz = siz,
                                    !.heap[c] = InsertAt(@, p + 1, Block(k, Nothing))], k, e), k)
    <3>1. PlaceOf(v, n)[1] = c /\ PlaceOf(v, n)[2] = p
      BY <2>5
    <3> QED BY <1>9, <1>13, <2>2, <2>7, <2>9, <2>11, <3>1 DEF mcmsplt
  <2>13. Fields(w, [[v.ent EXCEPT ![n] = [v.ent[n] EXCEPT !.siz = siz]] EXCEPT ![k] = e],
                [v.heap EXCEPT ![c] = InsertAt(v.heap[c], p + 1, Block(k, Nothing))],
                <<k>> \o v.free, v.unused \ {k}, v.lru, v.segs, v.room)
    <3>1. c \in 1 .. Len(v.heap) /\ p \in 1 .. Len(v.heap[c])
      BY <1>9
    <3> QED BY <1>9, <2>2, <2>8, <2>10, <2>12, <3>1, SplitFields
  <2>14. Fields(g, [w.ent EXCEPT ![n] = TakenEntry(w.ent[n])], w.heap, w.free, w.unused,
                w.lru, w.segs, w.room)
    <3>1. w \in StateType
      BY <2>13 DEF Fields
    <3> QED BY <1>10, <1>11, <2>11, <3>1
  <2>15. SplitOf(u, g, n, k, siz)
    <3>1. PlaceOf(u, n)[1] = c /\ PlaceOf(u, n)[2] = p
      BY <2>5
    <3>2. /\ u.ent[n] = TakenEntry(s.ent[n]) /\ \A j \in Entries : j # n => u.ent[j] = s.ent[j]
      BY <1>1, <1>4 DEF Fields
    <3>3. u.ent[n].siz = s.ent[n].siz /\ u.ent[n].at = s.ent[n].at
      BY <1>1, <3>2, TakenEntryFacts
    <3>4. /\ w.ent[n] = [s.ent[n] EXCEPT !.siz = siz] /\ w.ent[k] = e
          /\ \A j \in Entries : j # n /\ j # k => w.ent[j] = s.ent[j]
      BY <1>1, <1>9, <2>2, <2>13 DEF Fields
    <3>5. w.ent \in [Entries -> EntryType]
      BY <2>13, StateFields DEF Fields
    <3>6. /\ g.ent[n] = TakenEntry([s.ent[n] EXCEPT !.siz = siz]) /\ g.ent[k] = e
          /\ \A j \in Entries : j # n /\ j # k => g.ent[j] = s.ent[j]
      <4>1. g.ent = [w.ent EXCEPT ![n] = TakenEntry(w.ent[n])]
        BY <2>14 DEF Fields
      <4> QED BY <2>2, <3>4, <3>5, <4>1
    <3>7. /\ g.ent[n] = [u.ent[n] EXCEPT !.siz = siz]
          /\ g.ent[k] = Entry({"FREE"}, u.ent[n].siz - siz, <<u.ent[n].at[1], u.ent[n].at[2] + siz>>, 0)
          /\ \A j \in Entries : j # n /\ j # k => g.ent[j] = u.ent[j]
      <4>1. g.ent[n] = [u.ent[n] EXCEPT !.siz = siz]
        <5>1. g.ent[n] = TakenEntry([s.ent[n] EXCEPT !.siz = siz])
          BY <3>6
        <5>2. TakenEntry([s.ent[n] EXCEPT !.siz = siz]) = [TakenEntry(s.ent[n]) EXCEPT !.siz = siz]
          BY <1>1, TakenShort, Zenon
        <5> QED BY <3>2, <5>1, <5>2, Zenon
      <4>2. g.ent[k] = Entry({"FREE"}, u.ent[n].siz - siz, <<u.ent[n].at[1], u.ent[n].at[2] + siz>>, 0)
        <5>1. Entry({"FREE"}, u.ent[n].siz - siz, <<u.ent[n].at[1], u.ent[n].at[2] + siz>>, 0)
                = Entry({"FREE"}, s.ent[n].siz - siz, <<s.ent[n].at[1], s.ent[n].at[2] + siz>>, 0)
          BY <3>3, Zenon
        <5> QED BY <2>7, <2>9, <3>6, <5>1, Zenon
      <4>3. \A j \in Entries : j # n /\ j # k => g.ent[j] = u.ent[j]
        BY <3>2, <3>6
      <4> QED BY <4>1, <4>2, <4>3
    <3>8. g.heap = [u.heap EXCEPT ![PlaceOf(u, n)[1]] =
                      InsertAt(u.heap[PlaceOf(u, n)[1]], PlaceOf(u, n)[2] + 1, Block(k, Nothing))]
      BY <1>3, <1>9, <2>13, <2>14, <3>1, Zenon DEF Fields
    <3>9. /\ g.free = <<k>> \o u.free /\ g.unused = u.unused \ {k}
          /\ g.lru = u.lru /\ g.segs = u.segs /\ g.room = u.room
      BY <1>4, <1>6, <2>13, <2>14, Zenon DEF Fields
    <3> QED BY <3>7, <3>8, <3>9, Zenon DEF SplitOf
  <2>16. Shorter(u, n, siz) /\ g \in StateType /\ Has(u, n, "PRES") /\ k \in u.unused
    <3>1. u.ent[n] = TakenEntry(s.ent[n])
      BY <1>1, <1>4 DEF Fields
    <3>2. u.ent[n].siz = s.ent[n].siz /\ u.ent[n].flg = {"NODISC", "LOCK", "PRES"}
      BY <1>1, <3>1, TakenEntryFacts
    <3>3. g \in StateType
      BY <2>14 DEF Fields
    <3> QED BY <1>3, <2>2, <2>7, <2>8, <3>2, <3>3 DEF Shorter, Has
  <2>17. Good(g) /\ KeepsOthers(u, g, n) /\ KeptSized(u, g, n)
    BY <1>3, <2>15, <2>16, SplitGood
  <2>18. Keeps(s, g)
    <3>1. ASSUME NEW j, Owned(s, j) PROVE Kept(s, g, j)
      <4>1. j # n
        BY <3>1 DEF Owned
      <4>2. Kept(s, u, j) /\ Owned(u, j)
        BY <1>3, <3>1 DEF Keeps, Kept
      <4>3. Kept(u, g, j)
        BY <2>17, <4>1, <4>2 DEF KeepsOthers
      <4> QED BY <1>3, <3>1, <4>2, <4>3, KeptTwice
    <3>2. Modest(s, g)
      BY <1>3, <2>17 DEF Keeps, KeepsOthers, Modest
    <3> QED BY <3>1, <3>2 DEF Keeps
  <2>19. Fresh(s, g, n)
    BY <1>3, <2>17 DEF Fresh, KeptSized, Owned
  <2> QED BY <1>7, <1>8, <2>17, <2>18, <2>19
<1> QED BY <1>12, <1>13

\* Lemma: one attempt of an allocation.
LEMMA mcmalo1Good ==
  ASSUME NEW s, Good(s), NEW siz \in Nat, siz > 0, NEW r, r = mcmalo1(s, siz)
  PROVE  Good(r.m) /\ Keeps(s, r.m) /\ (r.n # NoEntry => Fresh(s, r.m, r.n))
<1>1. CASE Fits(s, siz) # {}
  <2>1. r = Grab(s, BestFit(s, siz), siz)
    BY <1>1 DEF mcmalo1
  <2>2. BestFit(s, siz) \in Entries /\ Has(s, BestFit(s, siz), "FREE")
    BY <1>1, BestFitFree
  <2> QED BY <2>1, <2>2, GrabGood
<1>2. CASE Fits(s, siz) = {} /\ s.room > 0 /\ Fits(NewChunk(s), siz) # {}
  <2>1. PICK t : t = NewChunk(s)
    OBVIOUS
  <2>2. r = Grab(t, BestFit(t, siz), siz)
    BY <1>2, <2>1 DEF mcmalo1
  <2>3. Good(t) /\ Keeps(s, t)
    BY <1>2, <2>1, NewChunkGood
  <2>4. BestFit(t, siz) \in Entries /\ Has(t, BestFit(t, siz), "FREE")
    BY <1>2, <2>1, <2>3, BestFitFree
  <2>5. Good(r.m) /\ Keeps(t, r.m) /\ Fresh(t, r.m, r.n)
    BY <2>2, <2>3, <2>4, GrabGood
  <2> QED BY <2>3, <2>5, KeepsTwice, FreshBefore
<1>3. CASE Fits(s, siz) = {} /\ ~(s.room > 0 /\ Fits(NewChunk(s), siz) # {})
  <2>1. r = [m |-> IF s.room > 0 THEN NewChunk(s) ELSE s, n |-> NoEntry]
    BY <1>3 DEF mcmalo1
  <2> QED BY <2>1, NewChunkGood, KeepsSame
<1> QED BY <1>1, <1>2, <1>3

\* Nothing changes but the quota.
OnlyRoom(s, t) ==
  /\ t.ent = s.ent /\ t.heap = s.heap /\ t.free = s.free /\ t.unused = s.unused
  /\ t.lru = s.lru /\ t.segs = s.segs

\* Lemma: a new chunk holds any object.
LEMMA NewChunkFits ==
  ASSUME NEW s, Good(s), s.room > 0, s.unused # {}, NEW siz \in 1 .. Chunk
  PROVE  Fits(NewChunk(s), siz) # {}
<1>1. s \in StateType
  BY DEF Good
<1>2. PICK k : k = Unused(s)
  OBVIOUS
<1>3. k \in s.unused /\ k \in Entries
  BY <1>1, <1>2, UnusedFacts
<1>4. Len(s.heap) \in Nat /\ Len(s.heap) + 1 <= MaxChunks
  <2>1. Len(s.heap) \in Nat
    BY <1>1, StateFields, BlocksFacts
  <2> QED BY <1>1, <2>1, ConstFacts, StateFields DEF Good
<1>5. PICK e : e = Entry({"FREE"}, Chunk, <<Len(s.heap) + 1, 0>>, 0)
  OBVIOUS
<1>6. e.siz = Chunk
  BY <1>5 DEF Entry
<1>7. PICK t : t = NewChunk(s)
  OBVIOUS
<1>8. t.ent = [s.ent EXCEPT ![k] = e] /\ t.free = <<k>> \o s.free
  <2>1. Fields(NewChunk(s),
              [s.ent EXCEPT ![Unused(s)] = Entry({"FREE"}, Chunk, <<Len(s.heap) + 1, 0>>, 0)],
              Append(s.heap, <<Block(Unused(s), Nothing)>>), <<Unused(s)>> \o s.free,
              s.unused \ {Unused(s)}, s.lru, s.segs, s.room - 1)
    BY <1>1, <1>4, NewChunkFields
  <2> QED BY <1>2, <1>5, <1>7, <2>1, Zenon DEF Fields
<1>9. t.ent[k].siz = Chunk
  BY <1>1, <1>3, <1>6, <1>8, StateFields
<1>10. s.free \in Seq(Entries)
  BY <1>1, StateFields
<1>11. 1 \in DOMAIN t.free /\ t.free[1] = k
  BY <1>3, <1>8, <1>10
<1>12. 1 \in Fits(t, siz)
  BY <1>9, <1>11, ConstFacts DEF Fits
<1> QED BY <1>7, <1>12

\* Lemma: an attempt fails for want of a block that is large enough, or of a
\* header for a new chunk; it changes nothing but the quota.
LEMMA AttemptFailed ==
  ASSUME NEW s, Good(s), NEW siz \in 1 .. Chunk, NEW r, r = mcmalo1(s, siz), r.n = NoEntry
  PROVE  Fits(s, siz) = {} /\ OnlyRoom(s, r.m)
<1>1. ASSUME NEW t, Good(t), Fits(t, siz) # {}, r = Grab(t, BestFit(t, siz), siz) PROVE FALSE
  <2>1. BestFit(t, siz) \in Entries
    BY <1>1, BestFitFree
  <2>2. r.n = BestFit(t, siz)
    BY <1>1 DEF Grab
  <2> QED BY <2>1, <2>2 DEF Entries, NoEntry
<1>2. Fits(s, siz) = {}
  <2> SUFFICES ASSUME Fits(s, siz) # {} PROVE FALSE
    OBVIOUS
  <2>1. r = Grab(s, BestFit(s, siz), siz)
    BY DEF mcmalo1
  <2> QED BY <1>1, <2>1
<1>3. CASE s.room > 0 /\ Fits(NewChunk(s), siz) # {}
  <2>1. r = Grab(NewChunk(s), BestFit(NewChunk(s), siz), siz)
    BY <1>2, <1>3 DEF mcmalo1
  <2>2. Good(NewChunk(s))
    BY <1>3, NewChunkGood
  <2> QED BY <1>1, <1>3, <2>1, <2>2
<1>4. CASE s.room > 0 /\ Fits(NewChunk(s), siz) = {}
  <2>1. r.m = NewChunk(s)
    BY <1>2, <1>4 DEF mcmalo1
  <2>2. s.unused = {}
    BY <1>4, NewChunkFits
  <2>3. r.m = [s EXCEPT !.room = s.room - 1]
    BY <2>1, <2>2 DEF NewChunk
  <2>4. s \in StateType /\ s.room - 1 \in Int
    BY StateFields DEF Good
  <2>5. OnlyRoom(s, r.m)
    BY <2>3, <2>4, WithRoom DEF OnlyRoom
  <2> QED BY <1>2, <2>5
<1>5. CASE ~(s.room > 0)
  <2>1. r.m = s
    BY <1>2, <1>5 DEF mcmalo1
  <2> QED BY <1>2, <2>1 DEF OnlyRoom
<1> QED BY <1>3, <1>4, <1>5

-----------------------------------------------------------------------------
\* The swap file.

\* Lemma: in the same heap a header has the same place and the same data.
LEMMA SameHeap ==
  ASSUME NEW s, NEW t, t.heap = s.heap, NEW n
  PROVE  PlaceOf(t, n) = PlaceOf(s, n) /\ DataOf(t, n) = DataOf(s, n)
BY Zenon DEF PlaceOf, DataOf, Places

\* Entries are told of other segments; nothing else changes but the file.
OnlySegs(s, t) ==
  /\ t \in StateType /\ t.heap = s.heap /\ t.free = s.free /\ t.unused = s.unused
  /\ t.lru = s.lru /\ t.room = s.room
  /\ \A n \in Entries : /\ t.ent[n].flg = s.ent[n].flg /\ t.ent[n].siz = s.ent[n].siz
                        /\ t.ent[n].at = s.ent[n].at /\ t.ent[n].locks = s.ent[n].locks
                        /\ t.ent[n].seg # NoSeg <=> s.ent[n].seg # NoSeg
SameSegData(s, t) ==
  \A n \in Entries : s.ent[n].seg # NoSeg => t.segs[t.ent[n].seg].data = s.segs[s.ent[n].seg].data

\* Lemma: that leaves a good state, which keeps the objects if the segments have
\* their data.
LEMMA OnlySegsGood ==
  ASSUME NEW s, NEW t, Good(s), OnlySegs(s, t), SegsGood(t.ent, t.segs), FileSize(t) <= SwapSize
  PROVE  Good(t) /\ (SameSegData(s, t) => Keeps(s, t))
<1>1. s \in StateType /\ t \in StateType
  BY DEF Good, OnlySegs
<1>2. /\ t.heap = s.heap /\ t.free = s.free /\ t.unused = s.unused /\ t.lru = s.lru /\ t.room = s.room
  BY DEF OnlySegs
<1>3. ASSUME NEW n \in Entries
      PROVE  /\ t.ent[n].flg = s.ent[n].flg /\ t.ent[n].siz = s.ent[n].siz
             /\ t.ent[n].at = s.ent[n].at /\ t.ent[n].locks = s.ent[n].locks
             /\ t.ent[n].seg # NoSeg <=> s.ent[n].seg # NoSeg
  BY DEF OnlySegs
<1>4. \A n \in Entries : EntryGood(t.ent[n])
  BY <1>3 DEF Good, EntryGood
<1>5. HeapGood(t.ent, t.heap)
  <2>1. s.heap \in Seq(Seq(BlockType)) /\ HeapGood(s.ent, s.heap) /\ Separate(s.heap)
    BY <1>1, StateFields DEF Good, HeapGood
  <2>2. ASSUME NEW c \in 1 .. Len(s.heap), NEW i \in 1 .. Len(s.heap[c])
        PROVE  SamePlace(s.ent, t.ent, s.heap[c][i].num, s.heap[c][i].num)
    <3>1. s.heap[c][i].num \in Entries
      BY <2>1, BlocksFacts
    <3> QED BY <1>3, <3>1 DEF SamePlace
  <2>3. HeapGood(t.ent, s.heap)
    BY <2>1, <2>2, RelabelHeap
  <2> QED BY <1>2, <2>3
<1>6. HeadersGood(t.ent, t.heap) /\ ListsGood(t.ent, t.free, t.lru)
  BY <1>2, <1>3 DEF Good, HeadersGood, InMemory, ListsGood, ListOf
<1>7. ASSUME NEW n \in t.unused PROVE t.ent[n] = UnusedEntry
  <2>1. n \in Entries /\ s.ent[n] = UnusedEntry
    BY <1>1, <1>2, StateFields DEF Good
  <2>2. t.ent[n] \in EntryType /\ UnusedEntry \in EntryType
    BY <1>1, <2>1, EntryFields, UnusedEntryFacts
  <2>3. t.ent[n].seg = UnusedEntry.seg
    BY <1>3, <2>1, UnusedEntryFacts
  <2> QED BY <1>3, <2>1, <2>2, <2>3 DEF EntryType
<1>8. t.room >= 0 /\ t.heap # << >> /\ t.room + Len(t.heap) <= MaxChunks
  BY <1>2 DEF Good
<1>9. Good(t)
  BY <1>1, <1>4, <1>5, <1>6, <1>7, <1>8, GoodParts
<1>10. ASSUME SameSegData(s, t), NEW n, Owned(s, n) PROVE Kept(s, t, n)
  <2>1. n \in Entries /\ Owned(t, n)
    BY <1>2, <1>3, <1>10 DEF Owned, Has
  <2>2. EntryGood(s.ent[n])
    BY <2>1 DEF Good
  <2>3. Stored(t, n) = Stored(s, n)
    <3>1. CASE Has(s, n, "PRES")
      BY <1>2, <1>3, <2>1, <3>1, SameHeap DEF Stored, Has
    <3>2. CASE ~Has(s, n, "PRES") /\ (Has(s, n, "REVRT") \/ ~Has(s, n, "NODISC"))
      BY <1>3, <2>1, <3>2 DEF Stored, Has
    <3>3. CASE ~Has(s, n, "PRES") /\ ~Has(s, n, "REVRT") /\ Has(s, n, "NODISC")
      <4>1. s.ent[n].seg # NoSeg /\ t.ent[n].seg # NoSeg
        BY <1>3, <2>1, <2>2, <3>3 DEF EntryGood, Has
      <4>2. s.ent[n].seg \in DOMAIN s.segs /\ t.ent[n].seg \in DOMAIN t.segs
        <5>1. s.ent[n].seg <= Len(s.segs) /\ t.ent[n].seg <= Len(t.segs)
          BY <2>1, <4>1 DEF Good, SegsGood
        <5>2. s.ent[n].seg \in Nat /\ t.ent[n].seg \in Nat
          BY <1>1, <2>1, EntryFields
        <5>3. s.segs \in Seq(SegType) /\ t.segs \in Seq(SegType)
          BY <1>1, StateFields
        <5> QED BY <4>1, <5>1, <5>2, <5>3 DEF NoSeg
      <4>3. ~Has(t, n, "PRES") /\ ~(Has(t, n, "REVRT") \/ ~Has(t, n, "NODISC"))
        BY <1>3, <2>1, <3>3 DEF Has
      <4>4. Stored(s, n) = s.segs[s.ent[n].seg].data
        BY <3>3, <4>2, Zenon DEF Stored
      <4>5. Stored(t, n) = t.segs[t.ent[n].seg].data
        BY <4>2, <4>3, Zenon DEF Stored
      <4> QED BY <1>10, <2>1, <4>1, <4>4, <4>5 DEF SameSegData
    <3> QED BY <3>1, <3>2, <3>3
  <2> QED BY <1>3, <2>1, <2>3 DEF Kept, Has
<1>11. Modest(s, t)
  BY <1>3 DEF Modest
<1> QED BY <1>9, <1>10, <1>11 DEF Keeps

\* The segments in use among the first i.
KeepInUse(s, kept, i) == IF s.segs[i].inuse THEN Append(kept, i) ELSE kept
OldSizes(s, kept) == [j \in 1 .. Len(kept) |-> s.segs[kept[j]].osz]
FirstSizes(s, i) == SubSeq([j \in 1 .. Len(s.segs) |-> s.segs[j].siz], 1, i)
InUseSoFar(s, i, kept) ==
  /\ kept \in Seq(1 .. i)
  /\ \A a \in 1 .. Len(kept) : s.segs[kept[a]].inuse
  /\ \A g \in 1 .. i : s.segs[g].inuse => \E a \in 1 .. Len(kept) : kept[a] = g
  /\ \A a, b \in 1 .. Len(kept) : kept[a] = kept[b] => a = b
  /\ OldSizes(s, kept) \in Seq(Nat) /\ Total(OldSizes(s, kept)) <= Total(FirstSizes(s, i))
KeptUp == INSTANCE Induction WITH Step <- KeepInUse, Holds <- InUseSoFar

\* Lemma: InUse is the fold that the instance speaks of.
LEMMA InUseIsFold ==
  ASSUME NEW s
  PROVE  InUse(s) = KeptUp!Fold(s, << >>, UpTo(Len(s.segs)))
BY DEF InUse, KeptUp!Fold, KeepInUse, FoldLeft, MapThenFoldSet, Max, KeptUp!Largest,
       KeptUp!MapThenFoldSet

\* Lemma: the numbers up to k.
LEMMA UpToFacts ==
  ASSUME NEW k \in Nat
  PROVE  UpTo(k) \in Seq(1 .. k) /\ Len(UpTo(k)) = k /\ \A i \in 1 .. k : UpTo(k)[i] = i
BY DEF UpTo

\* Lemma: the sizes of the segments and their old sizes are numbers.
LEMMA SegFields ==
  ASSUME NEW s \in StateType, NEW g \in 1 .. Len(s.segs)
  PROVE  /\ s.segs[g] \in SegType /\ s.segs[g].siz \in 1 .. Chunk /\ s.segs[g].osz \in 1 .. Chunk
         /\ s.segs[g].siz \in Nat /\ s.segs[g].osz \in Nat
         /\ s.segs[g].inuse \in BOOLEAN /\ s.segs[g].data \in Versions \union {Nothing}
<1>1. s.segs[g] \in SegType
  BY StateFields
<1> QED BY <1>1, ConstFacts DEF SegType

\* Lemma: the file's size is the sum of the segments' sizes.
LEMMA FileFacts ==
  ASSUME NEW s \in StateType
  PROVE  /\ [j \in 1 .. Len(s.segs) |-> s.segs[j].siz] \in Seq(Nat)
         /\ FileSize(s) = Total([j \in 1 .. Len(s.segs) |-> s.segs[j].siz]) /\ FileSize(s) \in Nat
         /\ Len(s.segs) \in Nat
<1>1. s.segs \in Seq(SegType) /\ Len(s.segs) \in Nat /\ DOMAIN s.segs = 1 .. Len(s.segs)
  BY StateFields
<1>2. PICK q : q = [j \in 1 .. Len(s.segs) |-> s.segs[j].siz]
  OBVIOUS
<1>3. q \in Seq(Nat)
  BY <1>1, <1>2, SegFields
<1>4. FileSize(s) = Total(q)
  BY <1>1, <1>2, Zenon DEF FileSize
<1> QED BY <1>1, <1>2, <1>3, <1>4, TotalNat

\* Lemma: one segment more.
LEMMA InUseStep ==
  ASSUME NEW s \in StateType, SegsGood(s.ent, s.segs), NEW i \in 1 .. Len(s.segs), NEW kept,
         InUseSoFar(s, i - 1, kept)
  PROVE  InUseSoFar(s, i, KeepInUse(s, kept, i))
<1>1. kept \in Seq(1 .. i - 1) /\ kept \in Seq(1 .. i) /\ Len(kept) \in Nat
  <2>1. kept \in Seq(1 .. i - 1)
    BY DEF InUseSoFar
  <2>2. \A a \in 1 .. Len(kept) : kept[a] \in 1 .. i
    BY <2>1
  <2> QED BY <2>1, <2>2
<1>2. /\ \A a \in 1 .. Len(kept) : s.segs[kept[a]].inuse
      /\ \A g \in 1 .. i - 1 : s.segs[g].inuse => \E a \in 1 .. Len(kept) : kept[a] = g
      /\ \A a, b \in 1 .. Len(kept) : kept[a] = kept[b] => a = b
      /\ OldSizes(s, kept) \in Seq(Nat) /\ Total(OldSizes(s, kept)) <= Total(FirstSizes(s, i - 1))
  BY DEF InUseSoFar
<1>3. PICK q : q = [j \in 1 .. Len(s.segs) |-> s.segs[j].siz]
  OBVIOUS
<1>4. q \in Seq(Nat) /\ Len(q) = Len(s.segs) /\ q[i] = s.segs[i].siz
  <2>1. q \in Seq(Nat) /\ Len(s.segs) \in Nat
    BY <1>3, FileFacts, Zenon
  <2> QED BY <1>3, <2>1
<1>5. Total(FirstSizes(s, i)) = Total(FirstSizes(s, i - 1)) + s.segs[i].siz
  BY <1>3, <1>4, TotalPrefix, Zenon DEF FirstSizes
<1>6. /\ s.segs[i].siz \in Nat /\ s.segs[i].osz \in Nat /\ s.segs[i].osz <= s.segs[i].siz
      /\ Total(OldSizes(s, kept)) \in Nat /\ Total(FirstSizes(s, i - 1)) \in Nat
  <2>1. Total(FirstSizes(s, i - 1)) \in Nat
    <3>1. i - 1 \in 0 .. Len(q)
      BY <1>4
    <3>2. Total(SubSeq(q, 1, i - 1)) \in Nat
      BY <1>4, <3>1, TotalPrefix
    <3> QED BY <1>3, <3>2, Zenon DEF FirstSizes
  <2> QED BY <1>2, <2>1, SegFields, TotalNat DEF SegsGood
<1>7. CASE ~s.segs[i].inuse
  <2>1. KeepInUse(s, kept, i) = kept
    BY <1>7 DEF KeepInUse
  <2>2. \A g \in 1 .. i : s.segs[g].inuse => \E a \in 1 .. Len(kept) : kept[a] = g
    BY <1>2, <1>7
  <2>3. Total(OldSizes(s, kept)) <= Total(FirstSizes(s, i))
    BY <1>2, <1>5, <1>6
  <2> QED BY <1>1, <1>2, <2>1, <2>2, <2>3 DEF InUseSoFar
<1>8. CASE s.segs[i].inuse
  <2>1. PICK new : new = Append(kept, i)
    OBVIOUS
  <2>2. KeepInUse(s, kept, i) = new
    BY <1>8, <2>1 DEF KeepInUse
  <2>3. /\ new \in Seq(1 .. i) /\ Len(new) = Len(kept) + 1 /\ new[Len(kept) + 1] = i
        /\ \A a \in 1 .. Len(kept) : new[a] = kept[a] /\ kept[a] \in 1 .. i - 1
    BY <1>1, <2>1
  <2>4. \A a \in 1 .. Len(new) : a = Len(kept) + 1 \/ a \in 1 .. Len(kept)
    BY <1>1, <2>3
  <2>5. \A a \in 1 .. Len(new) : s.segs[new[a]].inuse
    BY <1>2, <1>8, <2>3, <2>4
  <2>6. \A g \in 1 .. i : s.segs[g].inuse => \E a \in 1 .. Len(new) : new[a] = g
    <3> SUFFICES ASSUME NEW g \in 1 .. i, s.segs[g].inuse PROVE \E a \in 1 .. Len(new) : new[a] = g
      OBVIOUS
    <3>1. Len(kept) + 1 \in 1 .. Len(new) /\ \A a \in 1 .. Len(kept) : a \in 1 .. Len(new)
      BY <1>1, <2>3
    <3>2. CASE g = i
      BY <2>3, <3>1, <3>2
    <3>3. CASE g # i
      <4>1. PICK a \in 1 .. Len(kept) : kept[a] = g
        BY <1>2, <3>3
      <4> QED BY <2>3, <3>1, <4>1
    <3> QED BY <3>2, <3>3
  <2>7. \A a, b \in 1 .. Len(new) : new[a] = new[b] => a = b
    <3> SUFFICES ASSUME NEW a \in 1 .. Len(new), NEW b \in 1 .. Len(new), new[a] = new[b]
                 PROVE  a = b
      OBVIOUS
    <3>1. \A x \in 1 .. i - 1 : x # i
      OBVIOUS
    <3>2. CASE a = Len(kept) + 1
      BY <2>3, <2>4, <3>1, <3>2
    <3>3. CASE b = Len(kept) + 1
      BY <2>3, <2>4, <3>1, <3>3
    <3>4. CASE a \in 1 .. Len(kept) /\ b \in 1 .. Len(kept)
      BY <1>2, <2>3, <3>4
    <3> QED BY <2>4, <3>2, <3>3, <3>4
  <2>8. PICK p : p = OldSizes(s, kept)
    OBVIOUS
  <2>9. PICK r : r = OldSizes(s, new)
    OBVIOUS
  <2>10. r = Append(p, s.segs[i].osz)
    <3>1. r = [j \in 1 .. Len(new) |-> s.segs[new[j]].osz] /\ p = [j \in 1 .. Len(kept) |-> s.segs[kept[j]].osz]
      BY <2>8, <2>9 DEF OldSizes
    <3>2. p \in Seq(Nat)
      BY <1>2, <2>8
    <3>3. Len(p) = Len(kept) /\ Len(Append(p, s.segs[i].osz)) = Len(kept) + 1 /\ Append(p, s.segs[i].osz) \in Seq(Nat)
      BY <1>1, <1>6, <3>1, <3>2
    <3>4. r \in Seq(Nat) /\ Len(r) = Len(kept) + 1
      <4>1. \A j \in 1 .. Len(new) : s.segs[new[j]].osz \in Nat
        <5>1. \A j \in 1 .. Len(new) : new[j] \in 1 .. Len(s.segs)
          BY <2>3
        <5> QED BY <5>1, SegFields
      <4> QED BY <1>1, <2>3, <3>1, <4>1
    <3>5. ASSUME NEW j \in 1 .. Len(r) PROVE r[j] = Append(p, s.segs[i].osz)[j]
      <4>1. CASE j = Len(kept) + 1
        BY <1>6, <2>3, <3>1, <3>2, <3>3, <3>4, <4>1
      <4>2. CASE j \in 1 .. Len(kept)
        <5>1. r[j] = p[j]
          BY <2>3, <3>1, <3>4, <4>2
        <5> QED BY <1>6, <3>2, <3>3, <4>2, <5>1
      <4> QED BY <2>3, <2>4, <3>4, <4>1, <4>2
    <3> QED BY <3>3, <3>4, <3>5, SameSeq
  <2>11. p \in Seq(Nat) /\ Total(p) <= Total(FirstSizes(s, i - 1))
    BY <1>2, <2>8
  <2>12. Total(r) = Total(p) + s.segs[i].osz /\ r \in Seq(Nat)
    BY <1>6, <2>10, <2>11, TotalAppend
  <2>13. Total(r) <= Total(FirstSizes(s, i))
    BY <1>5, <1>6, <2>8, <2>11, <2>12
  <2> QED BY <2>2, <2>3, <2>5, <2>6, <2>7, <2>9, <2>12, <2>13 DEF InUseSoFar
<1> QED BY <1>7, <1>8

\* Lemma: what InUse returns.
LEMMA InUseFacts ==
  ASSUME NEW s \in StateType, SegsGood(s.ent, s.segs)
  PROVE  InUseSoFar(s, Len(s.segs), InUse(s))
<1>1. Len(s.segs) \in Nat
  BY FileFacts
<1>2. PICK q : q = UpTo(Len(s.segs))
  OBVIOUS
<1>3. q \in Seq(1 .. Len(s.segs)) /\ Len(q) = Len(s.segs) /\ \A i \in 1 .. Len(s.segs) : q[i] = i
  BY <1>1, <1>2, UpToFacts
<1>4. InUseSoFar(s, 0, << >>)
  <2>1. PICK p : p = OldSizes(s, << >>)
    OBVIOUS
  <2>2. p = << >> /\ p \in Seq(Nat)
    BY <2>1 DEF OldSizes
  <2>3. Total(FirstSizes(s, 0)) = 0
    BY FileFacts, TotalPrefix DEF FirstSizes
  <2>4. Total(p) <= Total(FirstSizes(s, 0))
    BY <2>2, <2>3, TotalEmpty
  <2> QED BY <2>1, <2>2, <2>4 DEF InUseSoFar
<1>5. ASSUME NEW kept, NEW i \in 1 .. Len(q), InUseSoFar(s, i - 1, kept)
      PROVE  InUseSoFar(s, i, KeepInUse(s, kept, q[i]))
  BY <1>3, <1>5, InUseStep
<1>6. InUseSoFar(s, Len(q), KeptUp!Fold(s, << >>, q))
  BY <1>3, <1>4, <1>5, KeptUp!Induct
<1> QED BY <1>2, <1>3, <1>6, InUseIsFold

\* Lemma: an entry that is told of another segment.
LEMMA SegEntry ==
  ASSUME NEW d \in EntryType, NEW g \in Nat, NEW e, e = [d EXCEPT !.seg = g]
  PROVE  /\ e \in EntryType /\ e.flg = d.flg /\ e.siz = d.siz /\ e.at = d.at /\ e.locks = d.locks
         /\ e.seg = g
BY DEF EntryType

\* Lemma: entries and swap file change together.
LEMMA WithEntSegs ==
  ASSUME NEW s \in StateType, NEW x \in [Entries -> EntryType], NEW y \in Seq(SegType),
         NEW t, t = [s EXCEPT !.segs = y, !.ent = x]
  PROVE  Fields(t, x, s.heap, s.free, s.unused, s.lru, y, s.room)
BY DEF StateType, Fields

\* The segment of an entry after the file is compacted.
NewSeg(s, kept, n) ==
  IF \E j \in DOMAIN kept : kept[j] = s.ent[n].seg
  THEN [s.ent[n] EXCEPT !.seg = CHOOSE j \in DOMAIN kept : kept[j] = s.ent[n].seg] ELSE s.ent[n]

\* Lemma: it is the one the old one has become.
LEMMA NewSegFacts ==
  ASSUME NEW s \in StateType, SegsGood(s.ent, s.segs), NEW kept, InUseSoFar(s, Len(s.segs), kept),
         NEW n \in Entries, NEW e, e = NewSeg(s, kept, n)
  PROVE  /\ e \in EntryType /\ e.flg = s.ent[n].flg /\ e.siz = s.ent[n].siz /\ e.at = s.ent[n].at
         /\ e.locks = s.ent[n].locks
         /\ s.ent[n].seg = NoSeg => e.seg = NoSeg
         /\ s.ent[n].seg # NoSeg => e.seg \in 1 .. Len(kept) /\ kept[e.seg] = s.ent[n].seg
<1>1. s.ent[n] \in EntryType /\ s.ent[n].seg \in Nat
  BY EntryFields
<1>2. kept \in Seq(1 .. Len(s.segs)) /\ DOMAIN kept = 1 .. Len(kept) /\ Len(kept) \in Nat
      /\ \A j \in 1 .. Len(kept) : kept[j] \in 1 .. Len(s.segs)
  <2>1. kept \in Seq(1 .. Len(s.segs))
    BY DEF InUseSoFar
  <2> QED BY <2>1
<1>3. CASE s.ent[n].seg = NoSeg
  <2>1. \A j \in DOMAIN kept : kept[j] # s.ent[n].seg
    BY <1>2, <1>3 DEF NoSeg
  <2>2. e = s.ent[n]
    BY <2>1 DEF NewSeg
  <2> QED BY <1>1, <1>3, <2>2
<1>4. CASE s.ent[n].seg # NoSeg
  <2>1. s.ent[n].seg \in 1 .. Len(s.segs) /\ s.segs[s.ent[n].seg].inuse
    BY <1>1, <1>4, FileFacts DEF SegsGood, NoSeg
  <2>2. \E j \in DOMAIN kept : kept[j] = s.ent[n].seg
    BY <1>2, <2>1 DEF InUseSoFar
  <2>3. PICK g : g = CHOOSE j \in DOMAIN kept : kept[j] = s.ent[n].seg
    OBVIOUS
  <2>4. g \in 1 .. Len(kept) /\ kept[g] = s.ent[n].seg
    BY <1>2, <2>2, <2>3
  <2>5. e = [s.ent[n] EXCEPT !.seg = g]
    BY <2>2, <2>3, Zenon DEF NewSeg
  <2>6. g \in Nat
    BY <1>2, <2>4
  <2>7. /\ e \in EntryType /\ e.flg = s.ent[n].flg /\ e.siz = s.ent[n].siz /\ e.at = s.ent[n].at
        /\ e.locks = s.ent[n].locks /\ e.seg = g
    BY <1>1, <2>5, <2>6, SegEntry
  <2> QED BY <1>4, <2>4, <2>7
<1> QED BY <1>3, <1>4

\* Lemma: a segment that has been packed.
LEMMA PackedSeg ==
  ASSUME NEW d \in SegType, NEW e, e = [d EXCEPT !.siz = d.osz]
  PROVE  e \in SegType /\ e.siz = d.osz /\ e.osz = d.osz /\ e.inuse = d.inuse /\ e.data = d.data
BY DEF SegType

\* Lemma: compacting the swap file keeps the objects.
LEMMA mcscompactGood ==
  ASSUME NEW s, Good(s), NEW t, t = mcscompact(s)
  PROVE  /\ Good(t) /\ Keeps(s, t) /\ OnlySegs(s, t)
<1>1. s \in StateType /\ SegsGood(s.ent, s.segs) /\ FileSize(s) <= SwapSize
  BY DEF Good
<1>2. PICK kept : kept = InUse(s)
  OBVIOUS
<1>3. InUseSoFar(s, Len(s.segs), kept)
  BY <1>1, <1>2, InUseFacts
<1>4. kept \in Seq(1 .. Len(s.segs)) /\ DOMAIN kept = 1 .. Len(kept) /\ Len(kept) \in Nat
      /\ \A j \in 1 .. Len(kept) : kept[j] \in 1 .. Len(s.segs)
  <2>1. kept \in Seq(1 .. Len(s.segs))
    BY <1>3 DEF InUseSoFar
  <2> QED BY <2>1
<1>5. PICK x : x = [j \in 1 .. Len(kept) |-> [s.segs[kept[j]] EXCEPT !.siz = s.segs[kept[j]].osz]]
  OBVIOUS
<1>6. ASSUME NEW j \in 1 .. Len(kept)
      PROVE  /\ x[j] \in SegType /\ x[j].siz = s.segs[kept[j]].osz /\ x[j].osz = x[j].siz
             /\ x[j].inuse /\ x[j].data = s.segs[kept[j]].data
  <2>1. x[j] = [s.segs[kept[j]] EXCEPT !.siz = s.segs[kept[j]].osz]
    BY <1>5
  <2>2. s.segs[kept[j]] \in SegType
    BY <1>1, <1>4, SegFields
  <2>3. s.segs[kept[j]].inuse
    BY <1>3 DEF InUseSoFar
  <2> QED BY <2>1, <2>2, <2>3, PackedSeg
<1>7. x \in Seq(SegType) /\ Len(x) = Len(kept)
  <2>1. \A j \in 1 .. Len(kept) : x[j] \in SegType
    BY <1>6
  <2> QED BY <1>4, <1>5, <2>1
<1>8. PICK y : y = [n \in Entries |-> NewSeg(s, kept, n)]
  OBVIOUS
<1>9. ASSUME NEW n \in Entries
      PROVE  /\ y[n] \in EntryType /\ y[n].flg = s.ent[n].flg /\ y[n].siz = s.ent[n].siz
             /\ y[n].at = s.ent[n].at /\ y[n].locks = s.ent[n].locks
             /\ s.ent[n].seg = NoSeg => y[n].seg = NoSeg
             /\ s.ent[n].seg # NoSeg => y[n].seg \in 1 .. Len(kept) /\ kept[y[n].seg] = s.ent[n].seg
  <2>1. y[n] = NewSeg(s, kept, n)
    BY <1>8
  <2> QED BY <1>1, <1>3, <2>1, NewSegFacts
<1>10. y \in [Entries -> EntryType]
  <2>1. \A n \in Entries : y[n] \in EntryType
    BY <1>9
  <2> QED BY <1>8, <2>1
<1>11. t = [s EXCEPT !.segs = x, !.ent = y]
  BY <1>2, <1>5, <1>8, Zenon DEF mcscompact, NewSeg
<1>12. /\ t \in StateType /\ t.ent = y /\ t.segs = x /\ t.heap = s.heap /\ t.free = s.free
       /\ t.unused = s.unused /\ t.lru = s.lru /\ t.room = s.room
  <2>1. x \in Seq(SegType)
    BY <1>7
  <2>2. Fields(t, y, s.heap, s.free, s.unused, s.lru, x, s.room)
    BY <1>1, <1>10, <1>11, <2>1, WithEntSegs
  <2> QED BY <2>2, Zenon DEF Fields
<1>13. \A n \in Entries : y[n].seg # NoSeg <=> s.ent[n].seg # NoSeg
  BY <1>9 DEF NoSeg
<1>14. OnlySegs(s, t)
  BY <1>9, <1>12, <1>13 DEF OnlySegs
<1>15. SegsGood(t.ent, t.segs)
  <2>1. \A g \in 1 .. Len(x) : x[g].osz <= x[g].siz
    <3> SUFFICES ASSUME NEW g \in 1 .. Len(x) PROVE x[g].osz <= x[g].siz
      OBVIOUS
    <3>1. x[g].osz = s.segs[kept[g]].osz /\ x[g].siz = s.segs[kept[g]].osz
      BY <1>6, <1>7
    <3>2. s.segs[kept[g]].osz \in Nat
      BY <1>1, <1>4, <1>7, SegFields
    <3> QED BY <3>1, <3>2
  <2>2. \A n \in Entries : y[n].seg # NoSeg => y[n].seg <= Len(x) /\ x[y[n].seg].inuse
    BY <1>6, <1>7, <1>9, <1>13
  <2>3. \A n, k \in Entries : y[n].seg # NoSeg /\ y[n].seg = y[k].seg => n = k
    BY <1>1, <1>9, <1>13 DEF SegsGood
  <2> QED BY <1>12, <2>1, <2>2, <2>3 DEF SegsGood
<1>16. FileSize(t) <= SwapSize
  <2>1. FileSize(t) = Total([j \in 1 .. Len(x) |-> x[j].siz])
    BY <1>12, FileFacts
  <2>2. [j \in 1 .. Len(x) |-> x[j].siz] = OldSizes(s, kept)
    <3>1. \A j \in 1 .. Len(kept) : x[j].siz = s.segs[kept[j]].osz
      BY <1>6
    <3> QED BY <1>7, <3>1 DEF OldSizes
  <2>3. Total(OldSizes(s, kept)) \in Nat /\ Total(OldSizes(s, kept)) <= Total(FirstSizes(s, Len(s.segs)))
    BY <1>3, TotalNat DEF InUseSoFar
  <2>4. FirstSizes(s, Len(s.segs)) = [j \in 1 .. Len(s.segs) |-> s.segs[j].siz]
    <3>1. PICK q : q = [j \in 1 .. Len(s.segs) |-> s.segs[j].siz]
      OBVIOUS
    <3>2. q \in Seq(Nat) /\ Len(s.segs) \in Nat
      BY <1>1, <3>1, FileFacts, Zenon
    <3>3. SubSeq(q, 1, Len(q)) = q /\ Len(q) = Len(s.segs)
      BY <3>1, <3>2
    <3> QED BY <3>1, <3>3 DEF FirstSizes
  <2>5. Total(FirstSizes(s, Len(s.segs))) = FileSize(s) /\ FileSize(s) \in Nat
    BY <1>1, <2>4, FileFacts
  <2> QED BY <1>1, <2>1, <2>2, <2>3, <2>5, ConstFacts
<1>17. SameSegData(s, t)
  <2> SUFFICES ASSUME NEW n \in Entries, s.ent[n].seg # NoSeg
               PROVE  t.segs[t.ent[n].seg].data = s.segs[s.ent[n].seg].data
    BY DEF SameSegData
  <2>1. y[n].seg \in 1 .. Len(kept) /\ kept[y[n].seg] = s.ent[n].seg
    BY <1>9
  <2> QED BY <1>6, <1>12, <2>1
<1> QED BY <1>14, <1>15, <1>16, <1>17, OnlySegsGood

\* Block i of chunk c becomes b; the other blocks stay.
Relabelled(heap, c, i, b) ==
  LET new == [heap EXCEPT ![c][i] = b]
  IN  /\ new \in Seq(Seq(BlockType)) /\ Len(new) = Len(heap) /\ Separate(new)
      /\ \A d \in 1 .. Len(heap) : Len(new[d]) = Len(heap[d])
      /\ new[c][i] = b
      /\ \A d \in 1 .. Len(heap) : \A j \in 1 .. Len(heap[d]) : d # c \/ j # i => new[d][j] = heap[d][j]
      /\ \A x : x \in BlocksOf(new) <=> x = b \/ (x \in BlocksOf(heap) /\ x.num # heap[c][i].num)

\* Two heaps with the same number of blocks in every chunk, and a heap whose blocks have headers of
\* their own, counted like those of another heap.
SameShape(heap, new) == Len(new) = Len(heap) /\ \A d \in 1 .. Len(heap) : Len(new[d]) = Len(heap[d])
ApartLike(heap, new) ==
  \A d, e \in 1 .. Len(heap) : \A j \in 1 .. Len(heap[d]), l \in 1 .. Len(heap[e]) :
    new[d][j].num = new[e][l].num => d = e /\ j = l

WithBlock(heap, c, i, b) == [heap EXCEPT ![c][i] = b]

\* Lemma: a heap that differs in one block.
LEMMA RelabelledFacts ==
  ASSUME NEW heap, NEW c, NEW i, NEW b, Relabelled(heap, c, i, b), NEW new, new = WithBlock(heap, c, i, b)
  PROVE  /\ new \in Seq(Seq(BlockType)) /\ Len(new) = Len(heap) /\ Separate(new)
         /\ \A d \in 1 .. Len(heap) : Len(new[d]) = Len(heap[d])
         /\ new[c][i] = b
         /\ \A d \in 1 .. Len(heap) : \A j \in 1 .. Len(heap[d]) :
              d # c \/ j # i => new[d][j] = heap[d][j]
BY Zenon DEF Relabelled, WithBlock

\* Lemma: blocks with the same header are the same.
LEMMA SeparateBlocks ==
  ASSUME NEW heap, Separate(heap), NEW d \in 1 .. Len(heap), NEW e \in 1 .. Len(heap),
         NEW j \in 1 .. Len(heap[d]), NEW l \in 1 .. Len(heap[e]), heap[d][j].num = heap[e][l].num
  PROVE  d = e /\ j = l
BY DEF Separate

\* Lemma: the blocks of a heap of the same shape are counted in the same way.
LEMMA ApartIsSeparate ==
  ASSUME NEW heap, NEW new, SameShape(heap, new), ApartLike(heap, new)
  PROVE  Separate(new)
<1> SUFFICES ASSUME NEW d \in 1 .. Len(new), NEW e \in 1 .. Len(new), NEW j \in 1 .. Len(new[d]),
                    NEW l \in 1 .. Len(new[e]), new[d][j].num = new[e][l].num
             PROVE  d = e /\ j = l
  BY Zenon DEF Separate
<1>1. d \in 1 .. Len(heap) /\ e \in 1 .. Len(heap)
  BY Zenon DEF SameShape
<1>2. j \in 1 .. Len(heap[d]) /\ l \in 1 .. Len(heap[e])
  BY <1>1, Zenon DEF SameShape
<1> QED BY <1>1, <1>2, Zenon DEF ApartLike

\* Lemma: a block gets other data, or the header of no other block.
LEMMA RelabelOne ==
  ASSUME NEW heap \in Seq(Seq(BlockType)), Separate(heap), NEW c \in 1 .. Len(heap),
         NEW i \in 1 .. Len(heap[c]), NEW b \in BlockType,
         b.num = heap[c][i].num \/ NotIn(heap, b.num)
  PROVE  Relabelled(heap, c, i, b)
<1>0. PICK new : new = [heap EXCEPT ![c][i] = b]
  OBVIOUS
<1>1. /\ heap[c] \in Seq(BlockType)
      /\ \A d \in 1 .. Len(heap) : heap[d] \in Seq(BlockType)
  OBVIOUS
<1>2. PICK blocks : blocks = [heap[c] EXCEPT ![i] = b]
  OBVIOUS
<1>3. /\ blocks \in Seq(BlockType) /\ Len(blocks) = Len(heap[c]) /\ blocks[i] = b
      /\ \A j \in 1 .. Len(heap[c]) : j # i => blocks[j] = heap[c][j]
  BY <1>1, <1>2
<1>4. new = [heap EXCEPT ![c] = blocks]
  BY <1>0, <1>2
<1>5. /\ new \in Seq(Seq(BlockType)) /\ Len(new) = Len(heap) /\ new[c] = blocks
      /\ \A d \in 1 .. Len(heap) : d # c => new[d] = heap[d]
  BY <1>3, <1>4
<1>6. \A d \in 1 .. Len(heap) : Len(new[d]) = Len(heap[d])
  BY <1>3, <1>5
<1>7. \A d \in 1 .. Len(heap) : \A j \in 1 .. Len(heap[d]) : d # c \/ j # i => new[d][j] = heap[d][j]
  BY <1>3, <1>5
<1>8. \A d \in 1 .. Len(heap) : \A j \in 1 .. Len(heap[d]) :
        d # c \/ j # i => heap[d][j].num # b.num /\ heap[d][j].num # heap[c][i].num
  BY DEF Separate, NotIn
<1>9. new[c][i] = b
  BY <1>3, <1>5
<1>10. Separate(new)
  <2>0. SameShape(heap, new)
    BY <1>5, <1>6, Zenon DEF SameShape
  <2> SUFFICES ASSUME NEW d \in 1 .. Len(heap), NEW e \in 1 .. Len(heap), NEW j \in 1 .. Len(heap[d]),
                      NEW l \in 1 .. Len(heap[e]), new[d][j].num = new[e][l].num
               PROVE  d = e /\ j = l
    BY <2>0, ApartIsSeparate, Zenon DEF ApartLike
  <2>1. CASE d = c /\ j = i
    BY <1>7, <1>8, <1>9, <2>1, ZenonT(40)
  <2>2. CASE e = c /\ l = i
    BY <1>7, <1>8, <1>9, <2>2
  <2>3. CASE (d # c \/ j # i) /\ (e # c \/ l # i)
    <3>1. heap[d][j].num = heap[e][l].num
      BY <1>7, <2>3
    <3> QED BY <3>1, SeparateBlocks, SMTT(20)
  <2> QED BY <2>1, <2>2, <2>3
<1>11. ASSUME NEW x
       PROVE  x \in BlocksOf(new) <=> x = b \/ (x \in BlocksOf(heap) /\ x.num # heap[c][i].num)
  <2>1. x \in BlocksOf(new) <=> \E d \in 1 .. Len(heap) : \E j \in 1 .. Len(heap[d]) : new[d][j] = x
    BY <1>5, <1>6, BlocksFacts, SMTT(20)
  <2>2. x \in BlocksOf(heap) <=> \E d \in 1 .. Len(heap) : \E j \in 1 .. Len(heap[d]) : heap[d][j] = x
    BY BlocksFacts
  <2>3. ASSUME NEW d \in 1 .. Len(heap), NEW j \in 1 .. Len(heap[d]), new[d][j] = x
        PROVE  x = b \/ (x \in BlocksOf(heap) /\ x.num # heap[c][i].num)
    <3>1. CASE d = c /\ j = i
      BY <1>9, <2>3, <3>1
    <3>2. CASE d # c \/ j # i
      <4>1. heap[d][j] = x
        BY <1>7, <2>3, <3>2
      <4> QED BY <1>8, <2>2, <3>2, <4>1
    <3> QED BY <3>1, <3>2
  <2>4. ASSUME NEW d \in 1 .. Len(heap), NEW j \in 1 .. Len(heap[d]), heap[d][j] = x,
               x.num # heap[c][i].num
        PROVE  x \in BlocksOf(new)
    <3>1. d # c \/ j # i
      BY <2>4
    <3> QED BY <1>7, <2>1, <2>4, <3>1
  <2>5. x = b => x \in BlocksOf(new)
    BY <1>9, <2>1
  <2> QED BY <2>1, <2>2, <2>3, <2>4, <2>5
<1> QED BY <1>0, <1>5, <1>6, <1>7, <1>9, <1>10, <1>11, Zenon DEF Relabelled

\* Lemma: an object that is swapped out is kept when its segment is.
LEMMA KeptInFile ==
  ASSUME NEW s, NEW t, Good(s), Good(t), NEW n, Owned(s, n),
         n \notin t.unused, SameEntry(s, t, n), s.ent[n].seg # NoSeg,
         t.segs[s.ent[n].seg].data = s.segs[s.ent[n].seg].data
  PROVE  Kept(s, t, n)
<1>1. n \in Entries /\ EntryGood(s.ent[n]) /\ s \in StateType /\ t \in StateType
  BY DEF Owned, Good
<1>2. Owned(t, n)
  BY <1>1 DEF Owned, SameEntry, Has
<1>3. t.ent[n].seg = s.ent[n].seg /\ t.ent[n].flg = s.ent[n].flg
  BY DEF SameEntry
<1>4. ~Has(s, n, "PRES") /\ ~Has(t, n, "PRES")
  BY <1>1, <1>3 DEF EntryGood, Has
<1>5. s.ent[n].seg \in DOMAIN s.segs /\ s.ent[n].seg \in DOMAIN t.segs
  <2>1. s.ent[n].seg \in Nat /\ s.segs \in Seq(SegType) /\ t.segs \in Seq(SegType)
    BY <1>1, EntryFields, StateFields
  <2>2. s.ent[n].seg <= Len(s.segs) /\ s.ent[n].seg <= Len(t.segs)
    BY <1>1, <1>3 DEF Good, SegsGood
  <2> QED BY <2>1, <2>2 DEF NoSeg
<1>6. Stored(t, n) = Stored(s, n)
  BY <1>3, <1>4, <1>5 DEF Stored, Has
<1> QED BY <1>2, <1>3, <1>6 DEF Kept, SameEntry, Has

\* Segment g of the file has been written, in the place of one not in use or
\* behind the last.
SegPut(t, segs, g, data) ==
  /\ segs \in Seq(SegType) /\ g \in 1 .. Len(segs) /\ Len(t.segs) <= Len(segs)
  /\ segs[g].osz <= segs[g].siz /\ segs[g].inuse /\ segs[g].data = data
  /\ \A j \in 1 .. Len(segs) : j # g => j \in 1 .. Len(t.segs) /\ segs[j] = t.segs[j]
  /\ \A j \in Entries : t.ent[j].seg # g

\* The object n has been tossed out to segment g, its block belongs to header k.
OutEntry(e, g) == [e EXCEPT !.flg = @ \ {"PRES", "LRU"}, !.at = Nowhere, !.seg = g]
TossOf(t, w, n, k, g, segs) ==
  LET p == PlaceOf(t, n)
  IN  /\ w.ent[n] = OutEntry(t.ent[n], g)
      /\ w.ent[k] = Entry({"FREE"}, t.ent[n].siz, t.ent[n].at, 0)
      /\ \A j \in Entries : j # n /\ j # k => w.ent[j] = t.ent[j]
      /\ w.heap = [t.heap EXCEPT ![p[1]][p[2]] = Block(k, Nothing)]
      /\ w.free = <<k>> \o t.free /\ w.unused = t.unused /\ w.lru = RemoveFirst(t.lru, n)
      /\ w.segs = segs /\ w.room = t.room

\* Lemma: the entry of an object that has been tossed out.
LEMMA OutEntryFacts ==
  ASSUME NEW d \in EntryType, EntryGood(d), "PRES" \in d.flg, "LOCK" \notin d.flg,
         NEW g \in Nat, g # 0, NEW e, e = OutEntry(d, g)
  PROVE  /\ e \in EntryType /\ EntryGood(e) /\ e.flg = d.flg \ {"PRES", "LRU"}
         /\ e.siz = d.siz /\ e.locks = d.locks /\ e.seg = g /\ "NODISC" \in e.flg
         /\ "PRES" \notin e.flg /\ "LRU" \notin e.flg /\ "REVRT" \notin e.flg /\ "FREE" \notin e.flg
<1>1. Nowhere \in (0 .. MaxChunks) \X (0 .. Chunk)
  BY ConstFacts DEF Nowhere
<1>2. /\ e \in EntryType /\ e.flg = d.flg \ {"PRES", "LRU"}
      /\ e.siz = d.siz /\ e.locks = d.locks /\ e.seg = g
  BY <1>1 DEF OutEntry, EntryType
<1>3. "NODISC" \in d.flg /\ "REVRT" \notin d.flg /\ "FREE" \notin d.flg
  BY DEF EntryGood
<1> QED BY <1>2, <1>3 DEF EntryGood, NoSeg

\* Lemma: tossing an object out leaves a good state.
LEMMA TossOfGood ==
  ASSUME NEW t, Good(t), NEW w, w \in StateType, NEW n \in Entries, Has(t, n, "PRES"),
         ~Has(t, n, "LOCK"), NEW k \in Entries, t.ent[k] = UnusedEntry, k \notin t.unused,
         NEW segs, NEW g, SegPut(t, segs, g, DataOf(t, n)), FileSize(w) <= SwapSize,
         TossOf(t, w, n, k, g, segs)
  PROVE  Good(w) /\ KeepsOthers(t, w, k)
<1>1. t \in StateType /\ t.heap \in Seq(Seq(BlockType)) /\ HeapGood(t.ent, t.heap) /\ Separate(t.heap)
  BY StateFields DEF Good, HeapGood
<1>2. PICK c \in 1 .. Len(t.heap) : \E i \in 1 .. Len(t.heap[c]) :
        t.heap[c][i].num = n /\ PlaceOf(t, n) = <<c, i>> /\ DataOf(t, n) = t.heap[c][i].data
  BY HeaderPlace
<1>3. PICK i \in 1 .. Len(t.heap[c]) : t.heap[c][i].num = n /\ PlaceOf(t, n) = <<c, i>>
  BY <1>2
<1>4. t.ent[k].flg = {} /\ t.ent[k].seg = NoSeg /\ k # n
  BY UnusedEntryFacts DEF Has
<1>5. NotIn(t.heap, k)
  BY <1>4, PlaceHeader DEF NotIn, Has
<1>6. t.ent[n] \in EntryType /\ EntryGood(t.ent[n]) /\ n \notin t.unused
  <2>1. n \notin t.unused
    BY UnusedEntryFacts DEF Good, Has
  <2> QED BY <1>1, <2>1, EntryFields DEF Good
<1>7. g \in Nat /\ g # 0 /\ g \in 1 .. Len(segs) /\ segs \in Seq(SegType)
  BY DEF SegPut
<1>8. PICK f : f = OutEntry(t.ent[n], g)
  OBVIOUS
<1>9. /\ f \in EntryType /\ EntryGood(f) /\ f.flg = t.ent[n].flg \ {"PRES", "LRU"}
      /\ f.siz = t.ent[n].siz /\ f.locks = t.ent[n].locks /\ f.seg = g /\ "NODISC" \in f.flg
      /\ "PRES" \notin f.flg /\ "LRU" \notin f.flg /\ "REVRT" \notin f.flg /\ "FREE" \notin f.flg
  BY <1>6, <1>7, <1>8, OutEntryFacts DEF Has
<1>10. PICK e : e = Entry({"FREE"}, t.ent[n].siz, t.ent[n].at, 0)
  OBVIOUS
<1>11. /\ e \in EntryType /\ e.flg = {"FREE"} /\ e.siz = t.ent[n].siz /\ e.at = t.ent[n].at
       /\ e.locks = 0 /\ e.seg = NoSeg /\ EntryGood(e)
  BY <1>1, <1>10, EntryFields, FreeEntry
<1>12. PICK b : b = Block(k, Nothing)
  OBVIOUS
<1>13. b \in BlockType /\ b.num = k
  BY <1>12 DEF Block, BlockType
<1>14. /\ w.ent[n] = f /\ w.ent[k] = e /\ (\A j \in Entries : j # n /\ j # k => w.ent[j] = t.ent[j])
       /\ w.heap = [t.heap EXCEPT ![c][i] = b]
       /\ w.free = <<k>> \o t.free /\ w.unused = t.unused /\ w.lru = RemoveFirst(t.lru, n)
       /\ w.segs = segs /\ w.room = t.room
  <2>1. PlaceOf(t, n)[1] = c /\ PlaceOf(t, n)[2] = i
    BY <1>3
  <2> QED BY <1>8, <1>10, <1>12, <2>1, Zenon DEF TossOf
<1>15. /\ w.heap \in Seq(Seq(BlockType)) /\ Len(w.heap) = Len(t.heap) /\ Separate(w.heap)
       /\ \A d \in 1 .. Len(t.heap) : Len(w.heap[d]) = Len(t.heap[d])
       /\ w.heap[c][i] = b
       /\ \A d \in 1 .. Len(t.heap) : \A j \in 1 .. Len(t.heap[d]) :
            d # c \/ j # i => w.heap[d][j] = t.heap[d][j]
       /\ \A x : x \in BlocksOf(w.heap) <=> x = b \/ (x \in BlocksOf(t.heap) /\ x.num # n)
  <2>1. NotIn(t.heap, b.num)
    BY <1>5, <1>13
  <2>2. Relabelled(t.heap, c, i, b)
    BY <1>1, <1>13, <2>1, RelabelOne
  <2>3. w.heap = [t.heap EXCEPT ![c][i] = b]
    BY <1>14
  <2>4. \A x : x \in BlocksOf(w.heap) <=> x = b \/ (x \in BlocksOf(t.heap) /\ x.num # t.heap[c][i].num)
    BY <2>2, <2>3, Zenon DEF Relabelled
  <2>5. \A x : x \in BlocksOf(w.heap) <=> x = b \/ (x \in BlocksOf(t.heap) /\ x.num # n)
    BY <1>3, <2>4, Zenon
  <2>6. PICK h : h = w.heap
    OBVIOUS
  <2>7. PICK old : old = t.heap
    OBVIOUS
  <2>8. Relabelled(old, c, i, b) /\ h = WithBlock(old, c, i, b)
    BY <2>2, <2>3, <2>6, <2>7, Zenon DEF WithBlock
  <2>9. /\ h \in Seq(Seq(BlockType)) /\ Len(h) = Len(old) /\ Separate(h)
        /\ \A d \in 1 .. Len(old) : Len(h[d]) = Len(old[d])
        /\ h[c][i] = b
        /\ \A d \in 1 .. Len(old) : \A j \in 1 .. Len(old[d]) :
             d # c \/ j # i => h[d][j] = old[d][j]
    BY <2>8, RelabelledFacts
  <2> QED BY <2>5, <2>6, <2>7, <2>9, Zenon
<1>16. HeapGood(w.ent, w.heap)
  <2>1. ASSUME NEW d \in 1 .. Len(t.heap), NEW j \in 1 .. Len(t.heap[d])
        PROVE  SamePlace(t.ent, w.ent, w.heap[d][j].num, t.heap[d][j].num)
    <3>1. CASE d = c /\ j = i
      BY <1>3, <1>11, <1>13, <1>14, <1>15, <3>1 DEF SamePlace
    <3>2. CASE d # c \/ j # i
      <4>1. t.heap[d][j].num # n
        BY <1>1, <1>3, <3>2 DEF Separate
      <4>2. t.heap[d][j].num # k /\ t.heap[d][j].num \in Entries
        BY <1>1, <1>5, BlocksFacts DEF NotIn
      <4> QED BY <1>14, <1>15, <3>2, <4>1, <4>2 DEF SamePlace
    <3> QED BY <3>1, <3>2
  <2> QED BY <1>1, <1>15, <2>1, RelabelHeap
<1>17. \A j \in Entries : EntryGood(w.ent[j])
  BY <1>9, <1>11, <1>14 DEF Good
<1>18. HeadersGood(w.ent, w.heap)
  <2> SUFFICES ASSUME NEW j \in Entries
               PROVE  InMemory(w.ent[j]) <=> \E x \in BlocksOf(w.heap) : x.num = j
    BY DEF HeadersGood
  <2>1. InMemory(t.ent[j]) <=> \E x \in BlocksOf(t.heap) : x.num = j
    BY DEF Good, HeadersGood
  <2>2. CASE j = k
    BY <1>11, <1>13, <1>14, <1>15, <2>2 DEF InMemory
  <2>3. CASE j = n
    BY <1>4, <1>9, <1>13, <1>14, <1>15, <2>3 DEF InMemory
  <2>4. CASE j # k /\ j # n
    BY <1>13, <1>14, <1>15, <2>1, <2>4
  <2> QED BY <2>2, <2>3, <2>4
<1>19. ListsGood(w.ent, w.free, w.lru)
  <2>1. ListOf(t.ent, t.free, "FREE") /\ ListOf(t.ent, t.lru, "LRU") /\ t.free \in Seq(Entries) /\ t.lru \in Seq(Entries)
    BY <1>1, StateFields DEF Good, ListsGood
  <2>2. FlagStays(t.ent, w.ent, "FREE", k) /\ FlagStays(t.ent, w.ent, "LRU", n)
    <3>1. ASSUME NEW j \in Entries, j # k PROVE "FREE" \in w.ent[j].flg <=> "FREE" \in t.ent[j].flg
      <4>1. "FREE" \notin t.ent[n].flg
        BY <1>6 DEF EntryGood, Has
      <4> QED BY <1>9, <1>14, <3>1, <4>1
    <3>2. ASSUME NEW j \in Entries, j # n PROVE "LRU" \in w.ent[j].flg <=> "LRU" \in t.ent[j].flg
      <4>1. "LRU" \notin w.ent[k].flg /\ "LRU" \notin t.ent[k].flg
        BY <1>4, <1>11, <1>14
      <4> QED BY <1>14, <3>2, <4>1
    <3> QED BY <3>1, <3>2 DEF FlagStays
  <2>3. "FREE" \notin t.ent[k].flg /\ "FREE" \in w.ent[k].flg /\ "LRU" \notin w.ent[n].flg
    BY <1>4, <1>9, <1>11, <1>14
  <2>4. ListOf(w.ent, w.free, "FREE")
    <3>1. w.free = <<k>> \o t.free
      BY <1>14
    <3> QED BY <2>1, <2>2, <2>3, <3>1, ListCons
  <2>5. ListOf(w.ent, w.lru, "LRU")
    <3>1. w.lru = RemoveFirst(t.lru, n)
      BY <1>14
    <3> QED BY <2>1, <2>2, <2>3, <3>1, ListDrop
  <2> QED BY <2>4, <2>5 DEF ListsGood
<1>20. \A j \in w.unused : w.ent[j] = UnusedEntry
  BY <1>1, <1>6, <1>14, StateFields DEF Good
<1>21. SegsGood(w.ent, w.segs)
  <2>1. \A j \in 1 .. Len(segs) : segs[j].osz <= segs[j].siz
    BY DEF SegPut, Good, SegsGood
  <2>2. ASSUME NEW j \in Entries, w.ent[j].seg # NoSeg
        PROVE  /\ w.ent[j].seg <= Len(segs) /\ segs[w.ent[j].seg].inuse
               /\ j = n <=> w.ent[j].seg = g
               /\ j # n => w.ent[j].seg = t.ent[j].seg
    <3>1. CASE j = n
      BY <1>7, <1>9, <1>14, <3>1 DEF SegPut
    <3>2. CASE j # n
      <4>1. w.ent[j].seg = t.ent[j].seg /\ t.ent[j].seg # NoSeg /\ t.ent[j].seg # g
        BY <1>11, <1>14, <2>2, <3>2 DEF SegPut
      <4>2. t.ent[j].seg <= Len(t.segs) /\ t.segs[t.ent[j].seg].inuse /\ t.ent[j].seg \in Nat
        BY <1>1, <4>1, EntryFields DEF Good, SegsGood
      <4>3. Len(t.segs) \in Nat /\ Len(segs) \in Nat /\ Len(t.segs) <= Len(segs)
        BY <1>1, <1>7, FileFacts DEF SegPut
      <4>4. t.ent[j].seg \in 1 .. Len(segs)
        BY <4>1, <4>2, <4>3 DEF NoSeg
      <4>5. segs[t.ent[j].seg] = t.segs[t.ent[j].seg]
        BY <4>1, <4>4 DEF SegPut
      <4> QED BY <3>2, <4>1, <4>2, <4>4, <4>5
    <3> QED BY <3>1, <3>2
  <2>3. ASSUME NEW j \in Entries, NEW l \in Entries, w.ent[j].seg # NoSeg, w.ent[j].seg = w.ent[l].seg
        PROVE  j = l
    BY <2>2, <2>3 DEF Good, SegsGood
  <2> QED BY <1>14, <2>1, <2>2, <2>3 DEF SegsGood
<1>22. w.room >= 0 /\ w.heap # << >> /\ w.room + Len(w.heap) <= MaxChunks
  <2>1. t.room >= 0 /\ t.heap # << >> /\ t.room + Len(t.heap) <= MaxChunks
    BY DEF Good
  <2>2. w.heap # << >>
    BY <1>3, <1>15
  <2> QED BY <1>14, <1>15, <2>1, <2>2
<1>23. Good(w)
  BY <1>16, <1>17, <1>18, <1>19, <1>20, <1>21, <1>22, GoodParts
<1>24. Kept(t, w, n)
  <2>1. Owned(w, n)
    BY <1>6, <1>9, <1>14 DEF Owned, Has
  <2>2. Stored(t, n) = DataOf(t, n)
    BY DEF Stored
  <2>3. w.ent[n].seg \in DOMAIN w.segs /\ w.segs[w.ent[n].seg].data = DataOf(t, n)
    BY <1>7, <1>9, <1>14 DEF SegPut
  <2>4. ~Has(w, n, "PRES") /\ ~(Has(w, n, "REVRT") \/ ~Has(w, n, "NODISC"))
    BY <1>9, <1>14 DEF Has
  <2>5. Stored(w, n) = DataOf(t, n)
    BY <2>3, <2>4, Zenon DEF Stored
  <2>6. ~Has(t, n, "REVRT")
    BY <1>6 DEF EntryGood, Has
  <2> QED BY <1>9, <1>14, <2>1, <2>2, <2>4, <2>5, <2>6 DEF Kept
<1>25. ASSUME NEW j, Owned(t, j), j # k, j # n PROVE Kept(t, w, j)
  <2>1. j \in Entries /\ j \notin w.unused /\ SameEntry(t, w, j)
    BY <1>14, <1>25 DEF Owned, SameEntry
  <2>2. CASE t.ent[j].seg = NoSeg
    <3>1. BlockStays(t, w, j)
      BY <1>15, <1>25 DEF BlockStays
    <3> QED BY <1>15, <1>23, <1>25, <2>1, <2>2, <3>1, KeptIf DEF Good
  <2>3. CASE t.ent[j].seg # NoSeg
    <3>1. t.ent[j].seg # g /\ t.ent[j].seg <= Len(t.segs) /\ t.ent[j].seg \in Nat
      BY <1>1, <2>1, <2>3, EntryFields DEF Good, SegsGood, SegPut
    <3>2. Len(t.segs) \in Nat /\ Len(segs) \in Nat /\ Len(t.segs) <= Len(segs)
      BY <1>1, <1>7, FileFacts DEF SegPut
    <3>3. t.ent[j].seg \in 1 .. Len(segs)
      BY <2>3, <3>1, <3>2 DEF NoSeg
    <3>4. w.segs[t.ent[j].seg].data = t.segs[t.ent[j].seg].data
      BY <1>14, <3>1, <3>3 DEF SegPut
    <3> QED BY <1>23, <1>25, <2>1, <2>3, <3>4, KeptInFile
  <2> QED BY <2>2, <2>3
<1>26. Modest(t, w)
  BY <1>9, <1>11, <1>14 DEF Modest
<1> QED BY <1>23, <1>24, <1>25, <1>26 DEF KeepsOthers

\* Lemma: a segment that is written.
LEMMA SegmentFacts ==
  ASSUME NEW siz \in 1 .. Chunk, NEW osz \in 1 .. Chunk, NEW data \in Versions \union {Nothing},
         NEW e, e = Segment(siz, osz, data)
  PROVE  e \in SegType /\ e.siz = siz /\ e.osz = osz /\ e.inuse /\ e.data = data
BY DEF Segment, SegType

\* The object n is written to segment g of the file of t, which has all that u has.
OutTo(u, r, n, data, t, g, segs) ==
  /\ Good(t) /\ Keeps(u, t) /\ OnlySegs(u, t) /\ SegPut(t, segs, g, data)
  /\ r.m = [t EXCEPT !.segs = segs, !.ent[n].seg = g]
  /\ Total([j \in 1 .. Len(segs) |-> segs[j].siz]) <= SwapSize

\* Lemma: a segment that is large enough is used again.
LEMMA OutAgain ==
  ASSUME NEW u, Good(u), NEW n, NEW siz \in 1 .. Chunk, NEW data \in Versions \union {Nothing},
         NEW g \in 1 .. Len(u.segs), ~u.segs[g].inuse, u.segs[g].siz >= siz, NEW r,
         r.m = [u EXCEPT !.segs[g] = Segment(u.segs[g].siz, siz, data), !.ent[n].seg = g]
  PROVE  \E segs : OutTo(u, r, n, data, u, g, segs)
<1>1. u \in StateType /\ SegsGood(u.ent, u.segs) /\ FileSize(u) <= SwapSize
  BY DEF Good
<1>2. PICK e : e = Segment(u.segs[g].siz, siz, data)
  OBVIOUS
<1>3. e \in SegType /\ e.siz = u.segs[g].siz /\ e.osz = siz /\ e.inuse /\ e.data = data
  BY <1>1, <1>2, SegFields, SegmentFacts
<1>4. PICK segs : segs = [u.segs EXCEPT ![g] = e]
  OBVIOUS
<1>5. u.segs \in Seq(SegType)
  BY <1>1, StateFields
<1>6. /\ segs \in Seq(SegType) /\ Len(segs) = Len(u.segs) /\ segs[g] = e
      /\ \A j \in 1 .. Len(segs) : j # g => segs[j] = u.segs[j]
  BY <1>3, <1>4, <1>5
<1>7. r.m = [u EXCEPT !.segs = segs, !.ent[n].seg = g]
  BY <1>2, <1>4
<1>8. Total([j \in 1 .. Len(segs) |-> segs[j].siz]) <= SwapSize
  <2>1. [j \in 1 .. Len(segs) |-> segs[j].siz] = [j \in 1 .. Len(u.segs) |-> u.segs[j].siz]
    BY <1>3, <1>6
  <2> QED BY <1>1, <2>1, FileFacts
<1>9. SegPut(u, segs, g, data)
  <2>1. \A j \in Entries : u.ent[j].seg # g
    BY <1>1 DEF SegsGood, NoSeg
  <2>2. g \in 1 .. Len(segs) /\ Len(u.segs) <= Len(segs)
    BY <1>1, <1>6, FileFacts
  <2>3. \A j \in 1 .. Len(segs) : j # g => j \in 1 .. Len(u.segs) /\ segs[j] = u.segs[j]
    BY <1>6
  <2>4. segs[g].osz <= segs[g].siz /\ segs[g].inuse /\ segs[g].data = data
    <3>1. u.segs[g].siz \in Nat
      BY <1>1, SegFields
    <3> QED BY <1>3, <1>6, <3>1, ConstFacts
  <2> QED BY <1>6, <2>1, <2>2, <2>3, <2>4 DEF SegPut
<1>10. OnlySegs(u, u) /\ Keeps(u, u)
  BY <1>1, KeepsSame DEF OnlySegs
<1> QED BY <1>7, <1>8, <1>9, <1>10 DEF OutTo

\* Lemma: a segment is added at the end of the file.
LEMMA OutBehind ==
  ASSUME NEW u, NEW t, Good(t), Keeps(u, t), OnlySegs(u, t), NEW n, NEW siz \in 1 .. Chunk,
         NEW data \in Versions \union {Nothing}, ~(FileSize(t) + siz > SwapSize), NEW r,
         r.m = [t EXCEPT !.segs = Append(@, Segment(siz, siz, data)), !.ent[n].seg = Len(t.segs) + 1]
  PROVE  \E segs : OutTo(u, r, n, data, t, Len(t.segs) + 1, segs)
<1>1. t \in StateType /\ SegsGood(t.ent, t.segs)
  BY DEF Good
<1>2. PICK e : e = Segment(siz, siz, data)
  OBVIOUS
<1>3. e \in SegType /\ e.siz = siz /\ e.osz = siz /\ e.inuse /\ e.data = data
  BY <1>2, SegmentFacts
<1>4. PICK segs : segs = Append(t.segs, e)
  OBVIOUS
<1>5. t.segs \in Seq(SegType) /\ Len(t.segs) \in Nat
  BY <1>1, StateFields
<1>6. /\ segs \in Seq(SegType) /\ Len(segs) = Len(t.segs) + 1 /\ segs[Len(t.segs) + 1] = e
      /\ \A j \in 1 .. Len(t.segs) : segs[j] = t.segs[j]
  BY <1>3, <1>4, <1>5
<1>7. PICK g : g = Len(t.segs) + 1
  OBVIOUS
<1>8. r.m = [t EXCEPT !.segs = segs, !.ent[n].seg = g]
  BY <1>2, <1>4, <1>7
<1>9. Total([j \in 1 .. Len(segs) |-> segs[j].siz]) <= SwapSize
  <2>1. PICK q : q = [j \in 1 .. Len(t.segs) |-> t.segs[j].siz]
    OBVIOUS
  <2>2. q \in Seq(Nat) /\ FileSize(t) = Total(q) /\ FileSize(t) \in Nat
    BY <1>1, <2>1, FileFacts, Zenon
  <2>3. PICK z : z = [j \in 1 .. Len(segs) |-> segs[j].siz]
    OBVIOUS
  <2>4. siz \in Nat /\ Len(q) = Len(t.segs)
    BY <1>5, <2>1, ConstFacts
  <2>5. PICK a : a = Append(q, siz)
    OBVIOUS
  <2>6. /\ a \in Seq(Nat) /\ Len(a) = Len(t.segs) + 1 /\ a[Len(t.segs) + 1] = siz
        /\ \A j \in 1 .. Len(t.segs) : a[j] = q[j]
    BY <2>2, <2>4, <2>5
  <2>7. z \in Seq(Nat) /\ Len(z) = Len(a)
    <3>1. \A j \in 1 .. Len(segs) : segs[j].siz \in Nat
      <4>1. \A j \in 1 .. Len(t.segs) : t.segs[j].siz \in Nat
        BY <1>1, SegFields
      <4>2. \A j \in 1 .. Len(segs) : j = Len(t.segs) + 1 \/ j \in 1 .. Len(t.segs)
        BY <1>5, <1>6
      <4> QED BY <1>3, <1>6, <2>4, <4>1, <4>2
    <3> QED BY <1>5, <1>6, <2>3, <2>6, <3>1
  <2>8. ASSUME NEW j \in 1 .. Len(z) PROVE z[j] = a[j]
    <3>1. j = Len(t.segs) + 1 \/ j \in 1 .. Len(t.segs)
      BY <1>5, <2>6, <2>7
    <3>2. z[j] = segs[j].siz
      BY <1>6, <2>3, <2>6, <2>7
    <3>3. CASE j = Len(t.segs) + 1
      BY <1>3, <1>6, <2>6, <3>2, <3>3
    <3>4. CASE j \in 1 .. Len(t.segs)
      BY <1>6, <2>1, <2>6, <3>2, <3>4
    <3> QED BY <3>1, <3>3, <3>4
  <2>9. z = a
    BY <2>6, <2>7, <2>8, SameSeq
  <2>10. Total(z) = Total(q) + siz
    BY <2>2, <2>4, <2>5, <2>9, TotalAppend
  <2> QED BY <2>2, <2>3, <2>4, <2>10, ConstFacts
<1>10. SegPut(t, segs, g, data)
  <2>1. \A j \in Entries : t.ent[j].seg # g
    <3> SUFFICES ASSUME NEW j \in Entries PROVE t.ent[j].seg # g
      OBVIOUS
    <3>1. t.ent[j].seg \in Nat /\ (t.ent[j].seg # NoSeg => t.ent[j].seg <= Len(t.segs))
      BY <1>1, EntryFields DEF SegsGood
    <3> QED BY <1>5, <1>7, <3>1 DEF NoSeg
  <2>2. g \in 1 .. Len(segs) /\ Len(t.segs) <= Len(segs)
    BY <1>5, <1>6, <1>7
  <2>3. \A j \in 1 .. Len(segs) : j # g => j \in 1 .. Len(t.segs) /\ segs[j] = t.segs[j]
    BY <1>5, <1>6, <1>7
  <2>4. segs[g].osz <= segs[g].siz /\ segs[g].inuse /\ segs[g].data = data
    BY <1>3, <1>6, <1>7, ConstFacts, SMTT(20)
  <2> QED BY <1>6, <2>1, <2>2, <2>3, <2>4 DEF SegPut
<1> QED BY <1>7, <1>8, <1>9, <1>10 DEF OutTo

\* Lemma: the swapper has written the object, or it has at most compacted the file.
LEMMA mcsoutFacts ==
  ASSUME NEW u, Good(u), NEW n, NEW siz \in 1 .. Chunk,
         NEW data \in Versions \union {Nothing}, NEW r, r = mcsout(u, n, siz, data)
  PROVE  \/ /\ r.ok = FALSE /\ Good(r.m) /\ Keeps(u, r.m) /\ OnlySegs(u, r.m)
            /\ FileSize(r.m) + siz > SwapSize
         \/ r.ok = TRUE /\ \E t, g, segs : OutTo(u, r, n, data, t, g, segs)
<1>1. u \in StateType /\ u.segs \in Seq(SegType)
  BY StateFields DEF Good
<1>2. PICK I : I = {i \in DOMAIN u.segs : ~u.segs[i].inuse /\ u.segs[i].siz >= siz}
  OBVIOUS
<1>3. PICK t : t = IF FileSize(u) + siz > SwapSize THEN mcscompact(u) ELSE u
  OBVIOUS
<1>4. Good(t) /\ Keeps(u, t) /\ OnlySegs(u, t)
  <2>1. OnlySegs(u, u)
    BY <1>1 DEF OnlySegs
  <2> QED BY <1>3, <2>1, mcscompactGood, KeepsSame
<1>5. CASE I # {}
  <2>1. PICK f : f = [i \in I |-> u.segs[i].siz]
    OBVIOUS
  <2>2. I \in SUBSET (1 .. Len(u.segs)) /\ I \in SUBSET Nat
    BY <1>1, <1>2
  <2>3. \A i \in I : f[i] = u.segs[i].siz /\ f[i] \in Nat
    BY <1>1, <2>1, <2>2, SegFields
  <2>4. \E i \in I : \A j \in I : f[i] < f[j] \/ (f[i] = f[j] /\ i <= j)
    BY <1>5, <2>2, <2>3, LeastFirst
  <2>5. \E i \in I : \A j \in I :
           \/ u.segs[i].siz < u.segs[j].siz
           \/ u.segs[i].siz = u.segs[j].siz /\ i <= j
    BY <2>3, <2>4
  <2>6. PICK g \in I : g = CHOOSE i \in I : \A j \in I :
           \/ u.segs[i].siz < u.segs[j].siz
           \/ u.segs[i].siz = u.segs[j].siz /\ i <= j
    BY <2>5
  <2>7. r = [m |-> [u EXCEPT !.segs[g] = Segment(u.segs[g].siz, siz, data), !.ent[n].seg = g], ok |-> TRUE]
    BY <1>2, <1>5, <2>6, Zenon DEF mcsout
  <2>8. r.m = [u EXCEPT !.segs[g] = Segment(u.segs[g].siz, siz, data), !.ent[n].seg = g] /\ r.ok = TRUE
    BY <2>7
  <2>9. g \in 1 .. Len(u.segs) /\ ~u.segs[g].inuse /\ u.segs[g].siz >= siz
    BY <1>2, <2>2
  <2>10. \E segs : OutTo(u, r, n, data, u, g, segs)
    BY <2>8, <2>9, OutAgain
  <2> QED BY <2>8, <2>10
<1>6. CASE I = {} /\ FileSize(t) + siz > SwapSize
  <2>1. r = [m |-> t, ok |-> FALSE]
    BY <1>2, <1>3, <1>6, Zenon DEF mcsout
  <2>2. r.ok = FALSE /\ r.m = t
    BY <2>1
  <2> QED BY <1>4, <1>6, <2>2
<1>7. CASE I = {} /\ ~(FileSize(t) + siz > SwapSize)
  <2>1. r = [m |-> [t EXCEPT !.segs = Append(@, Segment(siz, siz, data)), !.ent[n].seg = Len(t.segs) + 1],
             ok |-> TRUE]
    BY <1>2, <1>3, <1>7, Zenon DEF mcsout
  <2>2. r.m = [t EXCEPT !.segs = Append(@, Segment(siz, siz, data)), !.ent[n].seg = Len(t.segs) + 1]
        /\ r.ok = TRUE
    BY <2>1
  <2>3. \E segs : OutTo(u, r, n, data, t, Len(t.segs) + 1, segs)
    BY <1>4, <1>7, <2>2, OutBehind
  <2> QED BY <2>2, <2>3
<1> QED BY <1>5, <1>6, <1>7

\* The state that Tossed returns.
TossedAs(t, n, k, e, g, segs, c, i, b) ==
  LinkFree([SetBlock([t EXCEPT !.segs = segs, !.ent[n].seg = g], <<c, i>>, b) EXCEPT
              !.ent[k] = e, !.ent[n].flg = @ \ {"PRES", "LRU"}, !.ent[n].at = Nowhere,
              !.lru = RemoveFirst(@, n)], k)
TossedEntries(t, n, k, e, g) == [t.ent EXCEPT ![k] = e, ![n] = OutEntry(t.ent[n], g)]

\* Lemma: the parts of the state after an entry is linked into the free list.
LEMMA LinkedFields ==
  ASSUME NEW k \in Entries, NEW z, NEW x, NEW heap, NEW free, NEW unused, NEW lru, NEW segs, NEW room,
         Fields(z, x, heap, free, unused, lru, segs, room)
  PROVE  Fields(LinkFree(z, k), x, heap, <<k>> \o free, unused, lru, segs, room)
<1>1. /\ z \in StateType /\ z.ent = x /\ z.heap = heap /\ z.free = free /\ z.unused = unused
      /\ z.lru = lru /\ z.segs = segs /\ z.room = room
  BY Zenon DEF Fields
<1>2. PICK v : v = LinkFree(z, k)
  OBVIOUS
<1>3. /\ v \in StateType /\ v.free = <<k>> \o z.free /\ v.ent = z.ent /\ v.unused = z.unused
      /\ v.heap = z.heap /\ v.lru = z.lru /\ v.segs = z.segs /\ v.room = z.room
  BY <1>1, <1>2, LinkFreeFacts
<1> QED BY <1>1, <1>2, <1>3, Zenon DEF Fields

\* Lemma: the parts of the state after an object is tossed out.
LEMMA TossFields ==
  ASSUME NEW t \in StateType, NEW n \in Entries, NEW k \in Entries, n # k, NEW segs \in Seq(SegType),
         NEW x \in [Entries -> EntryType], NEW heap \in Seq(Seq(BlockType)), NEW lru \in Seq(Entries),
         NEW w, NEW g, NEW e, NEW c, NEW i, NEW b,
         x = TossedEntries(t, n, k, e, g), heap = [t.heap EXCEPT ![c][i] = b],
         lru = RemoveFirst(t.lru, n), w = TossedAs(t, n, k, e, g, segs, c, i, b)
  PROVE  Fields(w, x, heap, <<k>> \o t.free, t.unused, lru, segs, t.room)
<1>1. PICK z : z = [t EXCEPT !.ent = x, !.heap = heap, !.lru = lru, !.segs = segs]
  OBVIOUS
<1>2. Fields(z, x, heap, t.free, t.unused, lru, segs, t.room)
  BY <1>1 DEF Fields, StateType
<1>3. t.ent \in [Entries -> EntryType]
  BY StateFields
<1>4. PICK y : y = [SetBlock([t EXCEPT !.segs = segs, !.ent[n].seg = g], <<c, i>>, b) EXCEPT
                      !.ent[k] = e, !.ent[n].flg = @ \ {"PRES", "LRU"}, !.ent[n].at = Nowhere,
                      !.lru = RemoveFirst(@, n)]
  OBVIOUS
<1>5. y = [[t EXCEPT !.segs = segs, !.ent[n].seg = g, !.heap[c][i] = b] EXCEPT
                      !.ent[k] = e, !.ent[n].flg = @ \ {"PRES", "LRU"}, !.ent[n].at = Nowhere,
                      !.lru = RemoveFirst(@, n)]
  BY <1>4 DEF SetBlock
<1>6. y = z
  <2>1. PICK a : a = [t.ent EXCEPT ![n] = [t.ent[n] EXCEPT !.seg = g]]
    OBVIOUS
  <2>2. PICK q : q = [t EXCEPT !.segs = segs, !.ent = a, !.heap = heap]
    OBVIOUS
  <2>3. q = [t EXCEPT !.segs = segs, !.ent[n].seg = g, !.heap[c][i] = b]
    BY <2>1, <2>2
  <2>4. q.ent = a /\ q.lru = t.lru
    BY <2>2 DEF StateType
  <2>5. PICK o : o = [[[a EXCEPT ![k] = e] EXCEPT ![n].flg = @ \ {"PRES", "LRU"}] EXCEPT ![n].at = Nowhere]
    OBVIOUS
  <2>6. o = x
    <3>1. a[n] = [t.ent[n] EXCEPT !.seg = g] /\ DOMAIN a = Entries
          /\ \A j \in Entries : j # n => a[j] = t.ent[j]
      BY <1>3, <2>1
    <3>2. /\ DOMAIN o = Entries /\ o[n] = [[a[n] EXCEPT !.flg = @ \ {"PRES", "LRU"}] EXCEPT !.at = Nowhere]
          /\ o[k] = e /\ \A j \in Entries : j # n /\ j # k => o[j] = a[j]
          /\ o = [j \in Entries |-> o[j]]
      BY <1>3, <2>5, <3>1
    <3>3. t.ent[n] \in EntryType
      BY <1>3
    <3>4. [[[t.ent[n] EXCEPT !.seg = g] EXCEPT !.flg = @ \ {"PRES", "LRU"}] EXCEPT !.at = Nowhere]
            = OutEntry(t.ent[n], g)
      BY <3>3 DEF OutEntry, EntryType
    <3>5. /\ x[n] = OutEntry(t.ent[n], g) /\ x[k] = e
          /\ \A j \in Entries : j # n /\ j # k => x[j] = t.ent[j]
          /\ x = [j \in Entries |-> x[j]]
      BY <1>3 DEF TossedEntries
    <3>6. o[n] = x[n]
      BY <3>1, <3>2, <3>4, <3>5, Zenon
    <3>7. \A j \in Entries : o[j] = x[j]
      BY <3>1, <3>2, <3>5, <3>6
    <3>8. [j \in Entries |-> o[j]] = [j \in Entries |-> x[j]]
      BY <3>7, Zenon
    <3> QED BY <3>2, <3>5, <3>8, Zenon
  <2>7. y = [q EXCEPT !.ent[k] = e, !.ent[n].flg = @ \ {"PRES", "LRU"}, !.ent[n].at = Nowhere,
                      !.lru = RemoveFirst(@, n)]
    BY <1>5, <2>3
  <2>8. y = [q EXCEPT !.ent = o, !.lru = lru]
    <3>1. PICK o1 : o1 = [a EXCEPT ![k] = e]
      OBVIOUS
    <3>2. PICK o2 : o2 = [o1 EXCEPT ![n].flg = @ \ {"PRES", "LRU"}]
      OBVIOUS
    <3>3. o = [o2 EXCEPT ![n].at = Nowhere]
      BY <2>5, <3>1, <3>2
    <3>4. PICK q1 : q1 = [q EXCEPT !.ent = o1]
      OBVIOUS
    <3>5. PICK q2 : q2 = [q1 EXCEPT !.ent = o2]
      OBVIOUS
    <3>6. PICK q3 : q3 = [q2 EXCEPT !.ent = o]
      OBVIOUS
    <3>7. q1.ent = o1 /\ q2.ent = o2 /\ q3.ent = o /\ q3.lru = t.lru
      BY <2>2, <2>4, <3>4, <3>5, <3>6 DEF StateType
    <3>8. q1 = [q EXCEPT !.ent[k] = e]
      BY <2>4, <3>1, <3>4
    <3>9. q2 = [q1 EXCEPT !.ent[n].flg = @ \ {"PRES", "LRU"}]
      BY <3>2, <3>5, <3>7
    <3>10. q3 = [q2 EXCEPT !.ent[n].at = Nowhere]
      BY <3>3, <3>6, <3>7
    <3>11. y = [q3 EXCEPT !.lru = RemoveFirst(@, n)]
      <4>1. y = [[[[q EXCEPT !.ent[k] = e] EXCEPT !.ent[n].flg = q.ent[n].flg \ {"PRES", "LRU"}]
                  EXCEPT !.ent[n].at = Nowhere] EXCEPT !.lru = RemoveFirst(q.lru, n)]
        BY <2>7
      <4>2. q1.ent[n].flg = q.ent[n].flg
        BY <1>3, <2>1, <2>4, <3>1, <3>7
      <4>3. q2 = [q1 EXCEPT !.ent[n].flg = q.ent[n].flg \ {"PRES", "LRU"}]
        BY <3>9, <4>2
      <4>4. q3 = [[[q EXCEPT !.ent[k] = e] EXCEPT !.ent[n].flg = q.ent[n].flg \ {"PRES", "LRU"}]
                  EXCEPT !.ent[n].at = Nowhere]
        BY <3>8, <3>10, <4>3, Zenon
      <4>5. RemoveFirst(q.lru, n) = RemoveFirst(q3.lru, n)
        BY <2>4, <3>7, Zenon
      <4>6. y = [q3 EXCEPT !.lru = RemoveFirst(q3.lru, n)]
        BY <4>1, <4>4, <4>5, Zenon
      <4> QED BY <4>6
    <3>12. y = [q3 EXCEPT !.lru = lru]
      BY <3>7, <3>11
    <3> QED BY <3>4, <3>5, <3>6, <3>12, <2>2 DEF StateType
  <2>9. y = [q EXCEPT !.ent = x, !.lru = lru]
    BY <2>6, <2>8
  <2> QED BY <1>1, <2>2, <2>9 DEF StateType
<1>7. Fields(LinkFree(z, k), x, heap, <<k>> \o t.free, t.unused, lru, segs, t.room)
  BY <1>2, LinkedFields, Zenon
<1>8. w = LinkFree(z, k)
  BY <1>4, <1>6, Zenon DEF TossedAs
<1> QED BY <1>7, <1>8, Zenon

-----------------------------------------------------------------------------
\* Tossing an object out.

\* Other entries than n stay in the LRU list, or out of it.
LruKept(s, t, n) == \A j \in Entries : j # n => (Has(t, j, "LRU") <=> Has(s, j, "LRU"))

\* How an attempt to toss n out ends: without a header for its block nothing
\* happens; the swap file may be full; or the object has left memory.
TossEnd(s, r, n) ==
  \/ r.tossed = FALSE /\ r.ok = TRUE /\ r.m = s /\ s.unused = {}
  \/ r.tossed = FALSE /\ r.ok = FALSE /\ SwapFull(r.m)
  \/ /\ r.tossed = TRUE /\ r.ok = TRUE /\ s.unused # {}
     /\ ~Has(r.m, n, "LRU") /\ s.ent[n].siz \in 1 .. Chunk

\* Lemma: an unused header is put aside.
LEMMA AsideGood ==
  ASSUME NEW s, Good(s), NEW k \in s.unused, NEW u, u = Use(s, k, UnusedEntry)
  PROVE  /\ Good(u) /\ Keeps(s, u) /\ u.ent = s.ent /\ u.unused = s.unused \ {k}
         /\ u.heap = s.heap /\ u.free = s.free /\ u.lru = s.lru /\ u.segs = s.segs /\ u.room = s.room
<1>1. s \in StateType /\ k \in Entries /\ s.ent[k] = UnusedEntry /\ s.ent \in [Entries -> EntryType]
  BY StateFields DEF Good
<1>2. /\ u \in StateType /\ u.ent = [s.ent EXCEPT ![k] = UnusedEntry] /\ u.unused = s.unused \ {k}
      /\ u.heap = s.heap /\ u.free = s.free /\ u.lru = s.lru /\ u.segs = s.segs /\ u.room = s.room
  BY <1>1, UseFacts, UnusedEntryFacts
<1>3. u.ent = s.ent
  BY <1>1, <1>2
<1>4. FileSize(u) <= SwapSize
  BY <1>2, FileStays DEF Good
<1>5. \A j \in u.unused : u.ent[j] = UnusedEntry
  BY <1>2, <1>3 DEF Good
<1>6. Good(u)
  BY <1>2, <1>3, <1>4, <1>5 DEF Good
<1>7. ASSUME NEW j, Owned(s, j) PROVE Kept(s, u, j)
  <2>1. j \in Entries /\ j \notin u.unused /\ SameEntry(s, u, j) /\ BlockStays(s, u, j)
    BY <1>2, <1>3, <1>7 DEF Owned, SameEntry, BlockStays
  <2> QED BY <1>2, <1>6, <1>7, <2>1, KeptIf DEF Good, HeapGood
<1>8. Modest(s, u)
  BY <1>3 DEF Modest
<1> QED BY <1>2, <1>3, <1>6, <1>7, <1>8 DEF Keeps

\* Lemma: a header put aside stays without flags.
LEMMA AsideStays ==
  ASSUME NEW u, NEW t, OnlySegs(u, t), NEW k \in Entries, u.ent[k] = UnusedEntry
  PROVE  t.ent[k] = UnusedEntry
<1>1. t \in StateType /\ t.ent[k] \in EntryType /\ UnusedEntry \in EntryType
  BY EntryFields, UnusedEntryFacts DEF OnlySegs
<1>2. /\ t.ent[k].flg = UnusedEntry.flg /\ t.ent[k].siz = UnusedEntry.siz
      /\ t.ent[k].at = UnusedEntry.at /\ t.ent[k].locks = UnusedEntry.locks
      /\ t.ent[k].seg = UnusedEntry.seg
  BY UnusedEntryFacts DEF OnlySegs
<1> QED BY <1>1, <1>2 DEF EntryType

\* Lemma: tossing an object out keeps them all.
LEMMA mcmtossGood ==
  ASSUME NEW s, Good(s), NEW n \in Entries, Has(s, n, "PRES"), ~Has(s, n, "LOCK"),
         NEW r, r = mcmtoss(s, n)
  PROVE  Good(r.m) /\ Keeps(s, r.m) /\ LruKept(s, r.m, n) /\ TossEnd(s, r, n)
<1>1. s \in StateType /\ s.ent \in [Entries -> EntryType]
  BY StateFields DEF Good
<1>2. PICK c \in 1 .. Len(s.heap) : \E i \in 1 .. Len(s.heap[c]) :
        s.heap[c][i].num = n /\ PlaceOf(s, n) = <<c, i>> /\ DataOf(s, n) = s.heap[c][i].data
  BY HeaderPlace
<1>3. PICK i \in 1 .. Len(s.heap[c]) :
        s.heap[c][i].num = n /\ PlaceOf(s, n) = <<c, i>> /\ DataOf(s, n) = s.heap[c][i].data
  BY <1>2
<1>4. s.ent[n].siz \in 1 .. Chunk /\ DataOf(s, n) \in Versions \union {Nothing}
  <2>1. s.ent[n].siz \in 0 .. Chunk /\ s.ent[n].siz > 0
    BY <1>1, <1>3, EndFits, EntryFields
  <2>2. s.heap[c][i].data \in Versions \union {Nothing}
    BY <1>1, StateFields, BlocksFacts
  <2> QED BY <1>3, <2>1, <2>2, ConstFacts
<1>5. CASE s.unused = {}
  <2>1. r.m = s /\ r.tossed = FALSE /\ r.ok = TRUE
    BY <1>5 DEF mcmtoss
  <2> QED BY <1>5, <2>1, KeepsSame DEF LruKept, TossEnd
<1>6. CASE s.unused # {}
  <2>1. PICK k : k = Unused(s)
    OBVIOUS
  <2>2. k \in s.unused /\ k \in Entries /\ k # n
    BY <1>6, <2>1, UnusedOther
  <2>3. PICK u : u = Use(s, k, UnusedEntry)
    OBVIOUS
  <2>4. /\ Good(u) /\ Keeps(s, u) /\ u.ent = s.ent /\ u.unused = s.unused \ {k}
        /\ u.heap = s.heap /\ u.free = s.free /\ u.lru = s.lru /\ u.segs = s.segs /\ u.room = s.room
    BY <2>2, <2>3, AsideGood
  <2>5. s.ent[k] = UnusedEntry /\ u.ent[k] = UnusedEntry
    BY <2>2, <2>4 DEF Good
  <2>6. PICK out : out = mcsout(u, n, s.ent[n].siz, DataOf(s, n))
    OBVIOUS
  <2>7. r = Tossed(s, n, k, out)
    BY <1>6, <2>1, <2>3, <2>6, Zenon DEF mcmtoss
  <2>8. \/ /\ out.ok = FALSE /\ Good(out.m) /\ Keeps(u, out.m) /\ OnlySegs(u, out.m)
           /\ FileSize(out.m) + s.ent[n].siz > SwapSize
        \/ out.ok = TRUE /\ \E t, g, segs : OutTo(u, out, n, DataOf(s, n), t, g, segs)
    BY <1>4, <2>4, <2>6, mcsoutFacts
  <2>9. CASE /\ out.ok = FALSE /\ Good(out.m) /\ Keeps(u, out.m) /\ OnlySegs(u, out.m)
             /\ FileSize(out.m) + s.ent[n].siz > SwapSize
    <3>1. r.m = out.m /\ r.tossed = FALSE /\ r.ok = FALSE
      BY <2>7, <2>9 DEF Tossed
    <3>2. Keeps(s, r.m)
      BY <2>4, <2>9, <3>1, KeepsTwice
    <3>3. LruKept(s, r.m, n)
      BY <2>4, <2>9, <3>1 DEF LruKept, OnlySegs, Has
    <3>4. /\ ~Has(r.m, n, "LOCK") /\ Has(r.m, n, "LRU") /\ r.m.ent[n].siz = s.ent[n].siz
      <4>1. r.m.ent[n].flg = s.ent[n].flg /\ r.m.ent[n].siz = s.ent[n].siz
        BY <2>4, <2>9, <3>1 DEF OnlySegs
      <4>2. "LRU" \in s.ent[n].flg
        BY DEF Good, EntryGood, Has
      <4> QED BY <4>1, <4>2 DEF Has
    <3>5. n \in ToSet(r.m.lru)
      <4>1. ListOf(r.m.ent, r.m.lru, "LRU")
        BY <2>9, <3>1 DEF Good, ListsGood
      <4> QED BY <3>4, <4>1 DEF ListOf, Has
    <3>6. SwapFull(r.m)
      <4>1. FileSize(r.m) + r.m.ent[n].siz > SwapSize
        BY <2>9, <3>1, <3>4
      <4> QED BY <3>4, <3>5, <4>1 DEF SwapFull
    <3> QED BY <2>9, <3>1, <3>2, <3>3, <3>6 DEF TossEnd
  <2>10. CASE out.ok = TRUE /\ \E t, g, segs : OutTo(u, out, n, DataOf(s, n), t, g, segs)
    <3>1. PICK t, g, segs : OutTo(u, out, n, DataOf(s, n), t, g, segs)
      BY <2>10
    <3>2. /\ Good(t) /\ Keeps(u, t) /\ OnlySegs(u, t) /\ SegPut(t, segs, g, DataOf(s, n))
          /\ out.m = [t EXCEPT !.segs = segs, !.ent[n].seg = g]
          /\ Total([j \in 1 .. Len(segs) |-> segs[j].siz]) <= SwapSize
      BY <3>1, Zenon DEF OutTo
    <3>3. t.ent[k] = UnusedEntry /\ k \notin t.unused
      <4>1. t.ent[k] = UnusedEntry
        BY <2>2, <2>5, <3>2, AsideStays
      <4> QED BY <2>4, <3>2, <4>1 DEF OnlySegs
    <3>4. /\ t \in StateType /\ t.heap = s.heap /\ t.free = s.free /\ t.unused = u.unused
          /\ t.lru = s.lru /\ t.room = s.room
          /\ \A j \in Entries : t.ent[j].flg = s.ent[j].flg /\ t.ent[j].siz = s.ent[j].siz
                                /\ t.ent[j].at = s.ent[j].at
      BY <2>4, <3>2 DEF OnlySegs
    <3>5. PlaceOf(t, n) = <<c, i>> /\ DataOf(t, n) = DataOf(s, n)
      BY <1>3, <3>4, SameHeap
    <3>6. Has(t, n, "PRES") /\ ~Has(t, n, "LOCK")
      BY <3>4 DEF Has
    <3>7. PICK e : e = Entry({"FREE"}, s.ent[n].siz, s.ent[n].at, 0)
      OBVIOUS
    <3>8. e \in EntryType
      BY <1>1, <3>7, EntryFields, FreeEntry
    <3>9. PICK b : b = Block(k, Nothing)
      OBVIOUS
    <3>10. segs \in Seq(SegType) /\ g \in Nat /\ g # 0
      BY <3>2 DEF SegPut
    <3>11. PICK x : x = TossedEntries(t, n, k, e, g)
      OBVIOUS
    <3>12. x \in [Entries -> EntryType] /\ x[n] = OutEntry(t.ent[n], g) /\ x[k] = e
           /\ \A j \in Entries : j # n /\ j # k => x[j] = t.ent[j]
      <4>1. t.ent \in [Entries -> EntryType] /\ EntryGood(t.ent[n])
        BY <3>2, <3>4, StateFields DEF Good
      <4>2. t.ent[n] \in EntryType
        BY <4>1
      <4>3. OutEntry(t.ent[n], g) \in EntryType
        BY <3>6, <3>10, <4>1, <4>2, OutEntryFacts DEF Has
      <4> QED BY <2>2, <3>8, <3>11, <4>1, <4>3 DEF TossedEntries
    <3>13. PICK heap : heap = [t.heap EXCEPT ![c][i] = b]
      OBVIOUS
    <3>14. heap \in Seq(Seq(BlockType))
      <4>1. b \in BlockType /\ b.num = k
        BY <2>2, <3>9 DEF Block, BlockType
      <4>2. NotIn(t.heap, b.num)
        BY <2>2, <3>4, <4>1, UnusedApart
      <4>3. t.heap \in Seq(Seq(BlockType)) /\ Separate(t.heap)
        BY <3>2, StateFields DEF Good, HeapGood
      <4>4. c \in 1 .. Len(t.heap) /\ i \in 1 .. Len(t.heap[c])
        BY <3>4
      <4>5. Relabelled(t.heap, c, i, b)
        BY <4>1, <4>2, <4>3, <4>4, RelabelOne
      <4> QED BY <3>13, <4>5, Zenon DEF Relabelled
    <3>15. PICK lru : lru = RemoveFirst(t.lru, n)
      OBVIOUS
    <3>16. lru \in Seq(Entries)
      <4>1. t.lru \in Seq(Entries) /\ IsInjective(t.lru)
        BY <3>2, StateFields DEF Good, ListsGood, ListOf
      <4> QED BY <3>15, <4>1, RemoveFirstFacts
    <3>17. PICK w : w = r.m
      OBVIOUS
    <3>18. w = TossedAs(t, n, k, e, g, segs, c, i, b)
      <4>1. r = [m |-> LinkFree([SetBlock(out.m, PlaceOf(s, n), Block(k, Nothing)) EXCEPT
                          !.ent[k] = Entry({"FREE"}, s.ent[n].siz, s.ent[n].at, 0),
                          !.ent[n].flg = @ \ {"PRES", "LRU"}, !.ent[n].at = Nowhere,
                          !.lru = RemoveFirst(@, n)], k), tossed |-> TRUE, ok |-> TRUE]
        BY <2>7, <2>10, Zenon DEF Tossed
      <4>2. PICK z : z = LinkFree([SetBlock(out.m, PlaceOf(s, n), Block(k, Nothing)) EXCEPT
                          !.ent[k] = Entry({"FREE"}, s.ent[n].siz, s.ent[n].at, 0),
                          !.ent[n].flg = @ \ {"PRES", "LRU"}, !.ent[n].at = Nowhere,
                          !.lru = RemoveFirst(@, n)], k)
        OBVIOUS
      <4>3. r = [m |-> z, tossed |-> TRUE, ok |-> TRUE]
        BY <4>1, <4>2, Zenon
      <4>4. w = z
        BY <3>17, <4>3
      <4>5. PlaceOf(s, n) = <<c, i>>
        BY <1>3
      <4> QED BY <3>2, <3>7, <3>9, <4>2, <4>4, <4>5, Zenon DEF TossedAs
    <3>19. Fields(w, x, heap, <<k>> \o t.free, t.unused, lru, segs, t.room)
      <4>1. t \in StateType /\ n # k /\ segs \in Seq(SegType) /\ x \in [Entries -> EntryType]
        BY <2>2, <3>4, <3>10, <3>12
      <4>2. t \in StateType
        BY <4>1
      <4>3. n # k
        BY <4>1
      <4>4. segs \in Seq(SegType)
        BY <4>1
      <4>5. x \in [Entries -> EntryType]
        BY <4>1
      <4>6. k \in Entries
        BY <2>2
      <4> QED BY <3>11, <3>13, <3>14, <3>15, <3>16, <3>18, <4>2, <4>3, <4>4, <4>5, <4>6, TossFields
    <3>20. TossOf(t, w, n, k, g, segs)
      <4>1. PlaceOf(t, n)[1] = c /\ PlaceOf(t, n)[2] = i
        BY <3>5
      <4>2. e = Entry({"FREE"}, t.ent[n].siz, t.ent[n].at, 0)
        BY <3>4, <3>7
      <4>3. w.heap = [t.heap EXCEPT ![PlaceOf(t, n)[1]][PlaceOf(t, n)[2]] = Block(k, Nothing)]
        BY <3>9, <3>13, <3>19, <4>1, Zenon DEF Fields
      <4>4. w.ent[n] = OutEntry(t.ent[n], g) /\ w.ent[k] = e
            /\ \A j \in Entries : j # n /\ j # k => w.ent[j] = t.ent[j]
        BY <3>12, <3>19 DEF Fields
      <4>5. /\ w.free = <<k>> \o t.free /\ w.unused = t.unused /\ w.lru = RemoveFirst(t.lru, n)
            /\ w.segs = segs /\ w.room = t.room
        BY <3>15, <3>19, Zenon DEF Fields
      <4> QED BY <4>2, <4>3, <4>4, <4>5, Zenon DEF TossOf
    <3>21. w \in StateType /\ FileSize(w) <= SwapSize
      <4>1. w \in StateType /\ w.segs = segs
        BY <3>19 DEF Fields
      <4>2. FileSize(w) = Total([j \in 1 .. Len(w.segs) |-> w.segs[j].siz])
        BY <4>1, FileFacts
      <4> QED BY <3>2, <4>1, <4>2
    <3>22. Good(w) /\ KeepsOthers(t, w, k)
      <4>1. SegPut(t, segs, g, DataOf(t, n))
        BY <3>2, <3>5
      <4> QED BY <2>2, <3>2, <3>3, <3>6, <3>20, <3>21, <4>1, TossOfGood
    <3>23. Keeps(s, w)
      <4>1. ASSUME NEW j, Owned(s, j) PROVE Kept(s, w, j)
        <5>1. j # k /\ Kept(s, u, j) /\ Owned(u, j)
          BY <2>2, <2>4, <4>1 DEF Keeps, Kept, Owned
        <5>2. Kept(u, t, j) /\ Owned(t, j)
          BY <3>2, <5>1 DEF Keeps, Kept
        <5>3. Kept(t, w, j)
          BY <3>22, <5>1, <5>2 DEF KeepsOthers
        <5>4. Kept(u, w, j)
          BY <2>4, <3>2, <5>1, <5>2, <5>3, KeptTwice
        <5> QED BY <2>4, <4>1, <5>1, <5>4, KeptTwice
      <4>2. Modest(s, w)
        BY <2>4, <3>2, <3>22 DEF Keeps, KeepsOthers, Modest
      <4> QED BY <4>1, <4>2 DEF Keeps
    <3>24. LruKept(s, w, n)
      <4> SUFFICES ASSUME NEW j \in Entries, j # n PROVE Has(w, j, "LRU") <=> Has(s, j, "LRU")
        BY DEF LruKept
      <4>1. CASE j = k
        BY <2>5, <3>7, <3>12, <3>19, <4>1, UnusedEntryFacts DEF Fields, Has, Entry
      <4>2. CASE j # k
        BY <3>4, <3>12, <3>19, <4>2 DEF Fields, Has
      <4> QED BY <4>1, <4>2
    <3>25. TossEnd(s, r, n)
      <4>1. r.tossed = TRUE /\ r.ok = TRUE
        BY <2>7, <2>10 DEF Tossed
      <4>2. ~Has(w, n, "LRU")
        <5>1. w.ent[n] = OutEntry(t.ent[n], g)
          BY <3>12, <3>19 DEF Fields
        <5>2. t.ent[n] \in EntryType /\ EntryGood(t.ent[n])
          BY <3>2, <3>4, EntryFields DEF Good
        <5>3. "LRU" \notin OutEntry(t.ent[n], g).flg
          BY <3>6, <3>10, <5>2, OutEntryFacts DEF Has
        <5> QED BY <5>1, <5>3 DEF Has
      <4> QED BY <1>4, <1>6, <3>17, <4>1, <4>2 DEF TossEnd
    <3> QED BY <3>17, <3>22, <3>23, <3>24, <3>25
  <2> QED BY <2>8, <2>9, <2>10
<1> QED BY <1>5, <1>6

-----------------------------------------------------------------------------
\* mcmswap.

\* The objects of the LRU list are visited in turn; those still to come are in
\* the list.
TossNext(env, a, n) == Visit(a, n, env.siz, env.min)
Lru(s) == {n \in Entries : Has(s, n, "LRU")}
AllLocked(s) == \A n \in Entries : Has(s, n, "LRU") => Has(s, n, "LOCK")

\* Nothing has gone wrong and nothing was tossed out.
Calm(a) == a.ok /\ a.tot = 0

\* What the loops have made of z: they stop at a full swap file, and what they
\* tossed out has left the list.
LruLess(z, t) == z.unused # {} /\ Lru(t) \subseteq Lru(z) /\ Lru(t) # Lru(z)
Tally(z, a) ==
  /\ a.tot \in Nat /\ a.ok \in BOOLEAN
  /\ ~a.ok => SwapFull(a.m)
  /\ Calm(a) => a.m = z
  /\ (a.ok /\ a.tot > 0) => LruLess(z, a.m)

\* A pass that takes objects of any size leaves locked ones only.
Combed(env, i, a) ==
  (env.min = 0 /\ Calm(a)) =>
    /\ Calm(env.base)
    /\ env.z.unused # {} => \A j \in 1 .. i : Has(env.z, env.s.lru[j], "LOCK")
SwapSoFar(env, i, a) ==
  /\ Good(a.m) /\ Keeps(env.s, a.m)
  /\ Tally(env.z, a)
  /\ Combed(env, i, a)
  /\ \A j \in 1 .. Len(env.s.lru) : j > i => Has(a.m, env.s.lru[j], "LRU")
Tossing == INSTANCE Induction WITH Step <- TossNext, Holds <- SwapSoFar

\* Lemma: Pass is the fold that the instance speaks of.
LEMMA PassIsFold ==
  ASSUME NEW a, NEW siz, NEW min, NEW z
  PROVE  Pass(a, siz, min)
           = Tossing!Fold([s |-> a.m, siz |-> siz, min |-> min, z |-> z, base |-> a], a, a.m.lru)
BY DEF Pass, Tossing!Fold, TossNext, FoldLeft, MapThenFoldSet, Max, Tossing!Largest,
       Tossing!MapThenFoldSet

\* Lemma: a visit keeps the objects.
LEMMA VisitGood ==
  ASSUME NEW a, Good(a.m), NEW n \in Entries, Has(a.m, n, "LRU"), NEW siz, NEW min,
         NEW b, b = Visit(a, n, siz, min)
  PROVE  Good(b.m) /\ Keeps(a.m, b.m) /\ LruKept(a.m, b.m, n)
<1>1. CASE ~a.ok \/ a.tot >= siz \/ Has(a.m, n, "LOCK") \/ a.m.ent[n].siz < min
  <2>1. b = a
    BY <1>1 DEF Visit
  <2> QED BY <2>1, KeepsSame DEF LruKept
<1>2. CASE ~(~a.ok \/ a.tot >= siz \/ Has(a.m, n, "LOCK") \/ a.m.ent[n].siz < min)
  <2>1. PICK r : r = mcmtoss(a.m, n)
    OBVIOUS
  <2>2. b.m = r.m
    BY <1>2, <2>1 DEF Visit
  <2>3. Has(a.m, n, "PRES") /\ ~Has(a.m, n, "LOCK")
    BY <1>2 DEF Good, EntryGood, Has
  <2> QED BY <2>1, <2>2, <2>3, mcmtossGood
<1> QED BY <1>1, <1>2

\* What a visit says of the object at hand.
Checked(z, a, b, n, min) ==
  Calm(b) => Calm(a) /\ ((min = 0 /\ z.unused # {}) => Has(z, n, "LOCK"))

\* Lemma: a visit that does nothing had its reason.
LEMMA VisitPassed ==
  ASSUME NEW z, NEW a, Tally(z, a), NEW n, NEW siz \in Nat, siz > 0, NEW min \in Nat,
         a.m.ent[n].siz \in Nat,
         ~a.ok \/ a.tot >= siz \/ Has(a.m, n, "LOCK") \/ a.m.ent[n].siz < min
  PROVE  Checked(z, a, a, n, min)
<1>1. Calm(a) => a.m = z /\ a.ok /\ a.tot = 0
  BY DEF Tally, Calm
<1>2. (Calm(a) /\ min = 0) => Has(a.m, n, "LOCK")
  BY <1>1
<1> QED BY <1>1, <1>2, Zenon DEF Checked

\* Lemma: a visit keeps the tally.
LEMMA VisitTally ==
  ASSUME NEW z, NEW a, Good(a.m), Tally(z, a), NEW n \in Entries, Has(a.m, n, "LRU"),
         NEW siz \in Nat, siz > 0, NEW min \in Nat, NEW b, b = Visit(a, n, siz, min)
  PROVE  Tally(z, b) /\ Checked(z, a, b, n, min)
<1>1. a.m.ent[n].siz \in Nat
  <2>1. a.m.ent[n] \in EntryType
    BY StateFields DEF Good
  <2>2. a.m.ent[n].siz \in 0 .. Chunk
    BY <2>1 DEF EntryType
  <2> QED BY <2>2
<1>2. CASE ~a.ok \/ a.tot >= siz \/ Has(a.m, n, "LOCK") \/ a.m.ent[n].siz < min
  <2>1. b = a
    BY <1>2 DEF Visit
  <2>2. Checked(z, a, a, n, min)
    BY <1>1, <1>2, VisitPassed
  <2> QED BY <2>1, <2>2
<1>3. CASE ~(~a.ok \/ a.tot >= siz \/ Has(a.m, n, "LOCK") \/ a.m.ent[n].siz < min)
  <2>1. PICK r : r = mcmtoss(a.m, n)
    OBVIOUS
  <2>2. b = [m |-> r.m, ok |-> r.ok, tot |-> a.tot + (IF r.tossed THEN a.m.ent[n].siz ELSE 0)]
    BY <1>3, <2>1 DEF Visit
  <2>3. Has(a.m, n, "PRES") /\ ~Has(a.m, n, "LOCK")
    BY <1>3 DEF Good, EntryGood, Has
  <2>4. LruKept(a.m, r.m, n) /\ TossEnd(a.m, r, n)
    BY <2>1, <2>3, mcmtossGood
  <2>5. a.ok = TRUE /\ a.tot \in Nat /\ (Calm(a) <=> a.tot = 0)
    BY <1>3 DEF Tally, Calm
  <2>6. b.m = r.m /\ b.ok = r.ok
    BY <2>2
  <2>7. CASE r.tossed = FALSE /\ r.ok = TRUE /\ r.m = a.m /\ a.m.unused = {}
    <3>1. b.tot = a.tot
      BY <2>2, <2>5, <2>7
    <3>2. Tally(z, b) /\ (Calm(b) => Calm(a))
      BY <2>5, <2>6, <2>7, <3>1 DEF Tally, Calm
    <3>3. Calm(a) => z.unused = {}
      BY <2>7 DEF Tally
    <3> QED BY <3>2, <3>3 DEF Checked
  <2>8. CASE r.tossed = FALSE /\ r.ok = FALSE /\ SwapFull(r.m)
    <3>1. b.tot = a.tot
      BY <2>2, <2>5, <2>8
    <3>2. ~Calm(b)
      BY <2>6, <2>8 DEF Calm
    <3> QED BY <2>5, <2>6, <2>8, <3>1, <3>2, Zenon DEF Tally, Checked
  <2>9. CASE /\ r.tossed = TRUE /\ r.ok = TRUE /\ a.m.unused # {}
             /\ ~Has(r.m, n, "LRU") /\ a.m.ent[n].siz \in 1 .. Chunk
    <3>1. b.tot = a.tot + a.m.ent[n].siz
      BY <2>2, <2>9
    <3>2. a.m.ent[n].siz \in Nat /\ a.m.ent[n].siz > 0
      BY <2>9
    <3>3. b.tot \in Nat /\ b.tot > 0 /\ b.ok = TRUE
      BY <2>5, <2>6, <2>9, <3>1, <3>2
    <3>4. ~Calm(b)
      BY <3>3 DEF Calm
    <3>5. Lru(r.m) = Lru(a.m) \ {n}
      BY <2>4, <2>9 DEF Lru, LruKept
    <3>6. n \in Lru(a.m)
      BY DEF Lru
    <3>7. a.m = z \/ LruLess(z, a.m)
      BY <2>5 DEF Tally
    <3>8. LruLess(z, r.m)
      BY <2>9, <3>5, <3>6, <3>7 DEF LruLess
    <3>9. Tally(z, b)
      BY <2>6, <3>3, <3>4, <3>8, Zenon DEF Tally
    <3> QED BY <3>4, <3>9, Zenon DEF Checked
  <2> QED BY <2>4, <2>7, <2>8, <2>9, Zenon DEF TossEnd
<1> QED BY <1>2, <1>3

\* Lemma: a pass over the list keeps the objects and the tally, too; and if it
\* takes objects of any size, it only stops short of tossing something out when
\* there is no header to spare or everything is locked.
LEMMA PassGood ==
  ASSUME NEW z, NEW a, Good(a.m), Tally(z, a), NEW siz \in Nat, siz > 0, NEW min \in Nat,
         NEW b, b = Pass(a, siz, min)
  PROVE  /\ Good(b.m) /\ Keeps(a.m, b.m) /\ Tally(z, b)
         /\ (min = 0 /\ Calm(b) /\ z.unused # {}) => AllLocked(z)
<1>1. PICK s : s = a.m
  OBVIOUS
<1>2. PICK env : env = [s |-> s, siz |-> siz, min |-> min, z |-> z, base |-> a]
  OBVIOUS
<1>3. env.s = s /\ env.siz = siz /\ env.min = min /\ env.z = z /\ env.base = a
  BY <1>2
<1>4. PICK q : q = s.lru
  OBVIOUS
<1>5. /\ q \in Seq(Entries) /\ IsInjective(q) /\ Len(q) \in Nat
      /\ \A j \in 1 .. Len(q) : q[j] \in Entries /\ Has(s, q[j], "LRU")
  <2>1. q \in Seq(Entries)
    BY <1>1, <1>4, StateFields DEF Good
  <2>2. /\ Len(q) \in Nat /\ DOMAIN q = 1 .. Len(q)
        /\ \A x : x \in ToSet(q) <=> \E i \in 1 .. Len(q) : q[i] = x
        /\ \A i \in 1 .. Len(q) : q[i] \in Entries
    BY <2>1, ToSetFacts
  <2>3. ListOf(s.ent, q, "LRU")
    BY <1>1, <1>4 DEF Good, ListsGood
  <2> QED BY <2>1, <2>2, <2>3 DEF ListOf, Has
<1>6. \A i, j \in 1 .. Len(q) : q[i] = q[j] => i = j
  <2>1. DOMAIN q = 1 .. Len(q)
    BY <1>5
  <2> QED BY <1>5, <2>1 DEF IsInjective
<1>7. SwapSoFar(env, 0, a)
  <2>1. Combed(env, 0, a)
    BY <1>3 DEF Combed
  <2> QED BY <1>1, <1>3, <1>4, <1>5, <2>1, KeepsSame DEF SwapSoFar
<1>8. ASSUME NEW x, NEW i \in 1 .. Len(q), SwapSoFar(env, i - 1, x)
      PROVE  SwapSoFar(env, i, TossNext(env, x, q[i]))
  <2>1. PICK y : y = TossNext(env, x, q[i])
    OBVIOUS
  <2>2. y = Visit(x, q[i], siz, min)
    BY <1>3, <2>1 DEF TossNext
  <2>3. /\ Good(x.m) /\ Keeps(s, x.m)
        /\ \A j \in 1 .. Len(q) : j > i - 1 => Has(x.m, q[j], "LRU")
        /\ Tally(z, x) /\ Combed(env, i - 1, x)
    BY <1>3, <1>4, <1>8, Zenon DEF SwapSoFar
  <2>4. q[i] \in Entries /\ Has(x.m, q[i], "LRU")
    BY <1>5, <2>3
  <2>5. Good(y.m) /\ Keeps(x.m, y.m) /\ LruKept(x.m, y.m, q[i])
    BY <2>2, <2>3, <2>4, VisitGood
  <2>6. Keeps(s, y.m)
    BY <1>1, <2>3, <2>5, KeepsTwice
  <2>7. \A j \in 1 .. Len(q) : j > i => Has(y.m, q[j], "LRU")
    <3> SUFFICES ASSUME NEW j \in 1 .. Len(q), j > i PROVE Has(y.m, q[j], "LRU")
      OBVIOUS
    <3>1. q[j] \in Entries /\ q[j] # q[i]
      BY <1>5, <1>6
    <3>2. Has(x.m, q[j], "LRU")
      BY <2>3
    <3> QED BY <2>5, <3>1, <3>2 DEF LruKept
  <2>8. Tally(z, y) /\ Checked(z, x, y, q[i], min)
    BY <2>2, <2>3, <2>4, VisitTally
  <2>9. Combed(env, i, y)
    <3> SUFFICES ASSUME min = 0, Calm(y)
                 PROVE  /\ Calm(a)
                        /\ z.unused # {} => \A j \in 1 .. i : Has(z, q[j], "LOCK")
      BY <1>3, <1>4 DEF Combed
    <3>1. Calm(x) /\ (z.unused # {} => Has(z, q[i], "LOCK"))
      BY <2>8 DEF Checked
    <3>2. Calm(a) /\ (z.unused # {} => \A j \in 1 .. i - 1 : Has(z, q[j], "LOCK"))
      BY <1>3, <1>4, <2>3, <3>1, Zenon DEF Combed
    <3>3. \A j \in 1 .. i : j \in 1 .. i - 1 \/ j = i
      OBVIOUS
    <3> QED BY <3>1, <3>2, <3>3
  <2> QED BY <1>3, <1>4, <2>1, <2>5, <2>6, <2>7, <2>8, <2>9 DEF SwapSoFar
<1>9. SwapSoFar(env, Len(q), Tossing!Fold(env, a, q))
  <2>1. q \in Seq(Entries)
    BY <1>5
  <2> QED BY <1>7, <1>8, <2>1, Tossing!Induct
<1>10. b = Tossing!Fold(env, a, q)
  BY <1>1, <1>2, <1>4, PassIsFold
<1>11. Good(b.m) /\ Keeps(s, b.m) /\ Tally(z, b) /\ Combed(env, Len(q), b)
  BY <1>3, <1>9, <1>10, Zenon DEF SwapSoFar
<1>12. ASSUME min = 0, Calm(b), z.unused # {} PROVE AllLocked(z)
  <2>1. Calm(a) /\ \A j \in 1 .. Len(q) : Has(z, q[j], "LOCK")
    BY <1>3, <1>4, <1>11, <1>12, Zenon DEF Combed
  <2>2. s = z
    BY <1>1, <2>1 DEF Tally
  <2>3. ListOf(s.ent, q, "LRU")
    BY <1>1, <1>4 DEF Good, ListsGood
  <2>4. \A x : x \in ToSet(q) <=> \E i \in 1 .. Len(q) : q[i] = x
    BY <1>5, ToSetFacts
  <2> QED BY <2>1, <2>2, <2>3, <2>4 DEF ListOf, Has, AllLocked
<1> QED BY <1>1, <1>11, <1>12

\* Lemma: mcmswap keeps every object, and does nothing only if there is nothing
\* to be done.
LEMMA mcmswapGood ==
  ASSUME NEW s, Good(s), NEW siz \in Nat, siz > 0, NEW b, b = mcmswap(s, siz)
  PROVE  /\ Good(b.m) /\ Keeps(s, b.m) /\ Tally(s, b)
         /\ (Calm(b) /\ s.unused # {}) => AllLocked(s)
<1>1. PICK a : a = [m |-> s, ok |-> TRUE, tot |-> 0]
  OBVIOUS
<1>2. a.m = s /\ Tally(s, a)
  BY <1>1 DEF Tally, Calm
<1>3. PICK c : c = Pass(a, siz, siz)
  OBVIOUS
<1>4. Good(c.m) /\ Keeps(s, c.m) /\ Tally(s, c)
  BY <1>2, <1>3, PassGood
<1>5. b = Pass(c, siz, 0)
  BY <1>1, <1>3 DEF mcmswap
<1>6. /\ Good(b.m) /\ Keeps(c.m, b.m) /\ Tally(s, b)
      /\ (Calm(b) /\ s.unused # {}) => AllLocked(s)
  BY <1>4, <1>5, PassGood
<1> QED BY <1>4, <1>6, KeepsTwice

-----------------------------------------------------------------------------
\* Garbage collection: the blocks of a chunk in another order.

In(x, q) == \E i \in 1 .. Len(q) : q[i] = x
Strangers(p, q) == \A x, y : In(x, p) /\ In(y, q) => x.num # y.num

\* Lemma: a concatenation has the blocks of both.
LEMMA InCat ==
  ASSUME NEW p \in Seq(BlockType), NEW q \in Seq(BlockType), NEW r, r = p \o q
  PROVE  r \in Seq(BlockType) /\ \A x : In(x, r) <=> In(x, p) \/ In(x, q)
<1>1. /\ r \in Seq(BlockType) /\ Len(r) = Len(p) + Len(q) /\ Len(p) \in Nat /\ Len(q) \in Nat
      /\ \A i \in 1 .. Len(p) : r[i] = p[i]
      /\ \A i \in 1 .. Len(q) : r[Len(p) + i] = q[i]
  BY CatFacts
<1>2. ASSUME NEW x, NEW i \in 1 .. Len(r), r[i] = x PROVE In(x, p) \/ In(x, q)
  <2>1. CASE i <= Len(p)
    <3>1. i \in 1 .. Len(p)
      BY <1>1, <2>1
    <3> QED BY <1>1, <1>2, <3>1 DEF In
  <2>2. CASE i > Len(p)
    <3>1. i - Len(p) \in 1 .. Len(q) /\ Len(p) + (i - Len(p)) = i
      BY <1>1, <2>2
    <3>2. q[i - Len(p)] = r[i]
      BY <1>1, <3>1
    <3> QED BY <1>2, <3>1, <3>2 DEF In
  <2> QED BY <1>1, <2>1, <2>2
<1>3. ASSUME NEW x, In(x, p) PROVE In(x, r)
  <2>1. PICK i \in 1 .. Len(p) : p[i] = x
    BY <1>3 DEF In
  <2>2. i \in 1 .. Len(r)
    BY <1>1
  <2> QED BY <1>1, <2>1, <2>2 DEF In
<1>4. ASSUME NEW x, In(x, q) PROVE In(x, r)
  <2>1. PICK i \in 1 .. Len(q) : q[i] = x
    BY <1>4 DEF In
  <2>2. Len(p) + i \in 1 .. Len(r)
    BY <1>1
  <2> QED BY <1>1, <2>1, <2>2 DEF In
<1>5. \A x : In(x, r) => In(x, p) \/ In(x, q)
  BY <1>2 DEF In
<1> QED BY <1>1, <1>3, <1>4, <1>5

\* Lemma: it has no header twice if neither has and they have none in common.
LEMMA DistinctCat ==
  ASSUME NEW p \in Seq(BlockType), NEW q \in Seq(BlockType), NEW r, r = p \o q
  PROVE  Distinct(r) <=> Distinct(p) /\ Distinct(q) /\ Strangers(p, q)
<1>1. /\ r \in Seq(BlockType) /\ Len(r) = Len(p) + Len(q) /\ Len(p) \in Nat /\ Len(q) \in Nat
      /\ \A i \in 1 .. Len(p) : r[i] = p[i]
      /\ \A i \in 1 .. Len(q) : r[Len(p) + i] = q[i]
  BY CatFacts
<1>2. \A i \in 1 .. Len(p) : i \in 1 .. Len(r)
  BY <1>1
<1>3. \A i \in 1 .. Len(q) : Len(p) + i \in 1 .. Len(r)
  BY <1>1
<1>4. ASSUME Distinct(r) PROVE Distinct(p) /\ Distinct(q) /\ Strangers(p, q)
  <2>1. Distinct(p)
    BY <1>1, <1>2, <1>4 DEF Distinct
  <2>2. Distinct(q)
    <3> SUFFICES ASSUME NEW i \in 1 .. Len(q), NEW j \in 1 .. Len(q), q[i].num = q[j].num
                 PROVE  i = j
      BY DEF Distinct
    <3>1. PICK k \in 1 .. Len(r), l \in 1 .. Len(r) : k = Len(p) + i /\ l = Len(p) + j
      BY <1>3
    <3>2. r[k].num = r[l].num
      BY <1>1, <3>1
    <3>3. k = l
      BY <1>4, <3>2 DEF Distinct
    <3> QED BY <1>1, <3>1, <3>3
  <2>3. Strangers(p, q)
    <3> SUFFICES ASSUME NEW i \in 1 .. Len(p), NEW j \in 1 .. Len(q), p[i].num = q[j].num
                 PROVE  FALSE
      BY DEF Strangers, In
    <3>1. PICK k \in 1 .. Len(r), l \in 1 .. Len(r) : k = i /\ l = Len(p) + j
      BY <1>2, <1>3
    <3>2. r[k].num = r[l].num
      BY <1>1, <3>1
    <3>3. k = l
      BY <1>4, <3>2 DEF Distinct
    <3> QED BY <1>1, <3>1, <3>3
  <2> QED BY <2>1, <2>2, <2>3
<1>5. ASSUME Distinct(p), Distinct(q), Strangers(p, q), NEW i \in 1 .. Len(r), NEW j \in 1 .. Len(r),
             r[i].num = r[j].num
      PROVE  i = j
  <2>1. \A k \in 1 .. Len(r) : k \in 1 .. Len(p) \/ k - Len(p) \in 1 .. Len(q)
    BY <1>1
  <2>2. \A k \in 1 .. Len(r) : k - Len(p) \in 1 .. Len(q) => r[k] = q[k - Len(p)]
    <3> SUFFICES ASSUME NEW k \in 1 .. Len(r), k - Len(p) \in 1 .. Len(q)
                 PROVE  r[k] = q[k - Len(p)]
      OBVIOUS
    <3>1. Len(p) + (k - Len(p)) = k
      BY <1>1
    <3> QED BY <1>1, <3>1
  <2>3. CASE i \in 1 .. Len(p) /\ j \in 1 .. Len(p)
    BY <1>1, <1>5, <2>3 DEF Distinct
  <2>4. CASE i \in 1 .. Len(p) /\ j - Len(p) \in 1 .. Len(q)
    <3>1. In(r[i], p) /\ In(r[j], q)
      BY <1>1, <2>2, <2>4 DEF In
    <3> QED BY <1>5, <3>1 DEF Strangers
  <2>5. CASE i - Len(p) \in 1 .. Len(q) /\ j \in 1 .. Len(p)
    <3>1. In(r[j], p) /\ In(r[i], q)
      BY <1>1, <2>2, <2>5 DEF In
    <3> QED BY <1>5, <3>1 DEF Strangers
  <2>6. CASE i - Len(p) \in 1 .. Len(q) /\ j - Len(p) \in 1 .. Len(q)
    <3>1. i - Len(p) = j - Len(p)
      BY <1>5, <2>2, <2>6 DEF Distinct
    <3> QED BY <1>1, <3>1
  <2> QED BY <2>1, <2>3, <2>4, <2>5, <2>6
<1> QED BY <1>4, <1>5 DEF Distinct

\* Lemma: one block.
LEMMA OneBlock ==
  ASSUME NEW b \in BlockType, NEW q, q = <<b>>
  PROVE  q \in Seq(BlockType) /\ Len(q) = 1 /\ Distinct(q) /\ \A x : In(x, q) <=> x = b
<1>1. q \in Seq(BlockType) /\ Len(q) = 1 /\ q[1] = b
  OBVIOUS
<1>2. \A i : i \in 1 .. 1 => i = 1
  OBVIOUS
<1>3. 1 \in 1 .. 1
  OBVIOUS
<1>4. \A x : In(x, q) <=> x = b
  BY <1>1, <1>2, <1>3 DEF In
<1>5. Distinct(q)
  BY <1>1, <1>2 DEF Distinct
<1> QED BY <1>1, <1>4, <1>5

\* Lemma: no block.
LEMMA NoBlock ==
  ASSUME NEW q, q = << >>
  PROVE  q \in Seq(BlockType) /\ Len(q) = 0 /\ Distinct(q) /\ \A x : ~In(x, q)
BY DEF Distinct, In

\* Lemma: sizes add up.
LEMMA SumCat ==
  ASSUME NEW s \in StateType, NEW p \in Seq(BlockType), NEW q \in Seq(BlockType), NEW r, r = p \o q
  PROVE  /\ SizeOfBlocks(s, r) = SizeOfBlocks(s, p) + SizeOfBlocks(s, q)
         /\ SizeOfBlocks(s, p) \in Nat /\ SizeOfBlocks(s, q) \in Nat
<1>1. /\ r \in Seq(BlockType) /\ Len(r) = Len(p) + Len(q) /\ Len(p) \in Nat /\ Len(q) \in Nat
      /\ \A i \in 1 .. Len(p) : r[i] = p[i]
      /\ \A i \in 1 .. Len(q) : r[Len(p) + i] = q[i]
  BY CatFacts
<1>2. PICK u : u = SizesOf(s, p)
  OBVIOUS
<1>3. PICK v : v = SizesOf(s, q)
  OBVIOUS
<1>4. PICK w : w = SizesOf(s, r)
  OBVIOUS
<1>5. u \in Seq(Nat) /\ Len(u) = Len(p) /\ \A i \in 1 .. Len(p) : u[i] = s.ent[p[i].num].siz
  BY <1>2, SizesFacts
<1>6. v \in Seq(Nat) /\ Len(v) = Len(q) /\ \A i \in 1 .. Len(q) : v[i] = s.ent[q[i].num].siz
  BY <1>3, SizesFacts
<1>7. w \in Seq(Nat) /\ Len(w) = Len(r) /\ \A i \in 1 .. Len(r) : w[i] = s.ent[r[i].num].siz
  BY <1>1, <1>4, SizesFacts
<1>8. PICK z : z = u \o v
  OBVIOUS
<1>9. /\ z \in Seq(Nat) /\ Len(z) = Len(u) + Len(v)
      /\ \A i \in 1 .. Len(u) : z[i] = u[i]
      /\ \A i \in 1 .. Len(v) : z[Len(u) + i] = v[i]
  <2>1. u \in Seq(Nat) /\ v \in Seq(Nat)
    BY <1>5, <1>6
  <2> HIDE DEF SizesOf
  <2> QED BY <1>8, <2>1, CatFacts
<1>10. ASSUME NEW i \in 1 .. Len(w) PROVE w[i] = z[i]
  <2>1. i \in 1 .. Len(r) /\ (i \in 1 .. Len(p) \/ i - Len(p) \in 1 .. Len(q))
    BY <1>1, <1>7
  <2>2. CASE i \in 1 .. Len(p)
    <3>1. z[i] = u[i] /\ r[i] = p[i] /\ u[i] = s.ent[p[i].num].siz
      BY <1>1, <1>5, <1>9, <2>2, Zenon
    <3>2. w[i] = s.ent[r[i].num].siz
      BY <1>7, <2>1, Zenon
    <3> QED BY <3>1, <3>2, Zenon
  <2>3. CASE i - Len(p) \in 1 .. Len(q)
    <3>1. Len(p) + (i - Len(p)) = i
      BY <1>1, <2>1
    <3>2. r[i] = q[i - Len(p)]
      BY <1>1, <2>3, <3>1
    <3>3. z[i] = v[i - Len(p)]
      BY <1>5, <1>6, <1>9, <2>3, <3>1
    <3> QED BY <1>6, <1>7, <2>1, <2>3, <3>2, <3>3
  <2> QED BY <2>1, <2>2, <2>3
<1>11. w = z
  BY <1>1, <1>5, <1>6, <1>7, <1>9, <1>10, SameSeq
<1>12. Total(z) = Total(u) + Total(v) /\ Total(u) \in Nat /\ Total(v) \in Nat
  BY <1>5, <1>6, <1>8, TotalCat, TotalNat
<1> QED BY <1>2, <1>3, <1>4, <1>11, <1>12 DEF SizeOfBlocks

\* Lemma: the size of one block, and of none.
LEMMA SumOne ==
  ASSUME NEW s \in StateType, NEW b \in BlockType
  PROVE  SizeOfBlocks(s, <<b>>) = s.ent[b.num].siz /\ SizeOfBlocks(s, << >>) = 0
<1>1. PICK q : q = <<b>>
  OBVIOUS
<1>2. q \in Seq(BlockType) /\ Len(q) = 1 /\ q[1] = b
  BY <1>1
<1>3. PICK w : w = SizesOf(s, q)
  OBVIOUS
<1>4. w \in Seq(Nat) /\ Len(w) = 1 /\ w[1] = s.ent[b.num].siz
  <2>1. w \in Seq(Nat) /\ Len(w) = Len(q) /\ \A i \in 1 .. Len(q) : w[i] = s.ent[q[i].num].siz
    BY <1>2, <1>3, SizesFacts
  <2>2. 1 \in 1 .. Len(q)
    BY <1>2
  <2> QED BY <1>2, <2>1, <2>2
<1>5. Total(w) = s.ent[b.num].siz
  <2>1. w \in Seq(Nat)
    BY <1>4
  <2>2. /\ Total(SubSeq(w, 1, 0)) = 0
        /\ \A i \in 1 .. Len(w) : Total(SubSeq(w, 1, i)) = Total(SubSeq(w, 1, i - 1)) + w[i]
        /\ SubSeq(w, 1, Len(w)) = w
    BY <2>1, TotalPrefix
  <2>3. 1 \in 1 .. Len(w) /\ 1 - 1 = 0 /\ Len(w) = 1
    BY <1>4
  <2>4. SubSeq(w, 1, 1) = w
    BY <2>2, <2>3
  <2>5. Total(SubSeq(w, 1, 1)) = Total(SubSeq(w, 1, 0)) + w[1]
    BY <2>2, <2>3
  <2>6. w[1] \in Nat
    BY <2>1, <2>3
  <2>7. \A x \in Nat : 0 + x = x
    OBVIOUS
  <2> QED BY <1>4, <2>2, <2>4, <2>5, <2>6, <2>7
<1>7. SizesOf(s, << >>) = << >>
  BY DEF SizesOf
<1> QED BY <1>1, <1>3, <1>5, <1>7, TotalEmpty DEF SizeOfBlocks

\* Lemma: blocks whose sizes are the same.
LEMMA SumSame ==
  ASSUME NEW s, NEW u, NEW q \in Seq(BlockType),
         \A x : In(x, q) => u.ent[x.num].siz = s.ent[x.num].siz
  PROVE  SizesOf(u, q) = SizesOf(s, q)
<1>1. \A i \in 1 .. Len(q) : u.ent[q[i].num].siz = s.ent[q[i].num].siz
  BY DEF In
<1>2. DOMAIN q = 1 .. Len(q)
  OBVIOUS
<1> QED BY <1>1, <1>2 DEF SizesOf

\* The locked ones of these blocks are where they were.
LocksIn(s, u, q) ==
  \A p \in 1 .. Len(q) : Has(s, q[p].num, "LOCK") =>
    SizeOfBlocks(u, SubSeq(q, 1, p - 1)) = s.ent[q[p].num].at[2]
Unlocked(s, q) == \A x : In(x, q) => ~Has(s, x.num, "LOCK")

\* Lemma: others follow that are not locked.
LEMMA LocksCat ==
  ASSUME NEW s, NEW u, NEW p \in Seq(BlockType), NEW q \in Seq(BlockType), NEW r, r = p \o q,
         LocksIn(s, u, p), Unlocked(s, q)
  PROVE  LocksIn(s, u, r)
<1>1. /\ r \in Seq(BlockType) /\ Len(r) = Len(p) + Len(q) /\ Len(p) \in Nat /\ Len(q) \in Nat
      /\ \A i \in 1 .. Len(p) : r[i] = p[i]
      /\ \A i \in 1 .. Len(q) : r[Len(p) + i] = q[i]
  BY CatFacts
<1> SUFFICES ASSUME NEW i \in 1 .. Len(r), Has(s, r[i].num, "LOCK")
             PROVE  SizeOfBlocks(u, SubSeq(r, 1, i - 1)) = s.ent[r[i].num].at[2]
  BY DEF LocksIn
<1>2. i \in 1 .. Len(p) \/ i - Len(p) \in 1 .. Len(q)
  BY <1>1
<1>3. CASE i \in 1 .. Len(p)
  <2>1. SubSeq(r, 1, i - 1) = SubSeq(p, 1, i - 1)
    BY <1>1, <1>3
  <2> QED BY <1>1, <1>3, <2>1 DEF LocksIn
<1>4. CASE i - Len(p) \in 1 .. Len(q)
  <2>1. Len(p) + (i - Len(p)) = i
    BY <1>1
  <2>2. r[i] = q[i - Len(p)]
    BY <1>1, <1>4, <2>1
  <2> QED BY <1>4, <2>2 DEF Unlocked, In
<1> QED BY <1>2, <1>3, <1>4

\* Lemma: or one that is locked and stays in place.
LEMMA LocksSnoc ==
  ASSUME NEW s, NEW u, NEW p \in Seq(BlockType), NEW b \in BlockType, LocksIn(s, u, p),
         Has(s, b.num, "LOCK") => SizeOfBlocks(u, p) = s.ent[b.num].at[2]
  PROVE  LocksIn(s, u, Append(p, b))
<1>1. PICK r : r = Append(p, b)
  OBVIOUS
<1>2. /\ r \in Seq(BlockType) /\ Len(r) = Len(p) + 1 /\ Len(p) \in Nat /\ r[Len(p) + 1] = b
      /\ \A i \in 1 .. Len(p) : r[i] = p[i]
  BY <1>1
<1>3. ASSUME NEW i \in 1 .. Len(r), Has(s, r[i].num, "LOCK")
      PROVE  SizeOfBlocks(u, SubSeq(r, 1, i - 1)) = s.ent[r[i].num].at[2]
  <2>1. i = Len(p) + 1 \/ i \in 1 .. Len(p)
    BY <1>2
  <2>2. CASE i = Len(p) + 1
    <3>1. SubSeq(r, 1, i - 1) = p
      BY <1>1, <1>2, <2>2
    <3> QED BY <1>2, <1>3, <2>2, <3>1
  <2>3. CASE i \in 1 .. Len(p)
    <3>1. SubSeq(r, 1, i - 1) = SubSeq(p, 1, i - 1)
      BY <1>2, <2>3
    <3> QED BY <1>2, <1>3, <2>3, <3>1 DEF LocksIn
  <2> QED BY <2>1, <2>2, <2>3
<1> QED BY <1>1, <1>3 DEF LocksIn

\* Lemma: the sizes of these blocks are those of before.
LEMMA LocksSame ==
  ASSUME NEW s, NEW u \in StateType, NEW v \in StateType, NEW q \in Seq(BlockType), LocksIn(s, u, q),
         \A x : In(x, q) => v.ent[x.num].siz = u.ent[x.num].siz
  PROVE  LocksIn(s, v, q)
<1> SUFFICES ASSUME NEW i \in 1 .. Len(q), Has(s, q[i].num, "LOCK")
             PROVE  SizeOfBlocks(v, SubSeq(q, 1, i - 1)) = s.ent[q[i].num].at[2]
  BY DEF LocksIn
<1>1. i - 1 \in 0 .. Len(q)
  OBVIOUS
<1>2. SizesOf(v, SubSeq(q, 1, i - 1)) = SubSeq(SizesOf(v, q), 1, i - 1)
      /\ SizesOf(u, SubSeq(q, 1, i - 1)) = SubSeq(SizesOf(u, q), 1, i - 1)
  BY <1>1, SizesFacts
<1>3. SizesOf(v, q) = SizesOf(u, q)
  BY SumSame
<1>4. SizeOfBlocks(v, SubSeq(q, 1, i - 1)) = SizeOfBlocks(u, SubSeq(q, 1, i - 1))
  BY <1>2, <1>3 DEF SizeOfBlocks
<1> QED BY <1>4 DEF LocksIn

-----------------------------------------------------------------------------
\* What Gather has put aside.

AccType == [m : StateType, done : Seq(BlockType), moved : Seq(BlockType),
            hole : Entries \union {NoEntry}, above : Seq(BlockType)]
HoleOf(n) == IF n = NoEntry THEN << >> ELSE <<Block(n, Nothing)>>

\* Lemma: concatenations.
LEMMA CatAgain ==
  ASSUME NEW S, NEW p \in Seq(S), NEW q \in Seq(S), NEW r \in Seq(S)
  PROVE  (p \o q) \o r = p \o (q \o r)
<1>1. PICK a : a = p \o q
  OBVIOUS
<1>2. PICK b : b = a \o r
  OBVIOUS
<1>3. PICK c : c = q \o r
  OBVIOUS
<1>4. PICK d : d = p \o c
  OBVIOUS
<1>5. /\ a \in Seq(S) /\ Len(a) = Len(p) + Len(q)
      /\ \A i \in 1 .. Len(p) : a[i] = p[i]
      /\ \A i \in 1 .. Len(q) : a[Len(p) + i] = q[i]
  BY <1>1, CatFacts
<1>6. /\ b \in Seq(S) /\ Len(b) = Len(a) + Len(r)
      /\ \A i \in 1 .. Len(a) : b[i] = a[i]
      /\ \A i \in 1 .. Len(r) : b[Len(a) + i] = r[i]
  <2>1. a \in Seq(S)
    BY <1>5
  <2> QED BY <1>2, <2>1, CatFacts
<1>7. /\ c \in Seq(S) /\ Len(c) = Len(q) + Len(r)
      /\ \A i \in 1 .. Len(q) : c[i] = q[i]
      /\ \A i \in 1 .. Len(r) : c[Len(q) + i] = r[i]
  BY <1>3, CatFacts
<1>8. /\ d \in Seq(S) /\ Len(d) = Len(p) + Len(c)
      /\ \A i \in 1 .. Len(p) : d[i] = p[i]
      /\ \A i \in 1 .. Len(c) : d[Len(p) + i] = c[i]
  <2>1. c \in Seq(S)
    BY <1>7
  <2> QED BY <1>4, <2>1, CatFacts
<1>9. Len(p) \in Nat /\ Len(q) \in Nat /\ Len(r) \in Nat
  OBVIOUS
<1>10. ASSUME NEW i \in 1 .. Len(b) PROVE b[i] = d[i]
  <2>1. \/ i \in 1 .. Len(p)
        \/ i - Len(p) \in 1 .. Len(q)
        \/ i - (Len(p) + Len(q)) \in 1 .. Len(r)
    BY <1>5, <1>6, <1>9
  <2>2. CASE i \in 1 .. Len(p)
    <3>1. i \in 1 .. Len(a)
      BY <1>5, <1>9, <2>2
    <3> QED BY <1>5, <1>6, <1>8, <2>2, <3>1
  <2>3. CASE i - Len(p) \in 1 .. Len(q)
    <3>0. i = Len(p) + (i - Len(p))
      BY <1>9
    <3>1. PICK j \in 1 .. Len(q) : i = Len(p) + j
      BY <2>3, <3>0
    <3>2. i \in 1 .. Len(a) /\ j \in 1 .. Len(c)
      BY <1>5, <1>7, <1>9, <3>1
    <3>3. b[i] = a[i] /\ d[i] = c[j]
      BY <1>6, <1>8, <3>1, <3>2
    <3> QED BY <1>5, <1>7, <3>1, <3>3
  <2>4. CASE i - (Len(p) + Len(q)) \in 1 .. Len(r)
    <3>0. i = (Len(p) + Len(q)) + (i - (Len(p) + Len(q)))
      BY <1>9
    <3>1. PICK j \in 1 .. Len(r) : i = (Len(p) + Len(q)) + j
      BY <2>4, <3>0
    <3>2. i = Len(a) + j /\ i = Len(p) + (Len(q) + j) /\ Len(q) + j \in 1 .. Len(c)
      BY <1>5, <1>7, <1>9, <3>1
    <3>3. b[i] = r[j] /\ d[i] = c[Len(q) + j]
      BY <1>6, <1>8, <3>1, <3>2
    <3> QED BY <1>7, <3>1, <3>3
  <2> QED BY <2>1, <2>2, <2>3, <2>4
<1>11. Len(b) = Len(d)
  BY <1>5, <1>6, <1>7, <1>8, <1>9
<1>12. b = d
  BY <1>6, <1>8, <1>10, <1>11, SameSeq
<1> QED BY <1>1, <1>2, <1>3, <1>4, <1>12

\* Lemma: with nothing, and with one element.
LEMMA CatSmall ==
  ASSUME NEW S, NEW p \in Seq(S), NEW x \in S
  PROVE  p \o << >> = p /\ p \o <<x>> = Append(p, x) /\ << >> \in Seq(S) /\ <<x>> \in Seq(S)
OBVIOUS

\* Lemma: the two last parts change places.
LEMMA SwapTail ==
  ASSUME NEW p \in Seq(BlockType), NEW h \in Seq(BlockType), NEW q \in Seq(BlockType),
         NEW f, f = (p \o h) \o q, NEW g, g = (p \o q) \o h
  PROVE  /\ f \in Seq(BlockType) /\ g \in Seq(BlockType)
         /\ \A x : In(x, g) <=> In(x, f)
         /\ Distinct(f) => Distinct(g)
<1>1. PICK ph : ph = p \o h
  OBVIOUS
<1>2. PICK pq : pq = p \o q
  OBVIOUS
<1>3. ph \in Seq(BlockType) /\ (\A x : In(x, ph) <=> In(x, p) \/ In(x, h))
  BY <1>1, InCat
<1>4. pq \in Seq(BlockType) /\ (\A x : In(x, pq) <=> In(x, p) \/ In(x, q))
  BY <1>2, InCat
<1>5. f = ph \o q /\ g = pq \o h
  BY <1>1, <1>2
<1>6. f \in Seq(BlockType) /\ (\A x : In(x, f) <=> In(x, ph) \/ In(x, q))
  BY <1>3, <1>5, InCat
<1>7. g \in Seq(BlockType) /\ (\A x : In(x, g) <=> In(x, pq) \/ In(x, h))
  BY <1>4, <1>5, InCat
<1>8. ASSUME Distinct(f) PROVE Distinct(g)
  <2>1. Distinct(ph) /\ Distinct(q) /\ Strangers(ph, q)
    BY <1>3, <1>5, <1>8, DistinctCat
  <2>2. Distinct(p) /\ Distinct(h) /\ Strangers(p, h)
    BY <1>1, <2>1, DistinctCat
  <2>3. Strangers(p, q) /\ Strangers(h, q)
    BY <1>3, <2>1, Zenon DEF Strangers
  <2>4. Distinct(pq)
    BY <1>2, <2>1, <2>2, <2>3, DistinctCat
  <2>5. Strangers(pq, h)
    BY <1>4, <2>2, <2>3, Zenon DEF Strangers
  <2> QED BY <1>4, <1>5, <2>2, <2>4, <2>5, DistinctCat
<1> QED BY <1>3, <1>4, <1>6, <1>7, <1>8

\* Lemma: the hole as a sequence of blocks.
LEMMA HoleFacts ==
  ASSUME NEW n \in Entries \union {NoEntry}, NEW h, h = HoleOf(n), NEW s \in StateType
  PROVE  /\ h \in Seq(BlockType)
         /\ \A x : In(x, h) <=> n # NoEntry /\ x = Block(n, Nothing)
         /\ SizeOfBlocks(s, h) = IF n = NoEntry THEN 0 ELSE s.ent[n].siz
<1>1. CASE n = NoEntry
  <2>1. h = << >>
    BY <1>1 DEF HoleOf
  <2>2. SizeOfBlocks(s, << >>) = 0
    <3>1. SizesOf(s, << >>) = << >>
      BY DEF SizesOf
    <3> QED BY <3>1, TotalEmpty DEF SizeOfBlocks
  <2> QED BY <1>1, <2>1, <2>2, NoBlock
<1>2. CASE n # NoEntry
  <2>1. PICK b : b = Block(n, Nothing)
    OBVIOUS
  <2>2. b \in BlockType /\ b.num = n
    BY <1>2, <2>1 DEF Block, BlockType
  <2>3. h = <<b>>
    BY <1>2, <2>1 DEF HoleOf
  <2>4. SizeOfBlocks(s, <<b>>) = s.ent[b.num].siz
    BY <2>2, SumOne
  <2>5. h \in Seq(BlockType) /\ \A x : In(x, h) <=> x = b
    BY <2>2, <2>3, OneBlock
  <2> QED BY <1>2, <2>1, <2>2, <2>3, <2>4, <2>5
<1> QED BY <1>1, <1>2

\* Lemma: Flush puts the four parts together.
LEMMA FlushParts ==
  ASSUME NEW a \in AccType
  PROVE  /\ a.m \in StateType /\ a.done \in Seq(BlockType) /\ a.moved \in Seq(BlockType)
         /\ a.hole \in Entries \union {NoEntry} /\ a.above \in Seq(BlockType)
         /\ HoleOf(a.hole) \in Seq(BlockType)
         /\ a.done \o a.moved \in Seq(BlockType)
         /\ (a.done \o a.moved) \o HoleOf(a.hole) \in Seq(BlockType)
         /\ Flush(a) = ((a.done \o a.moved) \o HoleOf(a.hole)) \o a.above
         /\ Flush(a) \in Seq(BlockType)
<1>1. /\ a.m \in StateType /\ a.done \in Seq(BlockType) /\ a.moved \in Seq(BlockType)
      /\ a.hole \in Entries \union {NoEntry} /\ a.above \in Seq(BlockType)
  BY DEF AccType
<1>2. HoleOf(a.hole) \in Seq(BlockType)
  BY <1>1, HoleFacts
<1>3. Flush(a) = ((a.done \o a.moved) \o HoleOf(a.hole)) \o a.above
  BY Zenon DEF Flush, HoleOf
<1>4. a.done \o a.moved \in Seq(BlockType)
  BY <1>1, CatFacts
<1>5. (a.done \o a.moved) \o HoleOf(a.hole) \in Seq(BlockType)
  BY <1>2, <1>4, CatFacts
<1>6. ((a.done \o a.moved) \o HoleOf(a.hole)) \o a.above \in Seq(BlockType)
  BY <1>1, <1>5, CatFacts
<1> QED BY <1>1, <1>2, <1>3, <1>4, <1>5, <1>6

\* The blocks of all four parts, and their sizes.
InParts(a, x) ==
  \/ In(x, a.done)
  \/ In(x, a.moved)
  \/ a.hole # NoEntry /\ x = Block(a.hole, Nothing)
  \/ In(x, a.above)
SizeOfParts(s, a) ==
  ((SizeOfBlocks(s, a.done) + SizeOfBlocks(s, a.moved))
     + (IF a.hole = NoEntry THEN 0 ELSE s.ent[a.hole].siz)) + SizeOfBlocks(s, a.above)

\* Lemma: Flush has the blocks of all parts.
LEMMA FlushFacts ==
  ASSUME NEW a \in AccType, NEW s \in StateType
  PROVE  /\ \A x : In(x, Flush(a)) <=> InParts(a, x)
         /\ SizeOfBlocks(s, Flush(a)) = SizeOfParts(s, a)
         /\ SizeOfBlocks(s, a.done) \in Nat /\ SizeOfBlocks(s, a.moved) \in Nat
         /\ SizeOfBlocks(s, a.above) \in Nat
<1>1. /\ a.done \in Seq(BlockType) /\ a.moved \in Seq(BlockType)
      /\ a.hole \in Entries \union {NoEntry} /\ a.above \in Seq(BlockType)
  BY FlushParts
<1>2. PICK d : d = a.done
  OBVIOUS
<1>3. PICK v : v = a.moved
  OBVIOUS
<1>4. PICK w : w = a.above
  OBVIOUS
<1>5. PICK h : h = HoleOf(a.hole)
  OBVIOUS
<1>6. d \in Seq(BlockType) /\ v \in Seq(BlockType) /\ w \in Seq(BlockType)
  BY <1>1, <1>2, <1>3, <1>4
<1>7. /\ h \in Seq(BlockType)
      /\ \A x : In(x, h) <=> a.hole # NoEntry /\ x = Block(a.hole, Nothing)
      /\ SizeOfBlocks(s, h) = IF a.hole = NoEntry THEN 0 ELSE s.ent[a.hole].siz
  BY <1>1, <1>5, HoleFacts
<1>8. PICK p : p = d \o v
  OBVIOUS
<1>9. p \in Seq(BlockType) /\ \A x : In(x, p) <=> In(x, d) \/ In(x, v)
  BY <1>6, <1>8, InCat
<1>10. /\ SizeOfBlocks(s, p) = SizeOfBlocks(s, d) + SizeOfBlocks(s, v)
       /\ SizeOfBlocks(s, d) \in Nat /\ SizeOfBlocks(s, v) \in Nat
  BY <1>6, <1>8, SumCat, ZenonT(40)
<1>11. PICK q : q = p \o h
  OBVIOUS
<1>12. q \in Seq(BlockType) /\ \A x : In(x, q) <=> In(x, p) \/ In(x, h)
  BY <1>7, <1>9, <1>11, InCat
<1>13. SizeOfBlocks(s, q) = SizeOfBlocks(s, p) + SizeOfBlocks(s, h)
  BY <1>7, <1>9, <1>11, SumCat
<1>14. PICK f : f = q \o w
  OBVIOUS
<1>15. \A x : In(x, f) <=> In(x, q) \/ In(x, w)
  BY <1>6, <1>12, <1>14, InCat
<1>16. SizeOfBlocks(s, f) = SizeOfBlocks(s, q) + SizeOfBlocks(s, w) /\ SizeOfBlocks(s, w) \in Nat
  <2>1. q \in Seq(BlockType) /\ w \in Seq(BlockType)
    BY <1>6, <1>12
  <2> QED BY <1>14, <2>1, SumCat
<1>17. Flush(a) = f
  BY <1>2, <1>3, <1>4, <1>5, <1>8, <1>11, <1>14, FlushParts
<1>18. \A x : In(x, f) <=> InParts(a, x)
  BY <1>2, <1>3, <1>4, <1>7, <1>9, <1>12, <1>15, Zenon DEF InParts
<1>19. SizeOfBlocks(s, f) = SizeOfParts(s, a)
  BY <1>2, <1>3, <1>4, <1>7, <1>10, <1>13, <1>16, Zenon DEF SizeOfParts
<1> QED BY <1>2, <1>3, <1>4, <1>10, <1>16, <1>17, <1>18, <1>19, Zenon

-----------------------------------------------------------------------------
\* What is true after the first i blocks, old[1] to old[i], have been gathered.

Seen(old, i, n) == \E j \in 1 .. i : old[j].num = n
StillFree(u, n) ==
  /\ u.ent[n].flg = {"FREE"} /\ u.ent[n].locks = 0 /\ u.ent[n].seg = NoSeg /\ u.ent[n].siz > 0
  /\ n \notin u.unused
MergedIn(u, n) == n \in u.unused /\ u.ent[n] = UnusedEntry

\* o[i] is where the block old[i] ends.
LaidOut(s, old, o) ==
  /\ o[0] = 0 /\ o[Len(old)] = Chunk
  /\ \A i \in 0 .. Len(old) : o[i] \in Nat /\ o[i] <= Chunk
  /\ \A i \in 1 .. Len(old) : /\ o[i] = o[i - 1] + s.ent[old[i].num].siz
                              /\ s.ent[old[i].num].at[2] = o[i - 1]
OldBlock(s, n) ==
  /\ n \in Entries /\ n \notin s.unused /\ InMemory(s.ent[n]) /\ s.ent[n].siz > 0
  /\ Has(s, n, "FREE") => StillFree(s, n) /\ ~Has(s, n, "LOCK")
OldGood(s, old, o) ==
  /\ old \in Seq(BlockType) /\ Distinct(old) /\ LaidOut(s, old, o)
  /\ \A i \in 1 .. Len(old) : OldBlock(s, old[i].num)

\* The entries: those of free blocks gathered are still free, or have given
\* their block to another; the others are as before.
SameUse(s, u, n) == u.ent[n] = s.ent[n] /\ (n \in u.unused <=> n \in s.unused)
StillGood(s, old, i, u) ==
  /\ u \in StateType /\ u.heap = s.heap /\ u.lru = s.lru /\ u.segs = s.segs /\ u.room = s.room
  /\ \A n \in Entries : IF Has(s, n, "FREE") /\ Seen(old, i, n) THEN StillFree(u, n) \/ MergedIn(u, n)
                        ELSE SameUse(s, u, n)
  /\ ListOf(u.ent, u.free, "FREE")

\* The blocks: those gathered that are still in memory, each once.
FromOld(s, old, i, x) ==
  \E j \in 1 .. i : old[j].num = x.num /\ (Has(s, x.num, "FREE") \/ x = old[j])
PiecesGood(s, old, i, u, f) ==
  /\ f \in Seq(BlockType) /\ Distinct(f)
  /\ \A x : In(x, f) => InMemory(u.ent[x.num]) /\ FromOld(s, old, i, x)
  /\ \A j \in 1 .. i : InMemory(u.ent[old[j].num]) => \E x : In(x, f) /\ x.num = old[j].num

\* Lemma: a chunk of a good state.
LEMMA ChunkOld ==
  ASSUME NEW s, Good(s), NEW c \in 1 .. Len(s.heap)
  PROVE  \E o : OldGood(s, s.heap[c], o)
<1>1. PICK old : old = s.heap[c]
  OBVIOUS
<1>2. s \in StateType /\ s.heap \in Seq(Seq(BlockType)) /\ HeapGood(s.ent, s.heap)
  BY StateFields DEF Good
<1>3. old \in Seq(BlockType) /\ Len(old) \in Nat /\ Chained(s.ent, old, c)
  BY <1>1, <1>2, BlocksFacts DEF HeapGood
<1>4. PICK o : /\ \A i \in 0 .. Len(old) :
                    /\ o[i] = SizeOfBlocks(s, SubSeq(old, 1, i))
                    /\ o[i] \in Nat /\ o[i] <= o[Len(old)]
               /\ o[0] = 0 /\ o[Len(old)] = SizeOfBlocks(s, old)
               /\ \A i \in 1 .. Len(old) : o[i] = o[i - 1] + s.ent[old[i].num].siz
  BY <1>2, <1>3, Offsets
<1>5. /\ SizeOfBlocks(s, old) = Chunk
      /\ \A i \in 1 .. Len(old) : s.ent[old[i].num].at = Address(s, c, i)
  BY <1>1, <1>2, <1>3, ChainSums
<1>6. ASSUME NEW i \in 1 .. Len(old) PROVE s.ent[old[i].num].at[2] = o[i - 1]
  <2>1. i - 1 \in 0 .. Len(old)
    BY <1>3
  <2>2. o[i - 1] = SizeOfBlocks(s, SubSeq(old, 1, i - 1))
    BY <1>4, <2>1
  <2>3. Address(s, c, i) = <<c, o[i - 1]>>
    BY <1>1, <2>2 DEF Address
  <2> QED BY <1>5, <2>3
<1>7. LaidOut(s, old, o)
  BY <1>4, <1>5, <1>6 DEF LaidOut
<1>8. Distinct(old)
  BY <1>1, <1>2 DEF HeapGood, Separate, Distinct
<1>9. ASSUME NEW i \in 1 .. Len(old) PROVE OldBlock(s, old[i].num)
  <2>1. PICK n : n = old[i].num
    OBVIOUS
  <2>2. n \in Entries /\ (Has(s, n, "PRES") \/ Has(s, n, "FREE")) /\ n \notin s.unused
    BY <1>1, <2>1, PlaceHeader
  <2>3. s.ent[n].siz > 0
    BY <1>3, <2>1 DEF Chained
  <2>4. EntryGood(s.ent[n]) /\ s.ent[n].locks \in Nat
    BY <1>2, <2>2, EntryFields DEF Good
  <2>5. ASSUME Has(s, n, "FREE") PROVE StillFree(s, n) /\ ~Has(s, n, "LOCK")
    <3>1. s.ent[n].flg = {"FREE"}
      BY <2>4, <2>5 DEF EntryGood, Has
    <3>2. "LOCK" \notin s.ent[n].flg /\ "NODISC" \notin s.ent[n].flg
      BY <3>1
    <3>3. s.ent[n].locks = 0 /\ s.ent[n].seg = NoSeg
      BY <2>4, <3>2 DEF EntryGood
    <3> QED BY <2>2, <2>3, <3>1, <3>2, <3>3 DEF StillFree, Has
  <2> QED BY <2>1, <2>2, <2>3, <2>5 DEF OldBlock, InMemory, Has
<1> QED BY <1>1, <1>3, <1>7, <1>8, <1>9 DEF OldGood

\* Lemma: the next block has not been seen before.
LEMMA SeenNext ==
  ASSUME NEW old \in Seq(BlockType), Distinct(old), NEW i \in 1 .. Len(old)
  PROVE  /\ \A n : Seen(old, i, n) <=> Seen(old, i - 1, n) \/ n = old[i].num
         /\ ~Seen(old, i - 1, old[i].num)
         /\ \A n : ~Seen(old, 0, n)
<1>1. Len(old) \in Nat
  OBVIOUS
<1>2. \A j : j \in 1 .. i <=> j \in 1 .. (i - 1) \/ j = i
  BY <1>1
<1>3. \A j \in 1 .. (i - 1) : j \in 1 .. Len(old) /\ j # i
  BY <1>1
<1>4. \A n : Seen(old, i, n) <=> Seen(old, i - 1, n) \/ n = old[i].num
  BY <1>2 DEF Seen
<1>5. ~Seen(old, i - 1, old[i].num)
  BY <1>3 DEF Seen, Distinct
<1>6. \A j : j \notin 1 .. 0
  OBVIOUS
<1> QED BY <1>4, <1>5, <1>6 DEF Seen

\* Lemma: it is as it was.
LEMMA StillNext ==
  ASSUME NEW s, NEW old, NEW o, OldGood(s, old, o), NEW i \in 1 .. Len(old), NEW u,
         StillGood(s, old, i - 1, u), NEW n, n = old[i].num
  PROVE  /\ OldBlock(s, n) /\ SameUse(s, u, n) /\ StillGood(s, old, i, u)
         /\ InMemory(u.ent[n])
         /\ Has(s, n, "FREE") => StillFree(u, n)
<1>1. old \in Seq(BlockType) /\ Distinct(old) /\ OldBlock(s, n)
  BY DEF OldGood
<1>2. /\ \A k : Seen(old, i, k) <=> Seen(old, i - 1, k) \/ k = n
      /\ ~Seen(old, i - 1, n)
  BY <1>1, SeenNext
<1>3. n \in Entries
  BY <1>1 DEF OldBlock
<1>4. /\ u \in StateType /\ u.heap = s.heap /\ u.lru = s.lru /\ u.segs = s.segs /\ u.room = s.room
      /\ ListOf(u.ent, u.free, "FREE")
  BY DEF StillGood
<1>5. \A k \in Entries : IF Has(s, k, "FREE") /\ Seen(old, i - 1, k) THEN StillFree(u, k) \/ MergedIn(u, k)
                         ELSE SameUse(s, u, k)
  BY Zenon DEF StillGood
<1>6. SameUse(s, u, n)
  BY <1>2, <1>3, <1>5
<1>7. InMemory(u.ent[n])
  BY <1>1, <1>6 DEF SameUse, OldBlock
<1>8. Has(s, n, "FREE") => StillFree(u, n)
  BY <1>1, <1>6 DEF OldBlock, StillFree, SameUse
<1>9. ASSUME NEW k \in Entries
      PROVE  IF Has(s, k, "FREE") /\ Seen(old, i, k) THEN StillFree(u, k) \/ MergedIn(u, k)
             ELSE SameUse(s, u, k)
  <2>1. CASE k = n
    BY <1>6, <1>8, <2>1
  <2>2. CASE k # n
    BY <1>2, <1>5, <2>2
  <2> QED BY <2>1, <2>2
<1>10. StillGood(s, old, i, u)
  BY <1>4, <1>9, Zenon DEF StillGood
<1> QED BY <1>1, <1>6, <1>7, <1>8, <1>10

\* Lemma: the next block is put behind those gathered.
LEMMA AppendPiece ==
  ASSUME NEW s, NEW old, NEW o, OldGood(s, old, o), NEW i \in 1 .. Len(old), NEW u,
         NEW f, PiecesGood(s, old, i - 1, u, f), NEW b \in BlockType, b.num = old[i].num,
         Has(s, b.num, "FREE") \/ b = old[i], InMemory(u.ent[b.num])
  PROVE  PiecesGood(s, old, i, u, Append(f, b))
<1>1. PICK r : r = Append(f, b)
  OBVIOUS
<1>2. PICK q : q = <<b>>
  OBVIOUS
<1>3. /\ f \in Seq(BlockType) /\ Distinct(f)
      /\ \A x : In(x, f) => InMemory(u.ent[x.num]) /\ FromOld(s, old, i - 1, x)
      /\ \A j \in 1 .. (i - 1) : InMemory(u.ent[old[j].num]) => \E x : In(x, f) /\ x.num = old[j].num
  BY Zenon DEF PiecesGood
<1>4. r = f \o q
  BY <1>1, <1>2, <1>3, CatSmall
<1>5. q \in Seq(BlockType) /\ Distinct(q) /\ \A x : In(x, q) <=> x = b
  BY <1>2, OneBlock
<1>6. r \in Seq(BlockType) /\ \A x : In(x, r) <=> In(x, f) \/ In(x, q)
  BY <1>3, <1>4, <1>5, InCat
<1>7. old \in Seq(BlockType) /\ Distinct(old)
  BY DEF OldGood
<1>8. /\ \A n : Seen(old, i, n) <=> Seen(old, i - 1, n) \/ n = old[i].num
      /\ ~Seen(old, i - 1, old[i].num)
  BY <1>7, SeenNext
<1>9. \A j : j \in 1 .. i <=> j \in 1 .. (i - 1) \/ j = i
  <2>1. Len(old) \in Nat
    BY <1>7
  <2> QED BY <2>1
<1>10. \A x : FromOld(s, old, i - 1, x) => Seen(old, i - 1, x.num) /\ FromOld(s, old, i, x)
  BY <1>9, Zenon DEF FromOld, Seen
<1>11. Strangers(f, q)
  BY <1>3, <1>5, <1>8, <1>10, Zenon DEF Strangers
<1>12. Distinct(r)
  BY <1>3, <1>4, <1>5, <1>11, DistinctCat
<1>13. FromOld(s, old, i, b)
  BY <1>9, Zenon DEF FromOld
<1>14. \A x : In(x, r) => InMemory(u.ent[x.num]) /\ FromOld(s, old, i, x)
  BY <1>3, <1>5, <1>6, <1>10, <1>13, Zenon
<1>15. \A j \in 1 .. i : InMemory(u.ent[old[j].num]) => \E x : In(x, r) /\ x.num = old[j].num
  BY <1>3, <1>5, <1>6, <1>9, Zenon
<1> QED BY <1>1, <1>6, <1>12, <1>14, <1>15, Zenon DEF PiecesGood

\* Lemma: so its end is where the next one begins.
LEMMA AppendSize ==
  ASSUME NEW s, NEW old, NEW o, OldGood(s, old, o), NEW i \in 1 .. Len(old), NEW u \in StateType,
         NEW f \in Seq(BlockType), SizeOfBlocks(u, f) = o[i - 1],
         NEW b \in BlockType, b.num = old[i].num, u.ent[b.num] = s.ent[b.num]
  PROVE  SizeOfBlocks(u, Append(f, b)) = o[i]
<1>1. PICK r : r = Append(f, b)
  OBVIOUS
<1>2. PICK q : q = <<b>>
  OBVIOUS
<1>3. q \in Seq(BlockType)
  BY <1>2, OneBlock
<1>4. r = f \o q
  BY <1>1, <1>2, CatSmall
<1>5. SizeOfBlocks(u, r) = SizeOfBlocks(u, f) + SizeOfBlocks(u, q)
  BY <1>3, <1>4, SumCat
<1>6. SizeOfBlocks(u, q) = u.ent[b.num].siz
  BY <1>2, SumOne
<1>7. o[i] = o[i - 1] + s.ent[old[i].num].siz
  BY DEF OldGood, LaidOut
<1> QED BY <1>1, <1>5, <1>6, <1>7, Zenon

-----------------------------------------------------------------------------
\* One turn of Gather.

PartsGood(s, a) ==
  /\ LocksIn(s, a.m, a.done) /\ Unlocked(s, a.moved) /\ Unlocked(s, a.above)
  /\ a.hole = NoEntry => a.moved = << >> /\ a.above = << >>
  /\ a.hole # NoEntry => Has(s, a.hole, "FREE") /\ ~Has(s, a.hole, "LOCK") /\ StillFree(a.m, a.hole)
Gathered(s, old, o, i, a) ==
  /\ a \in AccType /\ StillGood(s, old, i, a.m) /\ PiecesGood(s, old, i, a.m, Flush(a))
  /\ SizeOfBlocks(a.m, Flush(a)) = o[i] /\ PartsGood(s, a)

\* Lemma: no block is locked in an empty sequence, nor in the longer one.
LEMMA UnlockedFacts ==
  ASSUME NEW s
  PROVE  /\ Unlocked(s, << >>)
         /\ \A q \in Seq(BlockType), b \in BlockType :
              Unlocked(s, q) /\ ~Has(s, b.num, "LOCK") => Unlocked(s, Append(q, b))
<1>1. Unlocked(s, << >>)
  BY NoBlock DEF Unlocked
<1>2. ASSUME NEW q \in Seq(BlockType), NEW b \in BlockType, Unlocked(s, q), ~Has(s, b.num, "LOCK")
      PROVE  Unlocked(s, Append(q, b))
  <2>1. PICK p : p = <<b>>
    OBVIOUS
  <2>2. p \in Seq(BlockType) /\ \A x : In(x, p) <=> x = b
    BY <2>1, OneBlock
  <2>3. PICK r : r = q \o p
    OBVIOUS
  <2>4. \A x : In(x, r) <=> In(x, q) \/ In(x, p)
    BY <2>2, <2>3, InCat
  <2>5. r = Append(q, b)
    BY <2>1, <2>3, CatSmall
  <2> QED BY <1>2, <2>2, <2>4, <2>5, Zenon DEF Unlocked
<1> QED BY <1>1, <1>2

\* Lemma: the locked blocks are in place in all four parts together.
LEMMA FlushLocks ==
  ASSUME NEW s, NEW a \in AccType, PartsGood(s, a)
  PROVE  LocksIn(s, a.m, Flush(a))
<1>1. PICK d : d = a.done
  OBVIOUS
<1>2. PICK v : v = a.moved
  OBVIOUS
<1>3. PICK w : w = a.above
  OBVIOUS
<1>4. PICK h : h = HoleOf(a.hole)
  OBVIOUS
<1>5. /\ d \in Seq(BlockType) /\ v \in Seq(BlockType) /\ w \in Seq(BlockType) /\ h \in Seq(BlockType)
      /\ a.hole \in Entries \union {NoEntry} /\ a.m \in StateType
  BY <1>1, <1>2, <1>3, <1>4, FlushParts
<1>6. PICK p : p = d \o v
  OBVIOUS
<1>7. PICK q : q = p \o h
  OBVIOUS
<1>8. PICK f : f = q \o w
  OBVIOUS
<1>9. Flush(a) = f
  BY <1>1, <1>2, <1>3, <1>4, <1>6, <1>7, <1>8, FlushParts
<1>10. p \in Seq(BlockType)
  BY <1>5, <1>6, InCat
<1>11. q \in Seq(BlockType)
  BY <1>5, <1>7, <1>10, InCat
<1>12. LocksIn(s, a.m, d) /\ Unlocked(s, v) /\ Unlocked(s, w)
  BY <1>1, <1>2, <1>3 DEF PartsGood
<1>13. LocksIn(s, a.m, p)
  BY <1>5, <1>6, <1>12, LocksCat
<1>14. Unlocked(s, h)
  <2>1. \A x : In(x, h) <=> a.hole # NoEntry /\ x = Block(a.hole, Nothing)
    BY <1>4, <1>5, HoleFacts
  <2>2. Block(a.hole, Nothing).num = a.hole
    BY DEF Block
  <2>3. a.hole # NoEntry => ~Has(s, a.hole, "LOCK")
    BY DEF PartsGood
  <2> QED BY <2>1, <2>2, <2>3, Zenon DEF Unlocked
<1>15. LocksIn(s, a.m, q)
  BY <1>5, <1>7, <1>10, <1>13, <1>14, LocksCat
<1>16. LocksIn(s, a.m, f)
  BY <1>5, <1>8, <1>11, <1>12, <1>15, LocksCat
<1> QED BY <1>9, <1>16

\* Lemma: only one of the parts has blocks.
LEMMA FlushDone ==
  ASSUME NEW a \in AccType, a.moved = << >>, a.above = << >>
  PROVE  Flush(a) = a.done \o HoleOf(a.hole) /\ (a.hole = NoEntry => Flush(a) = a.done)
<1>1. PICK d : d = a.done
  OBVIOUS
<1>2. PICK h : h = HoleOf(a.hole)
  OBVIOUS
<1>3. d \in Seq(BlockType) /\ h \in Seq(BlockType)
  BY <1>1, <1>2, FlushParts
<1>4. Flush(a) = ((d \o << >>) \o h) \o << >>
  BY <1>1, <1>2, FlushParts
<1>5. d \o << >> = d
  BY <1>3, CatSmall
<1>6. PICK p : p = d \o h
  OBVIOUS
<1>7. p \in Seq(BlockType)
  BY <1>3, <1>6, InCat
<1>8. p \o << >> = p
  BY <1>7, CatSmall
<1>9. Flush(a) = p
  BY <1>4, <1>5, <1>6, <1>8
<1>10. ASSUME a.hole = NoEntry PROVE p = d
  <2>1. h = << >>
    BY <1>2, <1>10 DEF HoleOf
  <2> QED BY <1>5, <1>6, <2>1
<1> QED BY <1>1, <1>2, <1>6, <1>9, <1>10

\* Lemma: a turn that changes no entry puts the next block behind the others.
LEMMA Advance ==
  ASSUME NEW s, NEW old, NEW o, OldGood(s, old, o), NEW i \in 1 .. Len(old), NEW a,
         Gathered(s, old, o, i - 1, a), NEW y \in AccType, y.m = a.m,
         NEW b \in BlockType, b.num = old[i].num, Has(s, b.num, "FREE") \/ b = old[i],
         Flush(y) = Append(Flush(a), b), PartsGood(s, y)
  PROVE  Gathered(s, old, o, i, y)
<1>1. PICK f : f = Flush(a)
  OBVIOUS
<1>2. PICK u : u = a.m
  OBVIOUS
<1>3. /\ a \in AccType /\ StillGood(s, old, i - 1, u) /\ PiecesGood(s, old, i - 1, u, f)
      /\ SizeOfBlocks(u, f) = o[i - 1]
  BY <1>1, <1>2, Zenon DEF Gathered
<1>4. u \in StateType /\ f \in Seq(BlockType)
  BY <1>1, <1>2, <1>3, FlushParts
<1>5. SameUse(s, u, b.num) /\ StillGood(s, old, i, u) /\ InMemory(u.ent[b.num])
  BY <1>3, StillNext
<1>6. u.ent[b.num] = s.ent[b.num]
  BY <1>5 DEF SameUse
<1>7. PiecesGood(s, old, i, u, Append(f, b))
  BY <1>3, <1>5, AppendPiece
<1>8. SizeOfBlocks(u, Append(f, b)) = o[i]
  BY <1>3, <1>4, <1>6, AppendSize
<1> QED BY <1>1, <1>2, <1>5, <1>7, <1>8, Zenon DEF Gathered

\* Lemma: a locked block ends the move.
LEMMA GatherLock ==
  ASSUME NEW s, NEW old, NEW o, OldGood(s, old, o), NEW i \in 1 .. Len(old), NEW a,
         Gathered(s, old, o, i - 1, a), NEW y,
         y = [m |-> a.m, done |-> Append(Flush(a), old[i]), moved |-> << >>,
              hole |-> NoEntry, above |-> << >>]
  PROVE  Gathered(s, old, o, i, y)
<1>1. PICK f : f = Flush(a)
  OBVIOUS
<1>2. PICK b : b = old[i]
  OBVIOUS
<1>3. a \in AccType /\ SizeOfBlocks(a.m, f) = o[i - 1] /\ PartsGood(s, a)
  BY <1>1, Zenon DEF Gathered
<1>4. f \in Seq(BlockType) /\ a.m \in StateType
  BY <1>1, <1>3, FlushParts
<1>5. b \in BlockType
  BY <1>2 DEF OldGood
<1>6. PICK r : r = Append(f, b)
  OBVIOUS
<1>7. r \in Seq(BlockType)
  BY <1>4, <1>5, <1>6
<1>8. y.m = a.m /\ y.done = r /\ y.moved = << >> /\ y.hole = NoEntry /\ y.above = << >>
  BY <1>1, <1>2, <1>6
<1>9. y \in AccType
  BY <1>1, <1>2, <1>4, <1>6, <1>7 DEF AccType
<1>10. Flush(y) = Append(f, b)
  BY <1>6, <1>8, <1>9, FlushDone
<1>11. s.ent[b.num].at[2] = o[i - 1]
  BY <1>2 DEF OldGood, LaidOut
<1>12. LocksIn(s, a.m, f)
  BY <1>1, <1>3, FlushLocks
<1>13. LocksIn(s, a.m, r)
  BY <1>3, <1>4, <1>5, <1>6, <1>11, <1>12, LocksSnoc
<1>14. PartsGood(s, y)
  BY <1>8, <1>13, UnlockedFacts DEF PartsGood
<1> QED BY <1>1, <1>2, <1>5, <1>8, <1>9, <1>10, <1>14, Advance

\* Lemma: the first free block is where others will be moved to.
LEMMA GatherHole ==
  ASSUME NEW s, NEW old, NEW o, OldGood(s, old, o), NEW i \in 1 .. Len(old), NEW a,
         Gathered(s, old, o, i - 1, a), a.hole = NoEntry, Has(a.m, old[i].num, "FREE"),
         NEW y, y = [a EXCEPT !.hole = old[i].num]
  PROVE  Gathered(s, old, o, i, y)
<1>1. PICK n : n = old[i].num
  OBVIOUS
<1>2. PICK b : b = Block(n, Nothing)
  OBVIOUS
<1>3. a \in AccType /\ StillGood(s, old, i - 1, a.m) /\ PartsGood(s, a)
  BY Zenon DEF Gathered
<1>4. OldBlock(s, n) /\ SameUse(s, a.m, n) /\ (Has(s, n, "FREE") => StillFree(a.m, n))
  BY <1>1, <1>3, StillNext
<1>5. Has(s, n, "FREE") /\ StillFree(a.m, n) /\ ~Has(s, n, "LOCK")
  BY <1>1, <1>4 DEF Has, SameUse, OldBlock
<1>6. n \in Entries /\ n # NoEntry
  <2>1. n \in Entries
    BY <1>4 DEF OldBlock
  <2> QED BY <2>1 DEF Entries, NoEntry
<1>7. b \in BlockType /\ b.num = n
  BY <1>2, <1>6 DEF Block, BlockType
<1>8. /\ y \in AccType /\ y.m = a.m /\ y.done = a.done /\ y.moved = a.moved
      /\ y.hole = n /\ y.above = a.above
  BY <1>1, <1>3, <1>6 DEF AccType
<1>9. a.moved = << >> /\ a.above = << >> /\ LocksIn(s, a.m, a.done)
  BY <1>3 DEF PartsGood
<1>10. PICK d : d = a.done
  OBVIOUS
<1>11. d \in Seq(BlockType)
  BY <1>3, <1>10, FlushParts
<1>12. Flush(a) = d
  BY <1>3, <1>9, <1>10, FlushDone
<1>13. Flush(y) = d \o HoleOf(n)
  BY <1>8, <1>9, <1>10, FlushDone
<1>14. HoleOf(n) = <<b>>
  BY <1>2, <1>6 DEF HoleOf
<1>15. Flush(y) = Append(Flush(a), b)
  BY <1>7, <1>11, <1>12, <1>13, <1>14, CatSmall
<1>16. PartsGood(s, y)
  BY <1>5, <1>6, <1>8, <1>9, UnlockedFacts, Zenon DEF PartsGood
<1> QED BY <1>1, <1>5, <1>7, <1>8, <1>15, <1>16, Advance

\* Lemma: an object that is not locked, with nothing free below it.
LEMMA GatherLow ==
  ASSUME NEW s, NEW old, NEW o, OldGood(s, old, o), NEW i \in 1 .. Len(old), NEW a,
         Gathered(s, old, o, i - 1, a), a.hole = NoEntry, ~Has(a.m, old[i].num, "LOCK"),
         NEW y, y = [a EXCEPT !.done = Append(@, old[i])]
  PROVE  Gathered(s, old, o, i, y)
<1>1. PICK b : b = old[i]
  OBVIOUS
<1>2. b \in BlockType
  BY <1>1 DEF OldGood
<1>3. a \in AccType /\ StillGood(s, old, i - 1, a.m) /\ PartsGood(s, a)
  BY Zenon DEF Gathered
<1>4. SameUse(s, a.m, b.num)
  BY <1>1, <1>3, StillNext
<1>5. ~Has(s, b.num, "LOCK")
  BY <1>1, <1>4 DEF Has, SameUse
<1>6. PICK d : d = a.done
  OBVIOUS
<1>7. d \in Seq(BlockType) /\ a.m \in StateType
  BY <1>3, <1>6, FlushParts
<1>8. PICK r : r = Append(d, b)
  OBVIOUS
<1>9. r \in Seq(BlockType)
  BY <1>2, <1>7, <1>8
<1>10. /\ y \in AccType /\ y.m = a.m /\ y.done = r /\ y.moved = a.moved
       /\ y.hole = a.hole /\ y.above = a.above
  BY <1>1, <1>3, <1>6, <1>8, <1>9 DEF AccType
<1>11. a.moved = << >> /\ a.above = << >> /\ LocksIn(s, a.m, d)
  BY <1>3, <1>6 DEF PartsGood
<1>12. Flush(a) = d
  BY <1>3, <1>6, <1>11, FlushDone
<1>13. Flush(y) = r
  BY <1>10, <1>11, FlushDone
<1>14. LocksIn(s, a.m, r)
  BY <1>2, <1>5, <1>7, <1>8, <1>11, LocksSnoc
<1>15. PartsGood(s, y)
  BY <1>10, <1>11, <1>14, UnlockedFacts, Zenon DEF PartsGood
<1> QED BY <1>1, <1>2, <1>8, <1>10, <1>12, <1>13, <1>15, Advance

\* Lemma: an object that is not locked, above a free block.
LEMMA GatherHigh ==
  ASSUME NEW s, NEW old, NEW o, OldGood(s, old, o), NEW i \in 1 .. Len(old), NEW a,
         Gathered(s, old, o, i - 1, a), a.hole # NoEntry, ~Has(a.m, old[i].num, "LOCK"),
         NEW y, y = [a EXCEPT !.above = Append(@, old[i])]
  PROVE  Gathered(s, old, o, i, y)
<1>1. PICK b : b = old[i]
  OBVIOUS
<1>2. b \in BlockType
  BY <1>1 DEF OldGood
<1>3. a \in AccType /\ StillGood(s, old, i - 1, a.m) /\ PartsGood(s, a)
  BY Zenon DEF Gathered
<1>4. SameUse(s, a.m, b.num)
  BY <1>1, <1>3, StillNext
<1>5. ~Has(s, b.num, "LOCK")
  BY <1>1, <1>4 DEF Has, SameUse
<1>6. PICK d : d = a.above
  OBVIOUS
<1>7. d \in Seq(BlockType) /\ a.m \in StateType
  BY <1>3, <1>6, FlushParts
<1>8. PICK r : r = Append(d, b)
  OBVIOUS
<1>9. r \in Seq(BlockType)
  BY <1>2, <1>7, <1>8
<1>10. /\ y \in AccType /\ y.m = a.m /\ y.done = a.done /\ y.moved = a.moved
       /\ y.hole = a.hole /\ y.above = r
  BY <1>1, <1>3, <1>6, <1>8, <1>9 DEF AccType
<1>11. PICK p : p = (a.done \o a.moved) \o HoleOf(a.hole)
  OBVIOUS
<1>12. p \in Seq(BlockType) /\ Flush(a) = p \o d
  BY <1>3, <1>6, <1>11, FlushParts
<1>13. Flush(y) = p \o r
  BY <1>10, <1>11, FlushParts
<1>14. Flush(y) = Append(Flush(a), b)
  <2>1. PICK x : x = <<b>>
    OBVIOUS
  <2>2. x \in Seq(BlockType)
    BY <1>2, <2>1, OneBlock
  <2>3. r = d \o x
    BY <1>2, <1>7, <1>8, <2>1, CatSmall
  <2>4. (p \o d) \o x = p \o (d \o x)
    BY <1>7, <1>12, <2>2, CatAgain, SMTT(20)
  <2>5. PICK f : f = p \o d
    OBVIOUS
  <2>6. f \in Seq(BlockType)
    BY <1>7, <1>12, <2>5, InCat
  <2>7. Append(f, b) = f \o x
    BY <1>2, <2>1, <2>6, CatSmall
  <2> QED BY <1>12, <1>13, <2>3, <2>4, <2>5, <2>7
<1>15. Unlocked(s, r)
  <2>1. Unlocked(s, d)
    BY <1>3, <1>6 DEF PartsGood
  <2> QED BY <1>2, <1>5, <1>7, <1>8, <2>1, UnlockedFacts
<1>16. PartsGood(s, y)
  <2>1. /\ LocksIn(s, a.m, a.done) /\ Unlocked(s, a.moved)
        /\ Has(s, a.hole, "FREE") /\ ~Has(s, a.hole, "LOCK") /\ StillFree(a.m, a.hole)
    BY <1>3 DEF PartsGood
  <2> QED BY <1>10, <1>15, <2>1, Zenon DEF PartsGood
<1> QED BY <1>1, <1>2, <1>10, <1>14, <1>16, Advance

-----------------------------------------------------------------------------
\* A free block gives its memory to the one below.

MergedEnt(u, h, k) ==
  [[u.ent EXCEPT ![h] = [u.ent[h] EXCEPT !.siz = u.ent[h].siz + u.ent[k].siz]] EXCEPT ![k] = UnusedEntry]
MergeOf(u, h, k) ==
  Disuse([u EXCEPT !.ent[h].siz = @ + u.ent[k].siz, !.free = RemoveFirst(@, k)], k)
CanMerge(u, h, k) ==
  u.ent[h].siz + u.ent[k].siz <= Chunk /\ RemoveFirst(u.free, k) \in Seq(Entries)

MergedHeaders(u, h, k, v) ==
  /\ v \in StateType /\ v.heap = u.heap /\ v.free = RemoveFirst(u.free, k)
  /\ v.lru = u.lru /\ v.segs = u.segs /\ v.room = u.room
  /\ \A n : n \in v.unused <=> n \in u.unused \/ n = k
  /\ v.ent[k] = UnusedEntry
  /\ v.ent[h].flg = u.ent[h].flg /\ v.ent[h].locks = u.ent[h].locks
  /\ v.ent[h].seg = u.ent[h].seg /\ v.ent[h].siz = u.ent[h].siz + u.ent[k].siz
  /\ \A n \in Entries : n # h /\ n # k => v.ent[n] = u.ent[n]

\* Lemma: an entry is given back.
LEMMA DisuseFields ==
  ASSUME NEW s \in StateType, NEW n \in Entries
  PROVE  Fields(Disuse(s, n), [s.ent EXCEPT ![n] = UnusedEntry], s.heap, s.free, s.unused \union {n},
                s.lru, s.segs, s.room)
BY DisuseFacts DEF Fields

\* Lemma: the parts of the state after that.
LEMMA MergeFields ==
  ASSUME NEW u \in StateType, NEW h \in Entries, NEW k \in Entries,
         CanMerge(u, h, k), NEW v, v = MergeOf(u, h, k)
  PROVE  Fields(v, MergedEnt(u, h, k), u.heap, RemoveFirst(u.free, k), u.unused \union {k},
                u.lru, u.segs, u.room)
<1>1. u.ent[h] \in EntryType /\ u.ent[h].siz + u.ent[k].siz \in 0 .. Chunk
  <2>1. u.ent[h].siz \in Nat /\ u.ent[k].siz \in Nat
    BY EntryFields, ConstFacts
  <2> QED BY <2>1, EntryFields DEF CanMerge
<1>2. PICK e : e = [u.ent[h] EXCEPT !.siz = u.ent[h].siz + u.ent[k].siz]
  OBVIOUS
<1>3. e \in EntryType
  BY <1>1, <1>2 DEF EntryType
<1>4. PICK x : x = [u.ent EXCEPT ![h] = e]
  OBVIOUS
<1>5. x \in [Entries -> EntryType]
  BY <1>3, <1>4, StateFields
<1>6. PICK w : w = [u EXCEPT !.ent[h].siz = @ + u.ent[k].siz, !.free = RemoveFirst(@, k)]
  OBVIOUS
<1>7. /\ w \in StateType /\ w.ent = x /\ w.free = RemoveFirst(u.free, k)
      /\ w.heap = u.heap /\ w.unused = u.unused /\ w.lru = u.lru /\ w.segs = u.segs /\ w.room = u.room
  BY <1>2, <1>4, <1>5, <1>6 DEF StateType, CanMerge
<1>8. v = Disuse(w, k)
  BY <1>6, Zenon DEF MergeOf
<1>9. /\ v \in StateType
      /\ v.ent = [w.ent EXCEPT ![k] = UnusedEntry]
      /\ v.unused = w.unused \union {k}
      /\ v.heap = w.heap /\ v.free = w.free /\ v.lru = w.lru
      /\ v.segs = w.segs /\ v.room = w.room
  <2>1. w \in StateType
    BY <1>7
  <2>2. Fields(Disuse(w, k), [w.ent EXCEPT ![k] = UnusedEntry], w.heap, w.free, w.unused \union {k},
               w.lru, w.segs, w.room)
    BY <2>1, DisuseFields, Zenon
  <2> QED BY <1>8, <2>2, Zenon DEF Fields
<1>10. v.ent = MergedEnt(u, h, k)
  BY <1>2, <1>4, <1>7, <1>9, Zenon DEF MergedEnt
<1> QED BY <1>7, <1>9, <1>10, Zenon DEF Fields

\* Lemma: and the entries one by one.
LEMMA MergedFacts ==
  ASSUME NEW u \in StateType, NEW h \in Entries, NEW k \in Entries, h # k,
         CanMerge(u, h, k), NEW v, v = MergeOf(u, h, k)
  PROVE  MergedHeaders(u, h, k, v)
<1>1. Fields(v, MergedEnt(u, h, k), u.heap, RemoveFirst(u.free, k), u.unused \union {k},
             u.lru, u.segs, u.room)
  BY MergeFields
<1>2. /\ v \in StateType /\ v.ent = MergedEnt(u, h, k) /\ v.heap = u.heap
      /\ v.free = RemoveFirst(u.free, k) /\ v.unused = u.unused \union {k}
      /\ v.lru = u.lru /\ v.segs = u.segs /\ v.room = u.room
  BY <1>1, Zenon DEF Fields
<1>3. PICK e : e = [u.ent[h] EXCEPT !.siz = u.ent[h].siz + u.ent[k].siz]
  OBVIOUS
<1>4. u.ent[h] \in EntryType
  BY EntryFields
<1>5. /\ e.flg = u.ent[h].flg /\ e.locks = u.ent[h].locks /\ e.seg = u.ent[h].seg
      /\ e.siz = u.ent[h].siz + u.ent[k].siz
  BY <1>3, <1>4 DEF EntryType
<1>6. v.ent = [[u.ent EXCEPT ![h] = e] EXCEPT ![k] = UnusedEntry]
  BY <1>2, <1>3 DEF MergedEnt
<1>7. u.ent \in [Entries -> EntryType]
  BY StateFields
<1>8. v.ent[k] = UnusedEntry /\ v.ent[h] = e /\ \A n \in Entries : n # h /\ n # k => v.ent[n] = u.ent[n]
  BY <1>6, <1>7
<1> QED BY <1>2, <1>5, <1>8 DEF MergedHeaders

\* Lemma: the sizes add up to no more than the chunk.
LEMMA HoleFits ==
  ASSUME NEW s, NEW old, NEW o, OldGood(s, old, o), NEW i \in 1 .. Len(old), NEW a,
         Gathered(s, old, o, i - 1, a), a.hole # NoEntry, NEW siz, siz = s.ent[old[i].num].siz
  PROVE  /\ a.m.ent[a.hole].siz + siz <= Chunk /\ a.m.ent[a.hole].siz \in Nat /\ siz \in Nat
         /\ SizeOfParts(a.m, a) + siz = o[i]
         /\ a.hole \in Entries
<1>1. a \in AccType /\ SizeOfBlocks(a.m, Flush(a)) = o[i - 1]
  BY DEF Gathered
<1>2. a.m \in StateType /\ a.hole \in Entries
  BY <1>1, FlushParts
<1>3. /\ SizeOfParts(a.m, a) = o[i - 1]
      /\ SizeOfBlocks(a.m, a.done) \in Nat /\ SizeOfBlocks(a.m, a.moved) \in Nat
      /\ SizeOfBlocks(a.m, a.above) \in Nat
  BY <1>1, <1>2, FlushFacts
<1>4. a.m.ent[a.hole].siz \in Nat
  BY <1>2, EntryFields, ConstFacts
<1>5. o[i] = o[i - 1] + siz /\ o[i] <= Chunk /\ o[i] \in Nat /\ o[i - 1] \in Nat
  <2>1. old \in Seq(BlockType)
    BY DEF OldGood
  <2>2. i \in 0 .. Len(old) /\ i - 1 \in 0 .. Len(old)
    BY <2>1
  <2> QED BY <2>2 DEF OldGood, LaidOut
<1>6. siz \in Nat
  <2>1. old[i].num \in Entries /\ s.ent[old[i].num].siz > 0
    BY DEF OldGood, OldBlock
  <2>2. OldBlock(s, old[i].num) /\ SameUse(s, a.m, old[i].num)
    BY StillNext DEF Gathered
  <2>3. a.m.ent[old[i].num].siz \in Nat
    BY <1>2, <2>1, EntryFields, ConstFacts
  <2> QED BY <2>2, <2>3 DEF SameUse
<1>7. \A x, y, z, w, t, p, q \in Nat :
        (((x + y) + z) + w = p /\ q = p + t /\ q <= Chunk) => z + t <= Chunk
  BY ConstFacts
<1>8. ((SizeOfBlocks(a.m, a.done) + SizeOfBlocks(a.m, a.moved)) + a.m.ent[a.hole].siz)
        + SizeOfBlocks(a.m, a.above) = o[i - 1]
  BY <1>3 DEF SizeOfParts
<1>9. a.m.ent[a.hole].siz + siz <= Chunk
  <2>1. PICK x \in Nat, y \in Nat, w \in Nat : /\ x = SizeOfBlocks(a.m, a.done)
                                           /\ y = SizeOfBlocks(a.m, a.moved)
                                           /\ w = SizeOfBlocks(a.m, a.above)
    BY <1>3
  <2>2. ((x + y) + a.m.ent[a.hole].siz) + w = o[i - 1]
    BY <1>8, <2>1
  <2>3. PICK z \in Nat, t \in Nat, p \in Nat, r \in Nat :
          z = a.m.ent[a.hole].siz /\ t = siz /\ p = o[i - 1] /\ r = o[i]
    BY <1>4, <1>5, <1>6
  <2>4. ((x + y) + z) + w = p /\ r = p + t /\ r <= Chunk
    BY <1>5, <2>2, <2>3, Zenon
  <2>5. z + t <= Chunk
    BY <1>7, <2>4, Zenon
  <2> QED BY <2>3, <2>5, Zenon
<1> QED BY <1>2, <1>3, <1>4, <1>5, <1>6, <1>9

\* Lemma: the hole has been gathered, once.
LEMMA HoleOnce ==
  ASSUME NEW s, NEW old, NEW i, NEW a \in AccType, PiecesGood(s, old, i, a.m, Flush(a)), a.hole # NoEntry
  PROVE  /\ Seen(old, i, a.hole)
         /\ \A x : In(x, a.done) \/ In(x, a.moved) \/ In(x, a.above) => x.num # a.hole
         /\ \A x : In(x, Flush(a)) => Seen(old, i, x.num)
<1>1. PICK f : f = Flush(a)
  OBVIOUS
<1>2. f \in Seq(BlockType) /\ Distinct(f) /\ \A x : In(x, f) => FromOld(s, old, i, x)
  BY <1>1, Zenon DEF PiecesGood
<1>3. \A x : In(x, f) => Seen(old, i, x.num)
  BY <1>2, Zenon DEF FromOld, Seen
<1>4. PICK b : b = Block(a.hole, Nothing)
  OBVIOUS
<1>5. b.num = a.hole
  BY <1>4 DEF Block
<1>6. PICK w : w = a.above
  OBVIOUS
<1>7. PICK h : h = HoleOf(a.hole)
  OBVIOUS
<1>8. PICK p : p = a.done \o a.moved
  OBVIOUS
<1>9. PICK q : q = p \o h
  OBVIOUS
<1>10. w \in Seq(BlockType) /\ h \in Seq(BlockType) /\ p \in Seq(BlockType) /\ q \in Seq(BlockType) /\ f = q \o w
  BY <1>1, <1>6, <1>7, <1>8, <1>9, FlushParts
<1>11. In(b, h)
  <2>1. a.hole \in Entries \union {NoEntry} /\ a.m \in StateType
    BY FlushParts
  <2> QED BY <1>4, <1>7, <2>1, HoleFacts
<1>12. PICK d : d = a.done
  OBVIOUS
<1>13. PICK v : v = a.moved
  OBVIOUS
<1>14. d \in Seq(BlockType) /\ v \in Seq(BlockType)
  BY <1>12, <1>13, FlushParts
<1>15. \A x : In(x, p) <=> In(x, d) \/ In(x, v)
  <2>1. p = d \o v
    BY <1>8, <1>12, <1>13
  <2> QED BY <1>14, <2>1, InCat
<1>16. \A x : In(x, q) <=> In(x, p) \/ In(x, h)
  BY <1>9, <1>10, InCat
<1>17. \A x : In(x, f) <=> In(x, q) \/ In(x, w)
  BY <1>10, InCat
<1>18. Distinct(q) /\ Strangers(q, w)
  BY <1>2, <1>10, DistinctCat
<1>19. Strangers(p, h)
  BY <1>9, <1>10, <1>18, DistinctCat
<1>20. \A x : In(x, p) \/ In(x, w) => x.num # b.num
  BY <1>11, <1>16, <1>18, <1>19, Zenon DEF Strangers
<1>21. In(b, f)
  BY <1>11, <1>16, <1>17
<1> QED BY <1>1, <1>3, <1>5, <1>6, <1>12, <1>13, <1>15, <1>20, <1>21

\* All entries but two are the same; some blocks are not under those two.
SameBut(u, v, h, k) == \A n \in Entries : n # h /\ n # k => v.ent[n] = u.ent[n]
Avoids(q, h, k) == \A x : In(x, q) => x.num # h /\ x.num # k
SameSizes(u, v, q) ==
  /\ SizeOfBlocks(v, q) = SizeOfBlocks(u, q)
  /\ \A x : In(x, q) => v.ent[x.num].siz = u.ent[x.num].siz

\* Lemma: entries other than the two keep their sizes, so do blocks under them.
LEMMA SameSum ==
  ASSUME NEW u, NEW v, NEW q \in Seq(BlockType), NEW h, NEW k,
         SameBut(u, v, h, k), Avoids(q, h, k)
  PROVE  SameSizes(u, v, q)
<1>1. \A x : In(x, q) => x.num \in Entries
  <2>1. \A i \in 1 .. Len(q) : q[i] \in BlockType
    OBVIOUS
  <2> QED BY <2>1 DEF In, BlockType
<1>2. \A x : In(x, q) => v.ent[x.num].siz = u.ent[x.num].siz
  BY <1>1 DEF SameBut, Avoids
<1>3. SizesOf(v, q) = SizesOf(u, q)
  BY <1>2, SumSame
<1> QED BY <1>2, <1>3 DEF SizeOfBlocks, SameSizes

\* Lemma: the entries after a free block has given its memory away.
LEMMA MergeStill ==
  ASSUME NEW s, NEW old, NEW i, NEW u, StillGood(s, old, i, u), NEW h \in Entries, NEW k \in Entries,
         h # k, CanMerge(u, h, k), StillFree(u, h), StillFree(u, k), Has(s, h, "FREE"), Has(s, k, "FREE"),
         Seen(old, i, h), Seen(old, i, k), NEW v, v = MergeOf(u, h, k)
  PROVE  StillGood(s, old, i, v) /\ StillFree(v, h) /\ MergedIn(v, k)
<1>1. u \in StateType
  BY DEF StillGood
<1>2. /\ v \in StateType /\ v.heap = u.heap /\ v.free = RemoveFirst(u.free, k)
      /\ v.lru = u.lru /\ v.segs = u.segs /\ v.room = u.room
      /\ \A n : n \in v.unused <=> n \in u.unused \/ n = k
      /\ v.ent[k] = UnusedEntry
      /\ v.ent[h].flg = u.ent[h].flg /\ v.ent[h].locks = u.ent[h].locks
      /\ v.ent[h].seg = u.ent[h].seg /\ v.ent[h].siz = u.ent[h].siz + u.ent[k].siz
      /\ \A n \in Entries : n # h /\ n # k => v.ent[n] = u.ent[n]
  <2>1. MergedHeaders(u, h, k, v)
    BY <1>1, MergedFacts
  <2> QED BY <2>1, Zenon DEF MergedHeaders
<1>3. StillFree(v, h)
  <2>1. u.ent[h].siz \in Nat /\ u.ent[k].siz \in Nat
    BY <1>1, EntryFields, ConstFacts
  <2>2. u.ent[h].siz > 0
    BY DEF StillFree
  <2>3. u.ent[h].siz + u.ent[k].siz > 0
    BY <2>1, <2>2
  <2> QED BY <1>2, <2>3 DEF StillFree
<1>4. MergedIn(v, k)
  BY <1>2 DEF MergedIn
<1>5. ListOf(v.ent, v.free, "FREE")
  <2>1. ListOf(u.ent, u.free, "FREE") /\ u.free \in Seq(Entries)
    BY <1>1, StateFields DEF StillGood
  <2>2. FlagStays(u.ent, v.ent, "FREE", k)
    <3> SUFFICES ASSUME NEW n \in Entries, n # k PROVE "FREE" \in v.ent[n].flg <=> "FREE" \in u.ent[n].flg
      BY DEF FlagStays
    <3>1. v.ent[n].flg = u.ent[n].flg
      BY <1>2
    <3> QED BY <3>1
  <2>3. "FREE" \notin v.ent[k].flg
    BY <1>2, UnusedEntryFacts
  <2>4. ListOf(v.ent, RemoveFirst(u.free, k), "FREE")
    BY <2>1, <2>2, <2>3, ListDrop
  <2> QED BY <1>2, <2>4
<1>6. ASSUME NEW n \in Entries
      PROVE  IF Has(s, n, "FREE") /\ Seen(old, i, n) THEN StillFree(v, n) \/ MergedIn(v, n)
             ELSE SameUse(s, v, n)
  <2>1. CASE n = h \/ n = k
    BY <1>3, <1>4, <2>1
  <2>2. CASE n # h /\ n # k
    <3>1. v.ent[n] = u.ent[n] /\ (n \in v.unused <=> n \in u.unused)
      BY <1>2, <2>2
    <3>2. IF Has(s, n, "FREE") /\ Seen(old, i, n) THEN StillFree(u, n) \/ MergedIn(u, n)
          ELSE SameUse(s, u, n)
      BY Zenon DEF StillGood
    <3> QED BY <3>1, <3>2 DEF StillFree, MergedIn, SameUse
  <2> QED BY <2>1, <2>2
<1>7. v.heap = s.heap /\ v.lru = s.lru /\ v.segs = s.segs /\ v.room = s.room
  BY <1>2 DEF StillGood
<1> QED BY <1>2, <1>3, <1>4, <1>5, <1>6, <1>7, Zenon DEF StillGood

PartsMove(a, y) ==
  /\ y.done = a.done /\ y.moved = a.moved \o a.above /\ y.hole = a.hole
  /\ a.hole # NoEntry /\ y.above = << >>
SizesMove(a, y, siz) ==
  /\ SizeOfBlocks(y.m, a.done) = SizeOfBlocks(a.m, a.done)
  /\ SizeOfBlocks(y.m, a.moved) = SizeOfBlocks(a.m, a.moved)
  /\ SizeOfBlocks(y.m, a.above) = SizeOfBlocks(a.m, a.above)
  /\ y.m.ent[a.hole].siz = a.m.ent[a.hole].siz + siz /\ a.m.ent[a.hole].siz \in Nat

\* Lemma: what lay between the two free blocks moves below them.
LEMMA MergeShape ==
  ASSUME NEW a \in AccType, NEW y \in AccType, PartsMove(a, y), Distinct(Flush(a))
  PROVE  Distinct(Flush(y)) /\ \A x : In(x, Flush(y)) <=> In(x, Flush(a))
<1>1. PICK d : d = a.done
  OBVIOUS
<1>2. PICK v : v = a.moved
  OBVIOUS
<1>3. PICK w : w = a.above
  OBVIOUS
<1>4. PICK h : h = HoleOf(a.hole)
  OBVIOUS
<1>5. d \in Seq(BlockType) /\ v \in Seq(BlockType) /\ w \in Seq(BlockType) /\ h \in Seq(BlockType)
  BY <1>1, <1>2, <1>3, <1>4, FlushParts
<1>6. PICK p : p = d \o v
  OBVIOUS
<1>7. p \in Seq(BlockType)
  BY <1>5, <1>6, InCat
<1>8. PICK f : f = (p \o h) \o w
  OBVIOUS
<1>9. Flush(a) = f
  BY <1>1, <1>2, <1>3, <1>4, <1>6, <1>8, FlushParts
<1>10. PICK g : g = (p \o w) \o h
  OBVIOUS
<1>11. /\ g \in Seq(BlockType)
       /\ \A x : In(x, g) <=> In(x, f)
       /\ Distinct(f) => Distinct(g)
  BY <1>5, <1>7, <1>8, <1>10, SwapTail
<1>12. (d \o v) \o w = d \o (v \o w)
  <2>1. d \in Seq(BlockType)
    BY <1>5
  <2>2. v \in Seq(BlockType)
    BY <1>5
  <2>3. w \in Seq(BlockType)
    BY <1>5
  <2> QED BY <2>1, <2>2, <2>3, CatAgain
<1>13. Flush(y) = ((d \o (v \o w)) \o h) \o << >>
  BY <1>1, <1>2, <1>3, <1>4, FlushParts DEF PartsMove
<1>14. Flush(y) = g \o << >>
  BY <1>6, <1>10, <1>12, <1>13
<1>15. Flush(y) = g
  BY <1>11, <1>14, CatSmall
<1> QED BY <1>9, <1>11, <1>15

\* Lemma: and the sum of the sizes stays.
LEMMA MergeSum ==
  ASSUME NEW a \in AccType, NEW y \in AccType, PartsMove(a, y), NEW siz \in Nat,
         SizesMove(a, y, siz)
  PROVE  SizeOfBlocks(y.m, Flush(y)) = SizeOfParts(a.m, a) + siz
<1>u. PICK u : u = a.m
  OBVIOUS
<1>v. PICK v : v = y.m
  OBVIOUS
<1>a. /\ y.done = a.done /\ y.moved = a.moved \o a.above /\ y.hole = a.hole
      /\ a.hole # NoEntry /\ y.above = << >>
  BY DEF PartsMove
<1>b. /\ SizeOfBlocks(v, a.done) = SizeOfBlocks(u, a.done)
      /\ SizeOfBlocks(v, a.moved) = SizeOfBlocks(u, a.moved)
      /\ SizeOfBlocks(v, a.above) = SizeOfBlocks(u, a.above)
      /\ v.ent[a.hole].siz = u.ent[a.hole].siz + siz /\ u.ent[a.hole].siz \in Nat
  BY <1>u, <1>v DEF SizesMove
<1>1. u \in StateType /\ v \in StateType
  BY <1>u, <1>v, FlushParts
<1>2. PICK p : p = a.moved
  OBVIOUS
<1>3. PICK w : w = a.above
  OBVIOUS
<1>4. p \in Seq(BlockType) /\ w \in Seq(BlockType)
  BY <1>2, <1>3, FlushParts
<1>5. y.moved = p \o w
  BY <1>2, <1>3, <1>a
<1>6. /\ SizeOfBlocks(v, y.moved) = SizeOfBlocks(v, p) + SizeOfBlocks(v, w)
      /\ SizeOfBlocks(v, p) \in Nat /\ SizeOfBlocks(v, w) \in Nat
  BY <1>1, <1>4, <1>5, SumCat
<1>7. SizeOfBlocks(v, << >>) = 0
  <2>1. SizesOf(v, << >>) = << >>
    BY DEF SizesOf
  <2> QED BY <2>1, TotalEmpty DEF SizeOfBlocks
<1>8. SizeOfBlocks(v, Flush(y)) = SizeOfParts(v, y) /\ SizeOfBlocks(v, y.done) \in Nat
  BY <1>1, FlushFacts
<1>9. SizeOfParts(v, y) =
        ((SizeOfBlocks(v, y.done) + SizeOfBlocks(v, y.moved)) + v.ent[a.hole].siz) + SizeOfBlocks(v, << >>)
  BY <1>a, Zenon DEF SizeOfParts
<1>10. SizeOfParts(u, a) =
         ((SizeOfBlocks(u, a.done) + SizeOfBlocks(u, p)) + u.ent[a.hole].siz) + SizeOfBlocks(u, w)
  BY <1>2, <1>3, <1>a, Zenon DEF SizeOfParts
<1>11. PICK x1 \in Nat, x2 \in Nat, x3 \in Nat : /\ x1 = SizeOfBlocks(v, y.done)
                                               /\ x2 = SizeOfBlocks(v, p)
                                               /\ x3 = SizeOfBlocks(v, w)
  BY <1>6, <1>8
<1>12. SizeOfBlocks(u, a.done) = x1 /\ SizeOfBlocks(u, p) = x2 /\ SizeOfBlocks(u, w) = x3
  BY <1>2, <1>3, <1>11, <1>a, <1>b
<1>13. SizeOfParts(u, a) = ((x1 + x2) + u.ent[a.hole].siz) + x3
  BY <1>10, <1>12
<1>14. SizeOfParts(v, y) = ((x1 + (x2 + x3)) + (u.ent[a.hole].siz + siz)) + 0
  BY <1>6, <1>7, <1>9, <1>11, <1>b
<1>15. \A a1, a2, a3, a4, a5 \in Nat :
         ((a1 + (a2 + a3)) + (a4 + a5)) + 0 = (((a1 + a2) + a4) + a3) + a5
  OBVIOUS
<1> QED BY <1>8, <1>13, <1>14, <1>15, <1>u, <1>v, <1>b

MergeAll(a, k) ==
  [a EXCEPT !.m = MergeOf(a.m, a.hole, k), !.moved = @ \o a.above, !.above = << >>]

\* Lemma: a free block above another.
LEMMA GatherMerge ==
  ASSUME NEW s, NEW old, NEW o, OldGood(s, old, o), NEW i \in 1 .. Len(old), NEW a,
         Gathered(s, old, o, i - 1, a), a.hole # NoEntry, Has(a.m, old[i].num, "FREE"),
         NEW y, y = MergeAll(a, old[i].num)
  PROVE  Gathered(s, old, o, i, y)
<1>1. PICK k : k = old[i].num
  OBVIOUS
<1>2. PICK h : h = a.hole
  OBVIOUS
<1>3. PICK u : u = a.m
  OBVIOUS
<1>4. PICK v : v = MergeOf(u, h, k)
  OBVIOUS
<1>5. PICK f : f = Flush(a)
  OBVIOUS
<1>6. /\ a \in AccType /\ StillGood(s, old, i - 1, u) /\ PiecesGood(s, old, i - 1, u, f)
      /\ PartsGood(s, a)
  BY <1>3, <1>5, Zenon DEF Gathered
<1>7. old \in Seq(BlockType) /\ Distinct(old)
  BY DEF OldGood
<1>8. /\ \A n : Seen(old, i, n) <=> Seen(old, i - 1, n) \/ n = k
      /\ ~Seen(old, i - 1, k)
  BY <1>1, <1>7, SeenNext
<1>9. OldBlock(s, k) /\ SameUse(s, u, k) /\ StillGood(s, old, i, u) /\ (Has(s, k, "FREE") => StillFree(u, k))
  BY <1>1, <1>6, StillNext
<1>10. k \in Entries /\ Has(s, k, "FREE") /\ StillFree(u, k)
  BY <1>1, <1>3, <1>9 DEF Has, SameUse, OldBlock
<1>11. Has(s, h, "FREE") /\ ~Has(s, h, "LOCK") /\ StillFree(u, h) /\ LocksIn(s, u, a.done)
       /\ Unlocked(s, a.moved) /\ Unlocked(s, a.above)
  BY <1>2, <1>3, <1>6 DEF PartsGood
<1>12. /\ Seen(old, i - 1, h)
       /\ \A x : In(x, a.done) \/ In(x, a.moved) \/ In(x, a.above) => x.num # h
       /\ \A x : In(x, f) => Seen(old, i - 1, x.num)
  BY <1>2, <1>3, <1>5, <1>6, HoleOnce
<1>13. h # k /\ Seen(old, i, h) /\ Seen(old, i, k)
  BY <1>8, <1>12
<1>14. u.ent[k] = s.ent[k]
  BY <1>9 DEF SameUse
<1>15. PICK siz : siz = u.ent[k].siz
  OBVIOUS
<1>16. /\ u.ent[h].siz + siz <= Chunk /\ u.ent[h].siz \in Nat /\ siz \in Nat
       /\ SizeOfParts(u, a) + siz = o[i] /\ h \in Entries
  <2>1. siz = s.ent[old[i].num].siz
    BY <1>1, <1>14, <1>15
  <2> QED BY <1>2, <1>3, <2>1, HoleFits
<1>17. u \in StateType /\ ListOf(u.ent, u.free, "FREE")
  BY <1>6 DEF StillGood
<1>18. CanMerge(u, h, k)
  <2>1. u.free \in Seq(Entries) /\ IsInjective(u.free)
    BY <1>17, StateFields DEF ListOf
  <2>2. RemoveFirst(u.free, k) \in Seq(Entries)
    BY <2>1, RemoveFirstFacts
  <2> QED BY <1>15, <1>16, <2>2 DEF CanMerge
<1>19. MergedHeaders(u, h, k, v)
  BY <1>4, <1>10, <1>13, <1>16, <1>17, <1>18, MergedFacts
<1>20. StillGood(s, old, i, v) /\ StillFree(v, h) /\ MergedIn(v, k)
  BY <1>4, <1>9, <1>10, <1>11, <1>13, <1>16, <1>18, MergeStill
<1>21. /\ v \in StateType /\ v.ent[k] = UnusedEntry /\ v.ent[h].flg = u.ent[h].flg
       /\ v.ent[h].siz = u.ent[h].siz + siz
       /\ \A n \in Entries : n # h /\ n # k => v.ent[n] = u.ent[n]
  BY <1>15, <1>19, Zenon DEF MergedHeaders
<1>22. /\ a.done \in Seq(BlockType) /\ a.moved \in Seq(BlockType) /\ a.above \in Seq(BlockType)
       /\ a.moved \o a.above \in Seq(BlockType) /\ f \in Seq(BlockType)
  <2>1. a.done \in Seq(BlockType) /\ a.moved \in Seq(BlockType) /\ a.above \in Seq(BlockType)
        /\ f \in Seq(BlockType)
    BY <1>5, <1>6, FlushParts
  <2> QED BY <2>1, CatFacts
<1>23. /\ y \in AccType /\ y.m = v /\ y.done = a.done /\ y.moved = a.moved \o a.above
       /\ y.hole = h /\ y.above = << >>
  <2>1. << >> \in Seq(BlockType)
    BY NoBlock
  <2>2. y = [a EXCEPT !.m = v, !.moved = a.moved \o a.above, !.above = << >>]
    BY <1>1, <1>2, <1>3, <1>4 DEF MergeAll
  <2> QED BY <1>2, <1>6, <1>21, <1>22, <2>1, <2>2 DEF AccType
<1>24. PICK g : g = Flush(y)
  OBVIOUS
<1>25. Distinct(f) /\ (\A x : In(x, f) => InMemory(u.ent[x.num]) /\ FromOld(s, old, i - 1, x))
       /\ \A j \in 1 .. (i - 1) : InMemory(u.ent[old[j].num]) => \E x : In(x, f) /\ x.num = old[j].num
  BY <1>6, Zenon DEF PiecesGood
<1>26. Distinct(g) /\ \A x : In(x, g) <=> In(x, f)
  <2>1. PartsMove(a, y)
    BY <1>2, <1>23 DEF PartsMove
  <2> QED BY <1>5, <1>6, <1>23, <1>24, <1>25, <2>1, MergeShape
<1>27. \A x : In(x, a.done) \/ In(x, a.moved) \/ In(x, a.above) => In(x, f)
  BY <1>5, <1>6, <1>17, FlushFacts, Zenon DEF InParts
<1>28. \A x : In(x, a.done) \/ In(x, a.moved) \/ In(x, a.above) => x.num # h /\ x.num # k
  BY <1>8, <1>12, <1>27, Zenon
<1>29. /\ SizeOfBlocks(v, a.done) = SizeOfBlocks(u, a.done)
       /\ \A x : In(x, a.done) => v.ent[x.num].siz = u.ent[x.num].siz
  <2>1. PICK q : q = a.done
    OBVIOUS
  <2>2. q \in Seq(BlockType)
    BY <1>22, <2>1
  <2>3. Avoids(q, h, k)
    BY <1>28, <2>1, Zenon DEF Avoids
  <2>4. SameBut(u, v, h, k)
    BY <1>21, Zenon DEF SameBut
  <2>5. SameSizes(u, v, q)
    BY <2>2, <2>3, <2>4, SameSum
  <2> QED BY <2>1, <2>5, Zenon DEF SameSizes
<1>30. SizeOfBlocks(v, a.moved) = SizeOfBlocks(u, a.moved)
  <2>1. PICK q : q = a.moved
    OBVIOUS
  <2>2. q \in Seq(BlockType)
    BY <1>22, <2>1
  <2>3. Avoids(q, h, k)
    BY <1>28, <2>1, Zenon DEF Avoids
  <2>4. SameBut(u, v, h, k)
    BY <1>21, Zenon DEF SameBut
  <2>5. SameSizes(u, v, q)
    BY <2>2, <2>3, <2>4, SameSum
  <2> QED BY <2>1, <2>5, Zenon DEF SameSizes
<1>31. SizeOfBlocks(v, a.above) = SizeOfBlocks(u, a.above)
  <2>1. PICK q : q = a.above
    OBVIOUS
  <2>2. q \in Seq(BlockType)
    BY <1>22, <2>1
  <2>3. Avoids(q, h, k)
    BY <1>28, <2>1, Zenon DEF Avoids
  <2>4. SameBut(u, v, h, k)
    BY <1>21, Zenon DEF SameBut
  <2>5. SameSizes(u, v, q)
    BY <2>2, <2>3, <2>4, SameSum
  <2> QED BY <2>1, <2>5, Zenon DEF SameSizes
<1>32. SizeOfBlocks(v, g) = o[i]
  <2>1. SizeOfBlocks(v, g) = SizeOfParts(u, a) + siz
    <3>1. PartsMove(a, y)
      BY <1>2, <1>23 DEF PartsMove
    <3>2. v.ent[a.hole].siz = u.ent[a.hole].siz + siz /\ u.ent[a.hole].siz \in Nat
      BY <1>2, <1>16, <1>21
    <3>3. SizesMove(a, y, siz)
      BY <1>3, <1>23, <1>29, <1>30, <1>31, <3>2, Zenon DEF SizesMove
    <3>4. y \in AccType /\ y.m = v /\ a.m = u
      BY <1>3, <1>23
    <3>5. SizeOfBlocks(y.m, Flush(y)) = SizeOfParts(a.m, a) + siz
      BY <1>6, <1>16, <3>1, <3>3, <3>4, MergeSum
    <3> QED BY <1>24, <3>4, <3>5
  <2> QED BY <1>16, <2>1
<1>33. LocksIn(s, v, a.done)
  BY <1>11, <1>17, <1>21, <1>22, <1>29, LocksSame
<1>34. Unlocked(s, a.moved \o a.above)
  <2>1. PICK p : p = a.moved
    OBVIOUS
  <2>2. PICK w : w = a.above
    OBVIOUS
  <2>3. p \in Seq(BlockType) /\ w \in Seq(BlockType)
    BY <1>22, <2>1, <2>2
  <2>4. PICK r : r = p \o w
    OBVIOUS
  <2>5. \A x : In(x, r) <=> In(x, p) \/ In(x, w)
    BY <2>3, <2>4, InCat
  <2> QED BY <1>11, <2>1, <2>2, <2>4, <2>5, Zenon DEF Unlocked
<1>35. PartsGood(s, y)
  <2>1. h # NoEntry /\ Unlocked(s, << >>)
    BY <1>2, UnlockedFacts
  <2> QED BY <1>11, <1>20, <1>23, <1>33, <1>34, <2>1, Zenon DEF PartsGood
<1>36. \A j : j \in 1 .. i <=> j \in 1 .. (i - 1) \/ j = i
  <2>1. Len(old) \in Nat
    BY <1>7
  <2> QED BY <2>1
<1>37. ASSUME NEW x, In(x, g) PROVE InMemory(v.ent[x.num]) /\ FromOld(s, old, i, x)
  <2>1. In(x, f) /\ InMemory(u.ent[x.num]) /\ FromOld(s, old, i - 1, x) /\ x.num # k
    BY <1>8, <1>12, <1>25, <1>26, <1>37
  <2>2. x.num \in Entries
    <3>1. \A j \in 1 .. Len(f) : f[j] \in BlockType
      BY <1>22
    <3> QED BY <2>1, <3>1 DEF In, BlockType
  <2>3. v.ent[x.num].flg = u.ent[x.num].flg
    BY <1>21, <2>1, <2>2
  <2>4. FromOld(s, old, i, x)
    BY <1>36, <2>1, Zenon DEF FromOld
  <2> QED BY <2>1, <2>3, <2>4 DEF InMemory
<1>38. ASSUME NEW j \in 1 .. i, InMemory(v.ent[old[j].num])
       PROVE  \E x : In(x, g) /\ x.num = old[j].num
  <2>1. old[j].num \in Entries
    <3>1. j \in 1 .. Len(old)
      BY <1>7
    <3> QED BY <3>1 DEF OldGood, OldBlock
  <2>2. old[j].num # k
    BY <1>21, <1>38, UnusedEntryFacts DEF InMemory
  <2>3. j \in 1 .. (i - 1)
    BY <1>1, <1>36, <2>2
  <2>4. u.ent[old[j].num].flg = v.ent[old[j].num].flg
    BY <1>21, <2>1, <2>2
  <2>5. InMemory(u.ent[old[j].num])
    BY <1>38, <2>4 DEF InMemory
  <2>6. \E x : In(x, f) /\ x.num = old[j].num
    BY <1>25, <2>3, <2>5
  <2> QED BY <1>26, <2>6
<1>39. g \in Seq(BlockType)
  BY <1>23, <1>24, FlushParts
<1>40. PiecesGood(s, old, i, v, g)
  BY <1>26, <1>37, <1>38, <1>39 DEF PiecesGood
<1> QED BY <1>20, <1>23, <1>24, <1>32, <1>35, <1>40, Zenon DEF Gathered

-----------------------------------------------------------------------------
\* Free blocks that are gathered.

\* After a garbage collection there is a locked block between any two free ones.
FreeAt(s, q, i) == Has(s, q[i].num, "FREE")
LockAt(s, q, i) == Has(s, q[i].num, "LOCK")
Tight(s, q) ==
  \A i, j \in 1 .. Len(q) : i < j /\ FreeAt(s, q, i) /\ FreeAt(s, q, j) => \E k \in i .. j : LockAt(s, q, k)

\* A locked block follows every free one; there is at most one free block; none.
Closed(s, q)  == \A i \in 1 .. Len(q) : FreeAt(s, q, i) => \E k \in i .. Len(q) : LockAt(s, q, k)
OneFree(s, q) == \A i, j \in 1 .. Len(q) : FreeAt(s, q, i) /\ FreeAt(s, q, j) => i = j
NoFree(s, q)  == \A i \in 1 .. Len(q) : ~FreeAt(s, q, i)

\* The positions of a concatenation r.
Joined(p, q, r) ==
  /\ Len(r) = Len(p) + Len(q) /\ Len(p) \in Nat /\ Len(q) \in Nat
  /\ \A i \in 1 .. Len(p) : i \in 1 .. Len(r) /\ r[i] = p[i]
  /\ \A i \in 1 .. Len(r) : \/ i \in 1 .. Len(p) /\ r[i] = p[i]
                            \/ i > Len(p) /\ \E j \in 1 .. Len(q) : i = Len(p) + j /\ r[i] = q[j]

\* Lemma: they are those of its parts.
LEMMA CatPositions ==
  ASSUME NEW S, NEW p \in Seq(S), NEW q \in Seq(S), NEW r, r = p \o q
  PROVE  Joined(p, q, r)
<1>1. r \in Seq(S) /\ Len(r) = Len(p) + Len(q) /\ Len(p) \in Nat /\ Len(q) \in Nat
  OBVIOUS
<1>2. (\A i \in 1 .. Len(p) : r[i] = p[i]) /\ \A j \in 1 .. Len(q) : r[Len(p) + j] = q[j]
  BY CatFacts
<1>3. PICK a \in Nat, b \in Nat : a = Len(p) /\ b = Len(q)
  BY <1>1
<1>4. \A i \in 1 .. a : i \in 1 .. a + b
  OBVIOUS
<1>5. ASSUME NEW i \in 1 .. a + b, ~(i \in 1 .. a)
      PROVE  i > a /\ \E j \in 1 .. b : i = a + j /\ r[i] = q[j]
  <2>1. i - a \in 1 .. b /\ i = a + (i - a) /\ i > a
    BY <1>5
  <2>2. PICK j \in 1 .. b : i = a + j
    BY <2>1
  <2>3. r[a + j] = q[j]
    BY <1>2, <1>3
  <2> QED BY <2>1, <2>2, <2>3
<1> QED BY <1>1, <1>2, <1>3, <1>4, <1>5 DEF Joined

\* Lemma: behind blocks that end with a lock, as far as free blocks go, there
\* may be one free block.
LEMMA TightCat ==
  ASSUME NEW s, NEW p \in Seq(BlockType), NEW q \in Seq(BlockType), Tight(s, p), Closed(s, p),
         OneFree(s, q), NEW r, r = p \o q
  PROVE  Tight(s, r)
<1>1. /\ Len(r) = Len(p) + Len(q) /\ Len(p) \in Nat /\ Len(q) \in Nat
      /\ \A i \in 1 .. Len(p) : i \in 1 .. Len(r) /\ r[i] = p[i]
      /\ \A i \in 1 .. Len(r) : \/ i \in 1 .. Len(p) /\ r[i] = p[i]
                                \/ i > Len(p) /\ \E j \in 1 .. Len(q) : i = Len(p) + j /\ r[i] = q[j]
  <2>1. Joined(p, q, r)
    BY CatPositions
  <2> QED BY <2>1, Zenon DEF Joined
<1>2. ASSUME NEW i \in 1 .. Len(r), NEW j \in 1 .. Len(r), i < j, FreeAt(s, r, i), FreeAt(s, r, j)
      PROVE  \E k \in i .. j : LockAt(s, r, k)
  <2>1. CASE i \in 1 .. Len(p) /\ j \in 1 .. Len(p)
    <3>1. FreeAt(s, p, i) /\ FreeAt(s, p, j)
      BY <1>1, <1>2, <2>1 DEF FreeAt
    <3>2. PICK k \in i .. j : LockAt(s, p, k)
      BY <1>2, <2>1, <3>1 DEF Tight
    <3>3. k \in 1 .. Len(p)
      BY <1>1, <2>1
    <3> QED BY <1>1, <3>2, <3>3 DEF LockAt
  <2>2. CASE i \in 1 .. Len(p) /\ j > Len(p)
    <3>1. FreeAt(s, p, i)
      BY <1>1, <1>2, <2>2 DEF FreeAt
    <3>2. PICK k \in i .. Len(p) : LockAt(s, p, k)
      BY <2>2, <3>1 DEF Closed
    <3>3. k \in 1 .. Len(p) /\ k \in i .. j
      BY <1>1, <2>2
    <3> QED BY <1>1, <3>2, <3>3 DEF LockAt
  <2>3. CASE i > Len(p)
    <3>1. ~(i \in 1 .. Len(p)) /\ ~(j \in 1 .. Len(p))
      BY <1>1, <1>2, <2>3
    <3>2. PICK x \in 1 .. Len(q) : i = Len(p) + x /\ r[i] = q[x]
      BY <1>1, <3>1
    <3>3. PICK y \in 1 .. Len(q) : j = Len(p) + y /\ r[j] = q[y]
      BY <1>1, <3>1
    <3>4. FreeAt(s, q, x) /\ FreeAt(s, q, y)
      BY <1>2, <3>2, <3>3 DEF FreeAt
    <3>5. x = y
      BY <3>4 DEF OneFree
    <3> QED BY <1>1, <1>2, <3>2, <3>3, <3>5
  <2> QED BY <1>1, <2>1, <2>2, <2>3
<1> QED BY <1>2 DEF Tight

\* Lemma: and blocks that are not free, wherever the locks are.
LEMMA TightOn ==
  ASSUME NEW s, NEW p \in Seq(BlockType), NEW q \in Seq(BlockType), Tight(s, p), NoFree(s, q),
         NEW r, r = p \o q
  PROVE  Tight(s, r)
<1>1. /\ Len(r) = Len(p) + Len(q) /\ Len(p) \in Nat /\ Len(q) \in Nat
      /\ \A i \in 1 .. Len(p) : i \in 1 .. Len(r) /\ r[i] = p[i]
      /\ \A i \in 1 .. Len(r) : \/ i \in 1 .. Len(p) /\ r[i] = p[i]
                                \/ i > Len(p) /\ \E j \in 1 .. Len(q) : i = Len(p) + j /\ r[i] = q[j]
  <2>1. Joined(p, q, r)
    BY CatPositions
  <2> QED BY <2>1, Zenon DEF Joined
<1>2. ASSUME NEW i \in 1 .. Len(r), FreeAt(s, r, i) PROVE i \in 1 .. Len(p) /\ FreeAt(s, p, i)
  <2>1. CASE i \in 1 .. Len(p) /\ r[i] = p[i]
    BY <1>2, <2>1 DEF FreeAt
  <2>2. ASSUME NEW j \in 1 .. Len(q), r[i] = q[j] PROVE FALSE
    <3>1. FreeAt(s, q, j)
      BY <1>2, <2>2 DEF FreeAt
    <3> QED BY <3>1 DEF NoFree
  <2> QED BY <1>1, <2>1, <2>2
<1>3. ASSUME NEW i \in 1 .. Len(r), NEW j \in 1 .. Len(r), i < j, FreeAt(s, r, i), FreeAt(s, r, j)
      PROVE  \E k \in i .. j : LockAt(s, r, k)
  <2>1. /\ i \in 1 .. Len(p) /\ j \in 1 .. Len(p) /\ FreeAt(s, p, i) /\ FreeAt(s, p, j)
    BY <1>2, <1>3
  <2>2. PICK k \in i .. j : LockAt(s, p, k)
    BY <1>3, <2>1 DEF Tight
  <2>3. k \in 1 .. Len(p)
    BY <1>1, <2>1
  <2> QED BY <1>1, <2>2, <2>3 DEF LockAt
<1> QED BY <1>3 DEF Tight

\* Lemma: the same of Closed and of NoFree.
LEMMA ClosedOn ==
  ASSUME NEW s, NEW p \in Seq(BlockType), NEW q \in Seq(BlockType), NoFree(s, q), NEW r, r = p \o q
  PROVE  /\ Closed(s, p) => Closed(s, r)
         /\ NoFree(s, p) => NoFree(s, r)
<1>1. /\ Len(r) = Len(p) + Len(q) /\ Len(p) \in Nat /\ Len(q) \in Nat
      /\ \A i \in 1 .. Len(p) : i \in 1 .. Len(r) /\ r[i] = p[i]
      /\ \A i \in 1 .. Len(r) : \/ i \in 1 .. Len(p) /\ r[i] = p[i]
                                \/ i > Len(p) /\ \E j \in 1 .. Len(q) : i = Len(p) + j /\ r[i] = q[j]
  <2>1. Joined(p, q, r)
    BY CatPositions
  <2> QED BY <2>1, Zenon DEF Joined
<1>2. ASSUME NEW i \in 1 .. Len(r), FreeAt(s, r, i) PROVE i \in 1 .. Len(p) /\ FreeAt(s, p, i)
  <2>1. CASE i \in 1 .. Len(p) /\ r[i] = p[i]
    BY <1>2, <2>1 DEF FreeAt
  <2>2. ASSUME NEW j \in 1 .. Len(q), r[i] = q[j] PROVE FALSE
    <3>1. FreeAt(s, q, j)
      BY <1>2, <2>2 DEF FreeAt
    <3> QED BY <3>1 DEF NoFree
  <2> QED BY <1>1, <2>1, <2>2
<1>3. NoFree(s, p) => NoFree(s, r)
  BY <1>2 DEF NoFree
<1>4. ASSUME Closed(s, p), NEW i \in 1 .. Len(r), FreeAt(s, r, i) PROVE \E k \in i .. Len(r) : LockAt(s, r, k)
  <2>1. i \in 1 .. Len(p) /\ FreeAt(s, p, i)
    BY <1>2, <1>4
  <2>2. PICK k \in i .. Len(p) : LockAt(s, p, k)
    BY <1>4, <2>1 DEF Closed
  <2>3. k \in 1 .. Len(p) /\ k \in i .. Len(r)
    BY <1>1, <2>1
  <2> QED BY <1>1, <2>2, <2>3 DEF LockAt
<1>5. Closed(s, p) => Closed(s, r)
  BY <1>4 DEF Closed
<1> QED BY <1>3, <1>5

\* Lemma: a locked block closes what is before it.
LEMMA ClosedByLock ==
  ASSUME NEW s, NEW p \in Seq(BlockType), NEW b \in BlockType, Tight(s, p), Has(s, b.num, "LOCK"),
         ~Has(s, b.num, "FREE"), NEW r, r = Append(p, b)
  PROVE  Tight(s, r) /\ Closed(s, r)
<1>1. PICK q : q = <<b>>
  OBVIOUS
<1>2. q \in Seq(BlockType) /\ Len(q) = 1 /\ q[1] = b
  BY <1>1
<1>3. r = p \o q
  BY <1>1
<1>4. NoFree(s, q)
  BY <1>2 DEF NoFree, FreeAt
<1>5. Tight(s, r)
  BY <1>2, <1>3, <1>4, TightOn
<1>6. Len(r) \in Nat /\ Len(r) \in 1 .. Len(r) /\ r[Len(r)] = b
  OBVIOUS
<1>7. LockAt(s, r, Len(r))
  BY <1>6 DEF LockAt
<1>8. \A i \in 1 .. Len(r) : Len(r) \in i .. Len(r)
  BY <1>6
<1>9. Closed(s, r)
  BY <1>7, <1>8 DEF Closed
<1> QED BY <1>5, <1>9

\* Lemma: nothing is tight, closed and without free blocks.
LEMMA TightNothing ==
  ASSUME NEW s
  PROVE  Tight(s, << >>) /\ Closed(s, << >>) /\ NoFree(s, << >>)
<1>1. \A i : ~(i \in 1 .. Len(<< >>))
  OBVIOUS
<1> QED BY <1>1 DEF Tight, Closed, NoFree

\* Lemma: one block more that is not free.
LEMMA NoFreeAppend ==
  ASSUME NEW s, NEW p \in Seq(BlockType), NEW b \in BlockType, ~Has(s, b.num, "FREE")
  PROVE  /\ Tight(s, p) => Tight(s, Append(p, b))
         /\ Closed(s, p) => Closed(s, Append(p, b))
         /\ NoFree(s, p) => NoFree(s, Append(p, b))
<1>1. PICK q : q = <<b>>
  OBVIOUS
<1>2. q \in Seq(BlockType) /\ Len(q) = 1 /\ q[1] = b
  BY <1>1
<1>3. Append(p, b) = p \o q
  BY <1>1
<1>4. NoFree(s, q)
  BY <1>2 DEF NoFree, FreeAt
<1> QED BY <1>2, <1>3, <1>4, TightOn, ClosedOn

\* The parts that Gather has made of the blocks so far: whatever is free has
\* become the hole, or has a locked block behind it.
TightParts(s, a) ==
  Tight(s, a.done) /\ Closed(s, a.done) /\ NoFree(s, a.moved) /\ NoFree(s, a.above)

\* Lemma: so it is in the chunk they are put together to.
LEMMA FlushTight ==
  ASSUME NEW s, NEW a \in AccType, TightParts(s, a), NEW f, f = Flush(a)
  PROVE  Tight(s, f)
<1>1. PICK d : d = a.done
  OBVIOUS
<1>2. PICK v : v = a.moved
  OBVIOUS
<1>3. PICK w : w = a.above
  OBVIOUS
<1>4. PICK h : h = HoleOf(a.hole)
  OBVIOUS
<1>5. d \in Seq(BlockType) /\ v \in Seq(BlockType) /\ w \in Seq(BlockType) /\ h \in Seq(BlockType)
      /\ f = ((d \o v) \o h) \o w
  BY <1>1, <1>2, <1>3, <1>4, FlushParts
<1>6. Tight(s, d) /\ Closed(s, d) /\ NoFree(s, v) /\ NoFree(s, w)
  BY <1>1, <1>2, <1>3, Zenon DEF TightParts
<1>7. PICK x : x = d \o v
  OBVIOUS
<1>8. x \in Seq(BlockType) /\ Tight(s, x) /\ Closed(s, x)
  <2>1. x \in Seq(BlockType)
    BY <1>5, <1>7
  <2> QED BY <1>5, <1>6, <1>7, <2>1, TightOn, ClosedOn
<1>9. OneFree(s, h)
  <2>1. Len(h) = 0 \/ Len(h) = 1
    BY <1>4 DEF HoleOf
  <2>2. \A i, j \in 1 .. Len(h) : i = j
    <3>1. PICK k : k = Len(h)
      OBVIOUS
    <3>2. ASSUME NEW i \in 1 .. k, NEW j \in 1 .. k PROVE i = j
      BY <2>1, <3>1, <3>2
    <3> QED BY <3>1, <3>2
  <2> QED BY <2>2 DEF OneFree
<1>10. PICK y : y = x \o h
  OBVIOUS
<1>11. y \in Seq(BlockType) /\ Tight(s, y)
  <2>1. y \in Seq(BlockType)
    BY <1>5, <1>8, <1>10
  <2> QED BY <1>5, <1>8, <1>9, <1>10, <2>1, TightCat
<1>12. f = y \o w
  BY <1>5, <1>7, <1>10
<1> QED BY <1>5, <1>6, <1>11, <1>12, TightOn

\* Blocks have the same flags in both states.
SameFlags(s, t, q) ==
  \A i \in 1 .. Len(q) : (FreeAt(t, q, i) <=> FreeAt(s, q, i)) /\ (LockAt(t, q, i) <=> LockAt(s, q, i))

\* Lemma: they are as tight there.
LEMMA TightSame ==
  ASSUME NEW s, NEW t, NEW q \in Seq(BlockType), SameFlags(s, t, q), Tight(s, q)
  PROVE  Tight(t, q)
<1>1. ASSUME NEW i \in 1 .. Len(q), NEW j \in 1 .. Len(q), i < j, FreeAt(t, q, i), FreeAt(t, q, j)
      PROVE  \E k \in i .. j : LockAt(t, q, k)
  <2>1. FreeAt(s, q, i) /\ FreeAt(s, q, j)
    BY <1>1 DEF SameFlags
  <2>2. PICK k \in i .. j : LockAt(s, q, k)
    BY <1>1, <2>1 DEF Tight
  <2>3. k \in 1 .. Len(q)
    BY <1>1
  <2> QED BY <2>2, <2>3 DEF SameFlags
<1> QED BY <1>1 DEF Tight

\* Lemma: any turn of Gather.
LEMMA GatherGood ==
  ASSUME NEW s, NEW old, NEW o, OldGood(s, old, o), NEW i \in 1 .. Len(old), NEW a,
         Gathered(s, old, o, i - 1, a), NEW y, y = Gather(a, old[i])
  PROVE  Gathered(s, old, o, i, y)
<1>1. PICK b : b = old[i]
  OBVIOUS
<1>2. a \in AccType /\ StillGood(s, old, i - 1, a.m)
  BY DEF Gathered
<1>3. OldBlock(s, b.num) /\ SameUse(s, a.m, b.num)
  BY <1>1, <1>2, StillNext
<1>4. ~(Has(a.m, b.num, "LOCK") /\ Has(a.m, b.num, "FREE"))
  BY <1>3 DEF OldBlock, SameUse, Has
<1>5. CASE Has(a.m, b.num, "LOCK")
  <2>1. y = [m |-> a.m, done |-> Append(Flush(a), b), moved |-> << >>,
             hole |-> NoEntry, above |-> << >>]
    BY <1>1, <1>4, <1>5 DEF Gather
  <2> QED BY <1>1, <2>1, GatherLock
<1>6. CASE Has(a.m, b.num, "FREE") /\ a.hole = NoEntry
  <2>1. y = [a EXCEPT !.hole = b.num]
    BY <1>1, <1>4, <1>6 DEF Gather
  <2> QED BY <1>1, <1>6, <2>1, GatherHole
<1>7. CASE Has(a.m, b.num, "FREE") /\ a.hole # NoEntry
  <2>1. y = [a EXCEPT !.m = Disuse([a.m EXCEPT !.ent[a.hole].siz = @ + a.m.ent[b.num].siz,
                                               !.free = RemoveFirst(@, b.num)], b.num),
                      !.moved = @ \o a.above, !.above = << >>]
    BY <1>1, <1>4, <1>7 DEF Gather
  <2>2. y = MergeAll(a, b.num)
    BY <2>1 DEF MergeAll, MergeOf
  <2> QED BY <1>1, <1>7, <2>2, GatherMerge
<1>8. CASE ~Has(a.m, b.num, "LOCK") /\ ~Has(a.m, b.num, "FREE") /\ a.hole = NoEntry
  <2>1. y = [a EXCEPT !.done = Append(@, b)]
    BY <1>1, <1>8 DEF Gather
  <2> QED BY <1>1, <1>8, <2>1, GatherLow
<1>9. CASE ~Has(a.m, b.num, "LOCK") /\ ~Has(a.m, b.num, "FREE") /\ a.hole # NoEntry
  <2>1. y = [a EXCEPT !.above = Append(@, b)]
    BY <1>1, <1>9 DEF Gather
  <2> QED BY <1>1, <1>9, <2>1, GatherHigh
<1> QED BY <1>5, <1>6, <1>7, <1>8, <1>9

\* Lemma: and what is free is gathered.
LEMMA GatherTight ==
  ASSUME NEW s, NEW old, NEW o, OldGood(s, old, o), NEW i \in 1 .. Len(old), NEW a,
         Gathered(s, old, o, i - 1, a), TightParts(s, a), NEW y, y = Gather(a, old[i])
  PROVE  TightParts(s, y)
<1>1. PICK b : b = old[i]
  OBVIOUS
<1>2. a \in AccType /\ StillGood(s, old, i - 1, a.m)
  BY DEF Gathered
<1>3. OldBlock(s, b.num) /\ SameUse(s, a.m, b.num)
  BY <1>1, <1>2, StillNext
<1>4. /\ Has(a.m, b.num, "LOCK") <=> Has(s, b.num, "LOCK")
      /\ Has(a.m, b.num, "FREE") <=> Has(s, b.num, "FREE")
      /\ ~(Has(a.m, b.num, "LOCK") /\ Has(a.m, b.num, "FREE"))
  BY <1>3 DEF OldBlock, SameUse, Has
<1>5. b \in BlockType
  <2>1. old \in Seq(BlockType)
    BY DEF OldGood
  <2> QED BY <1>1, <2>1
<1>6. PICK d : d = a.done
  OBVIOUS
<1>7. PICK v : v = a.moved
  OBVIOUS
<1>8. PICK w : w = a.above
  OBVIOUS
<1>9. d \in Seq(BlockType) /\ v \in Seq(BlockType) /\ w \in Seq(BlockType)
  BY <1>2, <1>6, <1>7, <1>8, FlushParts
<1>10. Tight(s, d) /\ Closed(s, d) /\ NoFree(s, v) /\ NoFree(s, w)
  BY <1>6, <1>7, <1>8, Zenon DEF TightParts
<1>11. Tight(s, << >>) /\ Closed(s, << >>) /\ NoFree(s, << >>)
  BY TightNothing
<1>12. CASE Has(a.m, b.num, "LOCK")
  <2>1. y = [m |-> a.m, done |-> Append(Flush(a), b), moved |-> << >>,
             hole |-> NoEntry, above |-> << >>]
    BY <1>1, <1>4, <1>12 DEF Gather
  <2>2. PICK f : f = Flush(a)
    OBVIOUS
  <2>3. f \in Seq(BlockType) /\ Tight(s, f)
    BY <1>2, <2>2, FlushParts, FlushTight
  <2>4. Tight(s, Append(f, b)) /\ Closed(s, Append(f, b))
    BY <1>4, <1>5, <1>12, <2>3, ClosedByLock
  <2>5. y.done = Append(f, b) /\ y.moved = << >> /\ y.above = << >>
    BY <2>1, <2>2
  <2> QED BY <1>11, <2>4, <2>5, Zenon DEF TightParts
<1>13. CASE Has(a.m, b.num, "FREE") /\ a.hole = NoEntry
  <2>1. y = [a EXCEPT !.hole = b.num]
    BY <1>1, <1>4, <1>13 DEF Gather
  <2>2. y.done = d /\ y.moved = v /\ y.above = w
    BY <1>2, <1>6, <1>7, <1>8, <2>1 DEF AccType
  <2> QED BY <1>10, <2>2, Zenon DEF TightParts
<1>14. CASE Has(a.m, b.num, "FREE") /\ a.hole # NoEntry
  <2>1. PICK u : u = Disuse([a.m EXCEPT !.ent[a.hole].siz = @ + a.m.ent[b.num].siz,
                                        !.free = RemoveFirst(@, b.num)], b.num)
    OBVIOUS
  <2>2. y = [a EXCEPT !.m = u, !.moved = @ \o a.above, !.above = << >>]
    BY <1>1, <1>4, <1>14, <2>1 DEF Gather
  <2>3. y.done = d /\ y.moved = v \o w /\ y.above = << >>
    BY <1>2, <1>6, <1>7, <1>8, <2>2 DEF AccType
  <2>4. NoFree(s, v \o w)
    BY <1>9, <1>10, ClosedOn
  <2> QED BY <1>10, <1>11, <2>3, <2>4, Zenon DEF TightParts
<1>15. CASE ~Has(a.m, b.num, "LOCK") /\ ~Has(a.m, b.num, "FREE") /\ a.hole = NoEntry
  <2>1. y = [a EXCEPT !.done = Append(@, b)]
    BY <1>1, <1>15 DEF Gather
  <2>2. y.done = Append(d, b) /\ y.moved = v /\ y.above = w
    BY <1>2, <1>6, <1>7, <1>8, <2>1 DEF AccType
  <2>3. Tight(s, Append(d, b)) /\ Closed(s, Append(d, b))
    BY <1>4, <1>5, <1>9, <1>10, <1>15, NoFreeAppend
  <2> QED BY <1>10, <2>2, <2>3, Zenon DEF TightParts
<1>16. CASE ~Has(a.m, b.num, "LOCK") /\ ~Has(a.m, b.num, "FREE") /\ a.hole # NoEntry
  <2>1. y = [a EXCEPT !.above = Append(@, b)]
    BY <1>1, <1>16 DEF Gather
  <2>2. y.done = d /\ y.moved = v /\ y.above = Append(w, b)
    BY <1>2, <1>6, <1>7, <1>8, <2>1 DEF AccType
  <2>3. NoFree(s, Append(w, b))
    BY <1>4, <1>5, <1>9, <1>10, <1>16, NoFreeAppend
  <2> QED BY <1>10, <2>2, <2>3, Zenon DEF TightParts
<1> QED BY <1>12, <1>13, <1>14, <1>15, <1>16

\* Gather runs over the blocks of a chunk.
GatherNext(env, a, b) == Gather(a, b)
GatherSoFar(env, i, a) == Gathered(env.s, env.old, env.o, i, a) /\ TightParts(env.s, a)
Gathering == INSTANCE Induction WITH Step <- GatherNext, Holds <- GatherSoFar

\* Lemma: the fold over them is the one that the instance speaks of.
LEMMA GatherIsFold ==
  ASSUME NEW s, NEW q, NEW env
  PROVE  FoldLeft(Gather, Ungathered(s), q) = Gathering!Fold(env, Ungathered(s), q)
BY DEF Gathering!Fold, GatherNext, FoldLeft, MapThenFoldSet, Max, Gathering!Largest,
       Gathering!MapThenFoldSet

\* Lemma: before the first block.
LEMMA GatherFirst ==
  ASSUME NEW s, Good(s), NEW old, NEW o, OldGood(s, old, o)
  PROVE  Gathered(s, old, o, 0, Ungathered(s)) /\ TightParts(s, Ungathered(s))
<1>1. PICK a : a = Ungathered(s)
  OBVIOUS
<1>2. s \in StateType
  BY DEF Good
<1>3. << >> \in Seq(BlockType) /\ Distinct(<< >>) /\ \A x : ~In(x, << >>)
  BY NoBlock
<1>4. /\ a \in AccType /\ a.m = s /\ a.done = << >> /\ a.moved = << >>
      /\ a.hole = NoEntry /\ a.above = << >>
  BY <1>1, <1>2, <1>3 DEF Ungathered, AccType
<1>5. Flush(a) = << >>
  BY <1>4, FlushDone
<1>6. \A j : j \notin 1 .. 0
  OBVIOUS
<1>7. StillGood(s, old, 0, s)
  <2>1. \A n : ~Seen(old, 0, n)
    BY <1>6 DEF Seen
  <2>2. ListOf(s.ent, s.free, "FREE")
    BY DEF Good, ListsGood
  <2> QED BY <1>2, <2>1, <2>2 DEF StillGood, SameUse
<1>8. PiecesGood(s, old, 0, s, << >>)
  BY <1>3, <1>6 DEF PiecesGood
<1>9. SizeOfBlocks(s, << >>) = o[0]
  <2>1. SizesOf(s, << >>) = << >>
    BY DEF SizesOf
  <2>2. o[0] = 0
    BY DEF OldGood, LaidOut
  <2> QED BY <2>1, <2>2, TotalEmpty DEF SizeOfBlocks
<1>10. PartsGood(s, a)
  <2>1. LocksIn(s, s, << >>)
    <3>1. \A p : p \notin 1 .. Len(<< >>)
      OBVIOUS
    <3> QED BY <3>1 DEF LocksIn
  <2> QED BY <1>4, <2>1, UnlockedFacts, Zenon DEF PartsGood
<1>11. TightParts(s, a)
  BY <1>4, TightNothing, Zenon DEF TightParts
<1> QED BY <1>1, <1>4, <1>5, <1>7, <1>8, <1>9, <1>10, <1>11 DEF Gathered

\* Lemma: after the last one.
LEMMA GatherAll ==
  ASSUME NEW s, Good(s), NEW c \in 1 .. Len(s.heap), NEW a,
         a = FoldLeft(Gather, Ungathered(s), s.heap[c])
  PROVE  /\ \E o : OldGood(s, s.heap[c], o) /\ Gathered(s, s.heap[c], o, Len(s.heap[c]), a)
         /\ TightParts(s, a)
<1>1. PICK old : old = s.heap[c]
  OBVIOUS
<1>2. PICK o : OldGood(s, old, o)
  BY <1>1, ChunkOld
<1>3. old \in Seq(BlockType)
  BY <1>2 DEF OldGood
<1>4. PICK env : env = [s |-> s, old |-> old, o |-> o]
  OBVIOUS
<1>5. env.s = s /\ env.old = old /\ env.o = o
  BY <1>4
<1>6. GatherSoFar(env, 0, Ungathered(s))
  BY <1>2, <1>5, GatherFirst DEF GatherSoFar
<1>7. ASSUME NEW x, NEW i \in 1 .. Len(old), GatherSoFar(env, i - 1, x)
      PROVE  GatherSoFar(env, i, GatherNext(env, x, old[i]))
  <2>1. PICK y : y = Gather(x, old[i])
    OBVIOUS
  <2>2. Gathered(s, old, o, i - 1, x) /\ TightParts(s, x)
    BY <1>5, <1>7 DEF GatherSoFar
  <2>3. Gathered(s, old, o, i, y) /\ TightParts(s, y)
    BY <1>2, <2>1, <2>2, GatherGood, GatherTight
  <2> QED BY <1>5, <2>1, <2>3 DEF GatherSoFar, GatherNext
<1>8. GatherSoFar(env, Len(old), Gathering!Fold(env, Ungathered(s), old))
  BY <1>3, <1>6, <1>7, Gathering!Induct
<1>9. a = Gathering!Fold(env, Ungathered(s), old)
  BY <1>1, GatherIsFold
<1> QED BY <1>1, <1>2, <1>5, <1>8, <1>9 DEF GatherSoFar

-----------------------------------------------------------------------------
\* A chunk whose blocks have been gathered.

\* The blocks f of chunk c are told their addresses.
Readdressed(u, t, c, f) ==
  /\ t \in StateType /\ t.heap = [u.heap EXCEPT ![c] = f]
  /\ t.free = u.free /\ t.unused = u.unused /\ t.lru = u.lru /\ t.segs = u.segs /\ t.room = u.room
  /\ \A n \in Entries : /\ t.ent[n].flg = u.ent[n].flg /\ t.ent[n].siz = u.ent[n].siz
                        /\ t.ent[n].locks = u.ent[n].locks /\ t.ent[n].seg = u.ent[n].seg
  /\ \A j \in 1 .. Len(f) : t.ent[f[j].num].at = <<c, SizeOfBlocks(u, SubSeq(f, 1, j - 1))>>
  /\ \A n \in Entries : (\A j \in 1 .. Len(f) : f[j].num # n) => t.ent[n] = u.ent[n]

\* Lemma: no header is that of two blocks after the blocks of a chunk were replaced.
LEMMA SeparateReplaced ==
  ASSUME NEW heap \in Seq(Seq(BlockType)), Separate(heap), NEW c \in 1 .. Len(heap),
         NEW f \in Seq(BlockType), Distinct(f), Apart(heap, c, f),
         NEW new, new = [heap EXCEPT ![c] = f]
  PROVE  Separate(new) /\ new \in Seq(Seq(BlockType)) /\ Len(new) = Len(heap) /\ new[c] = f
<1>1. Len(new) = Len(heap) /\ new[c] = f /\ \A d \in 1 .. Len(heap) : d # c => new[d] = heap[d]
  OBVIOUS
<1>2. new \in Seq(Seq(BlockType))
  OBVIOUS
<1>3. Separate(new)
  <2> SUFFICES ASSUME NEW d \in 1 .. Len(heap), NEW e \in 1 .. Len(heap),
                      NEW i \in 1 .. Len(new[d]), NEW j \in 1 .. Len(new[e]),
                      new[d][i].num = new[e][j].num
               PROVE  d = e /\ i = j
    BY <1>1 DEF Separate
  <2>1. CASE d = c /\ e = c
    BY <1>1, <2>1 DEF Distinct
  <2>2. CASE d = c /\ e # c
    BY <1>1, <2>2 DEF Apart
  <2>3. CASE d # c /\ e = c
    BY <1>1, <2>3 DEF Apart
  <2>4. CASE d # c /\ e # c
    BY <1>1, <2>4 DEF Separate
  <2> QED BY <2>1, <2>2, <2>3, <2>4
<1> QED BY <1>1, <1>2, <1>3

WithChunk(u, c, f) == [u EXCEPT !.heap[c] = f]

\* Lemma: the parts of the state with the blocks f in chunk c.
LEMMA ChunkFields ==
  ASSUME NEW u \in StateType, NEW c \in 1 .. Len(u.heap), NEW f \in Seq(BlockType)
  PROVE  Fields(WithChunk(u, c, f), u.ent, [u.heap EXCEPT ![c] = f], u.free, u.unused, u.lru,
                u.segs, u.room)
<1>1. u.heap \in Seq(Seq(BlockType))
  BY StateFields
<1>2. PICK new : new = [u.heap EXCEPT ![c] = f]
  OBVIOUS
<1>3. new \in Seq(Seq(BlockType))
  BY <1>1, <1>2
<1>4. PICK w : w = [u EXCEPT !.heap = new]
  OBVIOUS
<1>5. /\ w \in StateType /\ w.heap = new
      /\ w.ent = u.ent /\ w.free = u.free /\ w.unused = u.unused
      /\ w.lru = u.lru /\ w.segs = u.segs /\ w.room = u.room
  BY <1>3, <1>4, WithHeap
<1>6. WithChunk(u, c, f) = w
  BY <1>1, <1>2, <1>4 DEF WithChunk, StateType
<1> QED BY <1>2, <1>5, <1>6, Zenon DEF Fields

\* Lemma: Readdress does just that.
LEMMA ReaddressFacts ==
  ASSUME NEW u \in StateType, NEW c \in 1 .. Len(u.heap), Len(u.heap) <= MaxChunks,
         NEW f \in Seq(BlockType), SizeOfBlocks(u, f) = Chunk,
         NEW w, w = WithChunk(u, c, f), Separate(w.heap),
         NEW t, t = Readdress(w, c)
  PROVE  Readdressed(u, t, c, f)
<1>1. u.heap \in Seq(Seq(BlockType)) /\ u.ent \in [Entries -> EntryType]
  BY StateFields
<1>2. PICK new : new = [u.heap EXCEPT ![c] = f]
  OBVIOUS
<1>3. new \in Seq(Seq(BlockType)) /\ Len(new) = Len(u.heap) /\ new[c] = f
  BY <1>1, <1>2
<1>4. Fields(w, u.ent, new, u.free, u.unused, u.lru, u.segs, u.room)
  BY <1>2, ChunkFields
<1>5. /\ w \in StateType /\ w.heap = new
      /\ w.ent = u.ent /\ w.free = u.free /\ w.unused = u.unused
      /\ w.lru = u.lru /\ w.segs = u.segs /\ w.room = u.room
  BY <1>4, Zenon DEF Fields
<1>6. PICK o : /\ \A i \in 0 .. Len(f) :
                    /\ o[i] = SizeOfBlocks(u, SubSeq(f, 1, i))
                    /\ o[i] \in Nat /\ o[i] <= o[Len(f)]
               /\ o[0] = 0 /\ o[Len(f)] = SizeOfBlocks(u, f)
               /\ \A i \in 1 .. Len(f) : o[i] = o[i - 1] + u.ent[f[i].num].siz
  BY Offsets
<1>7. ASSUME NEW j \in 1 .. Len(f)
      PROVE  /\ SizeOfBlocks(u, SubSeq(f, 1, j - 1)) \in 0 .. Chunk
             /\ SizeOfBlocks(w, SubSeq(f, 1, j - 1)) = SizeOfBlocks(u, SubSeq(f, 1, j - 1))
             /\ PlaceOf(w, f[j].num) = <<c, j>> /\ f[j].num \in Entries
             /\ Address(w, c, j) = <<c, SizeOfBlocks(u, SubSeq(f, 1, j - 1))>>
  <2>1. j - 1 \in 0 .. Len(f)
    OBVIOUS
  <2>2. SizeOfBlocks(u, SubSeq(f, 1, j - 1)) \in Nat /\ SizeOfBlocks(u, SubSeq(f, 1, j - 1)) <= Chunk
    BY <1>6, <2>1
  <2>3. SizeOfBlocks(w, SubSeq(f, 1, j - 1)) = SizeOfBlocks(u, SubSeq(f, 1, j - 1))
    <3>1. PICK q : q = SubSeq(f, 1, j - 1)
      OBVIOUS
    <3>2. w.ent = u.ent
      BY <1>5
    <3>3. SizesOf(w, q) = SizesOf(u, q)
      BY <3>2 DEF SizesOf
    <3> QED BY <3>1, <3>3, Zenon DEF SizeOfBlocks
  <2>4. c \in 1 .. Len(w.heap) /\ j \in 1 .. Len(w.heap[c]) /\ w.heap[c][j] = f[j]
    BY <1>3, <1>5
  <2>5. PlaceOf(w, w.heap[c][j].num) = <<c, j>>
    BY <1>5, <2>4, PlaceFacts
  <2>6. f[j].num \in Entries
    <3>1. f[j] \in BlockType
      OBVIOUS
    <3> QED BY <3>1 DEF BlockType
  <2>7. Address(w, c, j) = <<c, SizeOfBlocks(w, SubSeq(f, 1, j - 1))>>
    BY <1>3, <1>5 DEF Address
  <2> QED BY <2>2, <2>3, <2>4, <2>5, <2>6, <2>7, ConstFacts
<1>8. PICK x : x = [n \in Entries |->
                     IF \E b \in ToSet(w.heap[c]) : b.num = n
                     THEN [w.ent[n] EXCEPT !.at = Address(w, c, PlaceOf(w, n)[2])] ELSE w.ent[n]]
  OBVIOUS
<1>9. t = [w EXCEPT !.ent = x]
  BY <1>8, Zenon DEF Readdress
<1>10. \A n : (\E b \in ToSet(w.heap[c]) : b.num = n) <=> \E j \in 1 .. Len(f) : f[j].num = n
  <2>1. \A b : b \in ToSet(f) <=> \E j \in 1 .. Len(f) : f[j] = b
    BY ToSetFacts
  <2>2. w.heap[c] = f
    BY <1>3, <1>5
  <2> QED BY <2>1, <2>2
<1>11. ASSUME NEW j \in 1 .. Len(f)
       PROVE  x[f[j].num] = [u.ent[f[j].num] EXCEPT !.at = <<c, SizeOfBlocks(u, SubSeq(f, 1, j - 1))>>]
  <2>1. PICK n \in Entries : n = f[j].num
    BY <1>7
  <2>2. x[n] = [w.ent[n] EXCEPT !.at = Address(w, c, PlaceOf(w, n)[2])]
    BY <1>8, <1>10, <2>1
  <2>3. PlaceOf(w, n)[2] = j
    <3>1. PlaceOf(w, n) = <<c, j>>
      BY <1>7, <2>1
    <3> QED BY <3>1
  <2>4. Address(w, c, PlaceOf(w, n)[2]) = <<c, SizeOfBlocks(u, SubSeq(f, 1, j - 1))>>
    BY <1>7, <2>3
  <2> QED BY <1>5, <2>1, <2>2, <2>4
<1>12. \A n \in Entries : (\A j \in 1 .. Len(f) : f[j].num # n) => x[n] = u.ent[n]
  BY <1>5, <1>8, <1>10
<1>13. c \in 0 .. MaxChunks
  BY <1>1, ConstFacts
<1>14. ASSUME NEW n \in Entries
       PROVE  /\ x[n] \in EntryType /\ x[n].flg = u.ent[n].flg /\ x[n].siz = u.ent[n].siz
              /\ x[n].locks = u.ent[n].locks /\ x[n].seg = u.ent[n].seg
  <2>1. u.ent[n] \in EntryType
    BY <1>1
  <2>2. CASE \A j \in 1 .. Len(f) : f[j].num # n
    BY <1>12, <2>1, <2>2
  <2>3. CASE \E j \in 1 .. Len(f) : f[j].num = n
    <3>1. PICK j \in 1 .. Len(f) : f[j].num = n
      BY <2>3
    <3>2. PICK at : at = <<c, SizeOfBlocks(u, SubSeq(f, 1, j - 1))>>
      OBVIOUS
    <3>3. at \in (0 .. MaxChunks) \X (0 .. Chunk)
      BY <1>7, <1>13, <3>2
    <3>4. x[n] = [u.ent[n] EXCEPT !.at = at]
      BY <1>11, <3>1, <3>2
    <3> QED BY <2>1, <3>3, <3>4 DEF EntryType
  <2> QED BY <2>2, <2>3
<1>15. x \in [Entries -> EntryType]
  BY <1>8, <1>14
<1>16. /\ t \in StateType /\ t.ent = x
       /\ t.heap = w.heap /\ t.free = w.free /\ t.unused = w.unused
       /\ t.lru = w.lru /\ t.segs = w.segs /\ t.room = w.room
  <2>1. w \in StateType
    BY <1>5
  <2> QED BY <1>9, <1>15, <2>1, WithEnt
<1>17. \A j \in 1 .. Len(f) : x[f[j].num].at = <<c, SizeOfBlocks(u, SubSeq(f, 1, j - 1))>>
  <2> SUFFICES ASSUME NEW j \in 1 .. Len(f)
               PROVE  x[f[j].num].at = <<c, SizeOfBlocks(u, SubSeq(f, 1, j - 1))>>
    OBVIOUS
  <2>1. u.ent[f[j].num] \in EntryType
    BY <1>1, <1>7
  <2> QED BY <1>11, <2>1 DEF EntryType
<1>18. t.heap = [u.heap EXCEPT ![c] = f]
  BY <1>2, <1>5, <1>16
<1> QED BY <1>5, <1>12, <1>14, <1>16, <1>17, <1>18, Zenon DEF Readdressed

\* The entries and blocks of a chunk once all its blocks, old, are gathered in f.
AllGathered(s, c, u, f) ==
  /\ StillGood(s, s.heap[c], Len(s.heap[c]), u)
  /\ PiecesGood(s, s.heap[c], Len(s.heap[c]), u, f)
  /\ SizeOfBlocks(u, f) = Chunk /\ LocksIn(s, u, f)

OldBlocks(s, old) == \A i \in 1 .. Len(old) : OldBlock(s, old[i].num)

\* Lemma: that is what the fold leads to.
LEMMA GatheredAll ==
  ASSUME NEW s, Good(s), NEW c \in 1 .. Len(s.heap), NEW a,
         a = FoldLeft(Gather, Ungathered(s), s.heap[c])
  PROVE  AllGathered(s, c, a.m, Flush(a)) /\ OldBlocks(s, s.heap[c]) /\ Tight(s, Flush(a))
<1>1. PICK old : old = s.heap[c]
  OBVIOUS
<1>2. PICK o : OldGood(s, old, o) /\ Gathered(s, old, o, Len(old), a)
  BY <1>1, GatherAll
<1>3. o[Len(old)] = Chunk
  BY <1>2 DEF OldGood, LaidOut
<1>4. a \in AccType /\ PartsGood(s, a)
  BY <1>2 DEF Gathered
<1>5. LocksIn(s, a.m, Flush(a))
  BY <1>4, FlushLocks
<1>6. Tight(s, Flush(a))
  <2>1. TightParts(s, a)
    BY GatherAll
  <2> QED BY <1>4, <2>1, FlushTight
<1> QED BY <1>1, <1>2, <1>3, <1>5, <1>6 DEF Gathered, AllGathered, OldGood, OldBlocks

\* Lemma: the new blocks are strangers to the other chunks.
LEMMA GatheredApart ==
  ASSUME NEW s, Good(s), NEW c \in 1 .. Len(s.heap), NEW u, NEW f, AllGathered(s, c, u, f)
  PROVE  /\ f \in Seq(BlockType) /\ Distinct(f) /\ Apart(s.heap, c, f)
         /\ \A d \in 1 .. Len(s.heap) : d # c => \A j \in 1 .. Len(s.heap[d]) :
              /\ ~Seen(s.heap[c], Len(s.heap[c]), s.heap[d][j].num)
              /\ SameUse(s, u, s.heap[d][j].num)
<1>1. PICK old : old = s.heap[c]
  OBVIOUS
<1>2. /\ StillGood(s, old, Len(old), u) /\ f \in Seq(BlockType) /\ Distinct(f)
      /\ \A x : In(x, f) => FromOld(s, old, Len(old), x)
  BY <1>1, Zenon DEF AllGathered, PiecesGood
<1>3. Separate(s.heap)
  BY DEF Good, HeapGood
<1>4. ASSUME NEW d \in 1 .. Len(s.heap), d # c, NEW j \in 1 .. Len(s.heap[d])
      PROVE  ~Seen(old, Len(old), s.heap[d][j].num) /\ SameUse(s, u, s.heap[d][j].num)
  <2>1. ~Seen(old, Len(old), s.heap[d][j].num)
    BY <1>1, <1>3, <1>4 DEF Seen, Separate
  <2>2. s.heap[d][j].num \in Entries
    BY PlaceHeader
  <2>3. IF Has(s, s.heap[d][j].num, "FREE") /\ Seen(old, Len(old), s.heap[d][j].num)
        THEN StillFree(u, s.heap[d][j].num) \/ MergedIn(u, s.heap[d][j].num)
        ELSE SameUse(s, u, s.heap[d][j].num)
    BY <1>2, <2>2, Zenon DEF StillGood
  <2> QED BY <2>1, <2>3
<1>5. \A x : In(x, f) => Seen(old, Len(old), x.num)
  BY <1>2, Zenon DEF FromOld, Seen
<1>6. Apart(s.heap, c, f)
  <2> SUFFICES ASSUME NEW d \in 1 .. Len(s.heap), d # c, NEW j \in 1 .. Len(s.heap[d]),
                      NEW i \in 1 .. Len(f)
               PROVE  f[i].num # s.heap[d][j].num
    BY DEF Apart
  <2>1. In(f[i], f)
    BY DEF In
  <2> QED BY <1>4, <1>5, <2>1
<1> QED BY <1>1, <1>2, <1>4, <1>6

\* Lemma: the entries stay what they were but for their addresses, sizes of
\* free blocks and headers of blocks that are no more.
LEMMA GatheredEntry ==
  ASSUME NEW s, Good(s), NEW c \in 1 .. Len(s.heap), NEW u, NEW f, AllGathered(s, c, u, f),
         NEW n \in Entries
  PROVE  \/ SameUse(s, u, n) /\ ~(Has(s, n, "FREE") /\ Seen(s.heap[c], Len(s.heap[c]), n))
         \/ Has(s, n, "FREE") /\ Seen(s.heap[c], Len(s.heap[c]), n) /\ (StillFree(u, n) \/ MergedIn(u, n))
<1>1. StillGood(s, s.heap[c], Len(s.heap[c]), u)
  BY DEF AllGathered
<1>2. IF Has(s, n, "FREE") /\ Seen(s.heap[c], Len(s.heap[c]), n) THEN StillFree(u, n) \/ MergedIn(u, n)
      ELSE SameUse(s, u, n)
  BY <1>1, Zenon DEF StillGood
<1> QED BY <1>2

\* Lemma: the new blocks follow each other from start to end.
LEMMA GatheredChain ==
  ASSUME NEW s, Good(s), NEW c \in 1 .. Len(s.heap), NEW u, NEW f, AllGathered(s, c, u, f),
         NEW t, Readdressed(u, t, c, f), OldBlocks(s, s.heap[c])
  PROVE  Chained(t.ent, f, c)
<1>1. /\ u \in StateType /\ u.heap = s.heap /\ f \in Seq(BlockType) /\ SizeOfBlocks(u, f) = Chunk
      /\ t \in StateType /\ t.heap = [u.heap EXCEPT ![c] = f]
  BY Zenon DEF AllGathered, StillGood, PiecesGood, Readdressed
<1>2. c \in 1 .. Len(t.heap) /\ t.heap[c] = f
  BY <1>1, StateFields
<1>3. \A n \in Entries : t.ent[n].siz = u.ent[n].siz
  BY DEF Readdressed
<1>4. \A i \in 1 .. Len(f) : f[i].num \in Entries
  <2>1. \A i \in 1 .. Len(f) : f[i] \in BlockType
    BY <1>1
  <2> QED BY <2>1 DEF BlockType
<1>5. \A q \in Seq(BlockType) : SizeOfBlocks(t, q) = SizeOfBlocks(u, q)
  <2> SUFFICES ASSUME NEW q \in Seq(BlockType) PROVE SizeOfBlocks(t, q) = SizeOfBlocks(u, q)
    OBVIOUS
  <2>1. \A i \in 1 .. Len(q) : q[i] \in BlockType
    OBVIOUS
  <2>2. \A x : In(x, q) => t.ent[x.num].siz = u.ent[x.num].siz
    BY <1>3, <2>1 DEF In, BlockType
  <2>3. SizesOf(t, q) = SizesOf(u, q)
    BY <2>2, SumSame
  <2> QED BY <2>3 DEF SizeOfBlocks
<1>6. ASSUME NEW j \in 1 .. Len(f)
      PROVE  t.ent[f[j].num].at = Address(t, c, j) /\ t.ent[f[j].num].siz > 0
  <2>1. SubSeq(f, 1, j - 1) \in Seq(BlockType)
    BY <1>1
  <2>2. t.ent[f[j].num].at = <<c, SizeOfBlocks(u, SubSeq(f, 1, j - 1))>>
    BY DEF Readdressed
  <2>3. t.ent[f[j].num].at = Address(t, c, j)
    BY <1>2, <1>5, <2>1, <2>2 DEF Address
  <2>4. In(f[j], f)
    BY DEF In
  <2>5. InMemory(u.ent[f[j].num]) /\ FromOld(s, s.heap[c], Len(s.heap[c]), f[j])
    BY <2>4, Zenon DEF AllGathered, PiecesGood
  <2>6. PICK i \in 1 .. Len(s.heap[c]) : s.heap[c][i].num = f[j].num
    BY <2>5 DEF FromOld
  <2>7. s.ent[f[j].num].siz > 0
    BY <2>6 DEF OldBlocks, OldBlock
  <2>8. u.ent[f[j].num].siz > 0
    <3>1. SameUse(s, u, f[j].num) \/ StillFree(u, f[j].num) \/ MergedIn(u, f[j].num)
      BY <1>4, GatheredEntry
    <3>2. ~MergedIn(u, f[j].num)
      BY <2>5, UnusedEntryFacts DEF MergedIn, InMemory
    <3> QED BY <2>7, <3>1, <3>2 DEF SameUse, StillFree
  <2> QED BY <1>3, <1>4, <2>3, <2>8
<1>7. f # << >>
  <2>1. SizesOf(u, << >>) = << >>
    BY DEF SizesOf
  <2>2. SizeOfBlocks(u, << >>) = 0
    BY <2>1, TotalEmpty DEF SizeOfBlocks
  <2> QED BY <1>1, <2>2, ConstFacts
<1>8. SizeOfBlocks(t, t.heap[c]) = Chunk
  BY <1>1, <1>2, <1>5
<1>9. Chained(t.ent, t.heap[c], c)
  BY <1>1, <1>2, <1>6, <1>7, <1>8, SumsChain
<1> QED BY <1>2, <1>9

\* Lemma: the entries after a chunk was collected.
LEMMA CollectedEntry ==
  ASSUME NEW s, Good(s), NEW c \in 1 .. Len(s.heap), NEW u, NEW f, AllGathered(s, c, u, f),
         NEW t, Readdressed(u, t, c, f), NEW n \in Entries
  PROVE  /\ EntryGood(t.ent[n])
         /\ t.ent[n].seg = s.ent[n].seg \/ t.ent[n].seg = NoSeg
         /\ "LRU" \in t.ent[n].flg <=> "LRU" \in s.ent[n].flg
         /\ n \in t.unused => t.ent[n] = UnusedEntry
         /\ ~Has(s, n, "FREE") => /\ t.ent[n].flg = s.ent[n].flg /\ t.ent[n].siz = s.ent[n].siz
                                  /\ t.ent[n].locks = s.ent[n].locks /\ t.ent[n].seg = s.ent[n].seg
                                  /\ n \in t.unused <=> n \in s.unused
<1>1. /\ t.ent[n].flg = u.ent[n].flg /\ t.ent[n].siz = u.ent[n].siz
      /\ t.ent[n].locks = u.ent[n].locks /\ t.ent[n].seg = u.ent[n].seg
      /\ t.unused = u.unused
  BY DEF Readdressed
<1>2. EntryGood(s.ent[n])
  BY DEF Good
<1>3. \/ SameUse(s, u, n)
      \/ Has(s, n, "FREE") /\ (StillFree(u, n) \/ MergedIn(u, n))
  BY GatheredEntry
<1>4. ASSUME n \in t.unused, u.ent[n] = UnusedEntry PROVE t.ent[n] = UnusedEntry
  <2>1. \A j \in 1 .. Len(f) : f[j].num # n
    <3> SUFFICES ASSUME NEW j \in 1 .. Len(f), f[j].num = n PROVE FALSE
      OBVIOUS
    <3>1. In(f[j], f)
      BY DEF In
    <3>2. InMemory(u.ent[n])
      BY <3>1, Zenon DEF AllGathered, PiecesGood
    <3> QED BY <1>4, <3>2, UnusedEntryFacts DEF InMemory
  <2>2. t.ent[n] = u.ent[n]
    BY <2>1 DEF Readdressed
  <2> QED BY <1>4, <2>2
<1>5. CASE SameUse(s, u, n)
  <2>1. EntryGood(t.ent[n])
    BY <1>1, <1>2, <1>5 DEF EntryGood, SameUse
  <2>2. n \in t.unused => t.ent[n] = UnusedEntry
    BY <1>1, <1>4, <1>5 DEF SameUse, Good
  <2> QED BY <1>1, <1>5, <2>1, <2>2 DEF SameUse
<1>6. CASE Has(s, n, "FREE") /\ StillFree(u, n)
  <2>1. EntryGood(t.ent[n])
    BY <1>1, <1>6 DEF EntryGood, StillFree
  <2>2. "LRU" \notin t.ent[n].flg /\ "LRU" \notin s.ent[n].flg
    BY <1>1, <1>2, <1>6 DEF EntryGood, StillFree, Has
  <2> QED BY <1>1, <1>6, <2>1, <2>2 DEF StillFree
<1>7. CASE Has(s, n, "FREE") /\ MergedIn(u, n)
  <2>1. EntryGood(t.ent[n])
    BY <1>1, <1>7, UnusedEntryFacts DEF EntryGood, MergedIn
  <2>2. "LRU" \notin t.ent[n].flg /\ "LRU" \notin s.ent[n].flg
    BY <1>1, <1>2, <1>7, UnusedEntryFacts DEF EntryGood, MergedIn, Has
  <2> QED BY <1>1, <1>4, <1>7, <2>1, <2>2, UnusedEntryFacts DEF MergedIn
<1> QED BY <1>3, <1>5, <1>6, <1>7

\* Lemma: the heap after that.
LEMMA CollectedHeap ==
  ASSUME NEW s, Good(s), NEW c \in 1 .. Len(s.heap), NEW u, NEW f, AllGathered(s, c, u, f),
         NEW t, Readdressed(u, t, c, f), OldBlocks(s, s.heap[c])
  PROVE  t.heap = [s.heap EXCEPT ![c] = f] /\ Replaced(t.ent, s.heap, c, f)
<1>1. s.heap \in Seq(Seq(BlockType)) /\ HeapGood(s.ent, s.heap)
  BY StateFields DEF Good
<1>2. Chained(t.ent, f, c)
  BY GatheredChain
<1>3. /\ f \in Seq(BlockType) /\ Distinct(f) /\ Apart(s.heap, c, f)
      /\ \A d \in 1 .. Len(s.heap) : d # c => \A j \in 1 .. Len(s.heap[d]) :
           SameUse(s, u, s.heap[d][j].num)
  BY GatheredApart
<1>4. OthersStay(s.ent, t.ent, s.heap, c)
  <2> SUFFICES ASSUME NEW d \in 1 .. Len(s.heap), d # c, NEW j \in 1 .. Len(s.heap[d])
               PROVE  SamePlace(s.ent, t.ent, s.heap[d][j].num, s.heap[d][j].num)
    BY DEF OthersStay
  <2>1. s.heap[d][j].num \in Entries
    BY PlaceHeader
  <2>2. \A i \in 1 .. Len(f) : f[i].num # s.heap[d][j].num
    BY <1>3 DEF Apart
  <2>3. t.ent[s.heap[d][j].num] = u.ent[s.heap[d][j].num]
    BY <2>1, <2>2 DEF Readdressed
  <2>4. u.ent[s.heap[d][j].num] = s.ent[s.heap[d][j].num]
    BY <1>3 DEF SameUse
  <2> QED BY <2>3, <2>4 DEF SamePlace
<1>5. Replaced(t.ent, s.heap, c, f)
  BY <1>1, <1>2, <1>3, <1>4, RewriteChunk
<1>6. t.heap = [s.heap EXCEPT ![c] = f]
  BY Zenon DEF Readdressed, AllGathered, StillGood
<1> QED BY <1>5, <1>6

\* Lemma: its blocks are those of the entries in memory.
LEMMA CollectedHeaders ==
  ASSUME NEW s, Good(s), NEW c \in 1 .. Len(s.heap), NEW u, NEW f, AllGathered(s, c, u, f),
         NEW t, Readdressed(u, t, c, f), OldBlocks(s, s.heap[c])
  PROVE  HeadersGood(t.ent, t.heap)
<1>1. /\ \A b : b \in BlocksOf(t.heap) <=>
                  \/ \E i \in 1 .. Len(f) : f[i] = b
                  \/ \E d \in 1 .. Len(s.heap) : d # c /\ \E j \in 1 .. Len(s.heap[d]) : s.heap[d][j] = b
  <2>1. t.heap = [s.heap EXCEPT ![c] = f] /\ Replaced(t.ent, s.heap, c, f)
    BY CollectedHeap
  <2> QED BY <2>1 DEF Replaced
<1>2. \A n \in Entries : InMemory(t.ent[n]) <=> InMemory(u.ent[n])
  BY DEF Readdressed, InMemory
<1>3. /\ \A d \in 1 .. Len(s.heap) : d # c => \A j \in 1 .. Len(s.heap[d]) :
           SameUse(s, u, s.heap[d][j].num)
  BY GatheredApart
<1>4. /\ \A x : In(x, f) => InMemory(u.ent[x.num])
      /\ \A j \in 1 .. Len(s.heap[c]) : InMemory(u.ent[s.heap[c][j].num]) =>
           \E x : In(x, f) /\ x.num = s.heap[c][j].num
  BY Zenon DEF AllGathered, PiecesGood
<1>5. s.heap \in Seq(Seq(BlockType))
  BY StateFields DEF Good
<1>6. ASSUME NEW n \in Entries, InMemory(u.ent[n]) PROVE \E b \in BlocksOf(t.heap) : b.num = n
  <2>1. CASE Seen(s.heap[c], Len(s.heap[c]), n)
    <3>1. PICK x : In(x, f) /\ x.num = n
      BY <1>4, <1>6, <2>1 DEF Seen
    <3> QED BY <1>1, <3>1 DEF In
  <2>2. CASE ~Seen(s.heap[c], Len(s.heap[c]), n)
    <3>1. SameUse(s, u, n)
      BY <2>2, GatheredEntry
    <3>2. InMemory(s.ent[n])
      BY <1>6, <3>1 DEF SameUse
    <3>3. PICK b \in BlocksOf(s.heap) : b.num = n
      BY <3>2 DEF Good, HeadersGood
    <3>4. PICK d \in 1 .. Len(s.heap) : \E j \in 1 .. Len(s.heap[d]) : s.heap[d][j] = b
      BY <1>5, BlocksFacts
    <3>5. d # c
      BY <2>2, <3>3, <3>4 DEF Seen
    <3> QED BY <1>1, <3>3, <3>4, <3>5
  <2> QED BY <2>1, <2>2
<1>7. ASSUME NEW b \in BlocksOf(t.heap) PROVE InMemory(u.ent[b.num])
  <2>1. CASE \E i \in 1 .. Len(f) : f[i] = b
    BY <1>4, <2>1 DEF In
  <2>2. ASSUME NEW d \in 1 .. Len(s.heap), d # c, NEW j \in 1 .. Len(s.heap[d]), s.heap[d][j] = b
        PROVE  InMemory(u.ent[b.num])
    <3>1. Has(s, b.num, "PRES") \/ Has(s, b.num, "FREE")
      BY <2>2, PlaceHeader
    <3>2. SameUse(s, u, b.num)
      BY <1>3, <2>2
    <3> QED BY <3>1, <3>2 DEF InMemory, Has, SameUse
  <2> QED BY <1>1, <2>1, <2>2
<1> QED BY <1>2, <1>6, <1>7 DEF HeadersGood

\* Lemma: objects keep their blocks, and locked ones their addresses.
LEMMA CollectedBlock ==
  ASSUME NEW s, Good(s), NEW c \in 1 .. Len(s.heap), NEW u, NEW f, AllGathered(s, c, u, f),
         NEW t, Readdressed(u, t, c, f), OldBlocks(s, s.heap[c]), NEW n, Owned(s, n)
  PROVE  BlockStays(s, t, n) /\ (Has(s, n, "LOCK") => t.ent[n].at = s.ent[n].at)
<1>1. /\ \A b : b \in BlocksOf(t.heap) <=>
                  \/ \E i \in 1 .. Len(f) : f[i] = b
                  \/ \E d \in 1 .. Len(s.heap) : d # c /\ \E j \in 1 .. Len(s.heap[d]) : s.heap[d][j] = b
  <2>1. t.heap = [s.heap EXCEPT ![c] = f] /\ Replaced(t.ent, s.heap, c, f)
    BY CollectedHeap
  <2> QED BY <2>1 DEF Replaced
<1>2. n \in Entries /\ ~Has(s, n, "FREE")
  BY DEF Owned
<1>3. SameUse(s, u, n)
  BY <1>2, GatheredEntry
<1>4. s.heap \in Seq(Seq(BlockType)) /\ Separate(s.heap) /\ s \in StateType
  BY StateFields DEF Good, HeapGood
<1>5. ASSUME NEW i \in 1 .. Len(s.heap[c]), s.heap[c][i].num = n
      PROVE  In(s.heap[c][i], f)
  <2>1. InMemory(u.ent[n])
    <3>1. Has(s, n, "PRES") \/ Has(s, n, "FREE")
      BY <1>5, PlaceHeader
    <3> QED BY <1>3, <3>1 DEF InMemory, Has, SameUse
  <2>2. PICK x : In(x, f) /\ x.num = n
    <3>1. \A j \in 1 .. Len(s.heap[c]) : InMemory(u.ent[s.heap[c][j].num]) =>
            \E x : In(x, f) /\ x.num = s.heap[c][j].num
      BY Zenon DEF AllGathered, PiecesGood
    <3> QED BY <1>5, <2>1, <3>1
  <2>3. FromOld(s, s.heap[c], Len(s.heap[c]), x)
    BY <2>2, Zenon DEF AllGathered, PiecesGood
  <2>4. PICK j \in 1 .. Len(s.heap[c]) : s.heap[c][j].num = x.num /\ x = s.heap[c][j]
    BY <1>2, <2>2, <2>3, Zenon DEF FromOld
  <2>5. j = i
    BY <1>4, <1>5, <2>2, <2>4 DEF Separate
  <2> QED BY <2>2, <2>4, <2>5
<1>6. BlockStays(s, t, n)
  <2> SUFFICES ASSUME NEW b \in BlocksOf(s.heap), b.num = n PROVE b \in BlocksOf(t.heap)
    BY DEF BlockStays
  <2>1. PICK d \in 1 .. Len(s.heap) : \E j \in 1 .. Len(s.heap[d]) : s.heap[d][j] = b
    BY <1>4, BlocksFacts
  <2>2. CASE d = c
    <3>1. In(b, f)
      BY <1>5, <2>1, <2>2
    <3> QED BY <1>1, <3>1 DEF In
  <2>3. CASE d # c
    BY <1>1, <2>1, <2>3
  <2> QED BY <2>2, <2>3
<1>7. ASSUME Has(s, n, "LOCK") PROVE t.ent[n].at = s.ent[n].at
  <2>1. Has(s, n, "PRES")
    BY <1>2, <1>7 DEF Good, EntryGood, Has
  <2>2. PICK d \in 1 .. Len(s.heap) : \E j \in 1 .. Len(s.heap[d]) : s.heap[d][j].num = n
    BY <1>2, <2>1, HeaderPlace
  <2>3. PICK j \in 1 .. Len(s.heap[d]) : s.heap[d][j].num = n
    BY <2>2
  <2>4. CASE d = c
    <3>1. PICK p \in 1 .. Len(f) : f[p] = s.heap[c][j]
      BY <1>5, <2>3, <2>4 DEF In
    <3>2. f[p].num = n
      BY <2>3, <2>4, <3>1
    <3>3. SizeOfBlocks(u, SubSeq(f, 1, p - 1)) = s.ent[n].at[2]
      BY <1>7, <3>2 DEF AllGathered, LocksIn
    <3>4. t.ent[n].at = <<c, SizeOfBlocks(u, SubSeq(f, 1, p - 1))>>
      BY <3>2 DEF Readdressed
    <3>5. s.ent[n].at[1] = c
      BY <2>3, <2>4, EndFits
    <3>6. s.ent[n].at = <<s.ent[n].at[1], s.ent[n].at[2]>>
      BY <1>2, <1>4, EntryFields
    <3> QED BY <3>3, <3>4, <3>5, <3>6
  <2>5. CASE d # c
    <3>1. Apart(s.heap, c, f)
      BY GatheredApart
    <3>2. \A i \in 1 .. Len(f) : f[i].num # n
      BY <2>3, <2>5, <3>1 DEF Apart
    <3>3. t.ent[n] = u.ent[n]
      BY <1>2, <3>2 DEF Readdressed
    <3> QED BY <1>3, <3>3 DEF SameUse
  <2> QED BY <2>4, <2>5
<1> QED BY <1>6, <1>7

\* Lemma: a chunk that was collected is readdressed.
LEMMA CollectReaddressed ==
  ASSUME NEW s, Good(s), NEW c \in 1 .. Len(s.heap), NEW u, NEW f, AllGathered(s, c, u, f)
  PROVE  Readdressed(u, Readdress(WithChunk(u, c, f), c), c, f)
<1>1. u \in StateType /\ u.heap = s.heap /\ SizeOfBlocks(u, f) = Chunk
  BY Zenon DEF AllGathered, StillGood
<1>2. f \in Seq(BlockType) /\ Distinct(f) /\ Apart(s.heap, c, f)
  BY GatheredApart
<1>3. s.heap \in Seq(Seq(BlockType)) /\ Separate(s.heap) /\ Len(s.heap) <= MaxChunks
  <2>1. s \in StateType /\ HeapGood(s.ent, s.heap) /\ s.room >= 0 /\ s.room + Len(s.heap) <= MaxChunks
    BY DEF Good
  <2>2. s.heap \in Seq(Seq(BlockType)) /\ s.room \in Int
    BY <2>1, StateFields
  <2>3. Len(s.heap) <= MaxChunks
    BY <2>1, <2>2, ConstFacts
  <2> QED BY <2>1, <2>2, <2>3 DEF HeapGood
<1>4. PICK w : w = WithChunk(u, c, f)
  OBVIOUS
<1>5. w.heap = [u.heap EXCEPT ![c] = f]
  <2>1. u.heap = s.heap /\ u \in StateType
    BY <1>1
  <2> QED BY <1>4, <2>1, <1>2, <1>3, ChunkFields DEF Fields
<1>6. Separate(w.heap)
  BY <1>1, <1>2, <1>3, <1>5, SeparateReplaced
<1>7. u \in StateType /\ c \in 1 .. Len(u.heap) /\ Len(u.heap) <= MaxChunks
  BY <1>1, <1>3
<1>8. f \in Seq(BlockType) /\ SizeOfBlocks(u, f) = Chunk
  BY <1>1, <1>2
<1>9. \A t : t = Readdress(w, c) => Readdressed(u, t, c, f)
  BY <1>4, <1>6, <1>7, <1>8, ReaddressFacts
<1> QED BY <1>4, <1>9

\* Lemma: when a chunk has been collected, heap, entries and lists agree.
LEMMA CollectedGood ==
  ASSUME NEW s, Good(s), NEW c \in 1 .. Len(s.heap), NEW u, NEW f, AllGathered(s, c, u, f),
         NEW t, Readdressed(u, t, c, f), OldBlocks(s, s.heap[c])
  PROVE  Good(t) /\ Keeps(s, t) /\ Len(t.heap) = Len(s.heap)
<1>1. /\ u.heap = s.heap /\ u.lru = s.lru /\ u.segs = s.segs /\ u.room = s.room
      /\ ListOf(u.ent, u.free, "FREE")
  BY Zenon DEF AllGathered, StillGood
<1>2. /\ t \in StateType /\ t.free = u.free /\ t.unused = u.unused /\ t.lru = s.lru
      /\ t.segs = s.segs /\ t.room = s.room
  BY <1>1 DEF Readdressed
<1>3. t.heap = [s.heap EXCEPT ![c] = f] /\ Replaced(t.ent, s.heap, c, f)
  BY CollectedHeap
<1>4. HeapGood(t.ent, t.heap) /\ Len(t.heap) = Len(s.heap)
  BY <1>3 DEF Replaced
<1>5. HeadersGood(t.ent, t.heap)
  BY CollectedHeaders
<1>6. \A n \in Entries : /\ EntryGood(t.ent[n])
                         /\ t.ent[n].seg = s.ent[n].seg \/ t.ent[n].seg = NoSeg
                         /\ "LRU" \in t.ent[n].flg <=> "LRU" \in s.ent[n].flg
                         /\ n \in t.unused => t.ent[n] = UnusedEntry
  BY CollectedEntry
<1>7. ListsGood(t.ent, t.free, t.lru)
  <2>1. \A n \in Entries : t.ent[n].flg = u.ent[n].flg
    BY DEF Readdressed
  <2>2. ListOf(t.ent, u.free, "FREE")
    BY <1>1, <2>1, Zenon DEF ListOf
  <2>3. ListOf(s.ent, s.lru, "LRU")
    BY DEF Good, ListsGood
  <2>4. ListOf(t.ent, s.lru, "LRU")
    BY <1>6, <2>3, Zenon DEF ListOf
  <2> QED BY <1>2, <2>2, <2>4 DEF ListsGood
<1>8. \A n \in t.unused : t.ent[n] = UnusedEntry
  BY <1>2, <1>6, StateFields
<1>9. SegsGood(t.ent, t.segs)
  <2>1. SegsKept(s.ent, t.ent) /\ SegsGood(s.ent, s.segs)
    BY <1>6 DEF SegsKept, Good
  <2> QED BY <1>2, <2>1, SegsStay
<1>10. FileSize(t) <= SwapSize
  BY <1>2, FileStays DEF Good
<1>11. t.room >= 0 /\ t.heap # << >> /\ t.room + Len(t.heap) <= MaxChunks
  <2>1. s.heap # << >> /\ s.room >= 0 /\ s.room + Len(s.heap) <= MaxChunks /\ s \in StateType
    BY DEF Good
  <2>2. s.heap \in Seq(Seq(BlockType)) /\ t.heap \in Seq(Seq(BlockType))
    BY <1>2, <2>1, StateFields
  <2>3. t.heap # << >>
    BY <1>4, <2>1, <2>2
  <2> QED BY <1>2, <1>4, <2>1, <2>3
<1>12. Good(t)
  BY <1>2, <1>4, <1>5, <1>6, <1>7, <1>8, <1>9, <1>10, <1>11, GoodParts
<1>13. ASSUME NEW n, Owned(s, n) PROVE Kept(s, t, n)
  <2>1. n \in Entries /\ n \notin s.unused /\ ~Has(s, n, "FREE")
    BY <1>13 DEF Owned
  <2>2. /\ t.ent[n].flg = s.ent[n].flg /\ t.ent[n].siz = s.ent[n].siz
        /\ t.ent[n].locks = s.ent[n].locks /\ t.ent[n].seg = s.ent[n].seg
        /\ n \notin t.unused
    BY <2>1, CollectedEntry
  <2>3. BlockStays(s, t, n) /\ (Has(s, n, "LOCK") => t.ent[n].at = s.ent[n].at)
    BY <1>13, CollectedBlock
  <2>4. SameEntry(s, t, n)
    BY <2>2, <2>3 DEF SameEntry, Has
  <2>5. Separate(t.heap)
    BY <1>4 DEF HeapGood
  <2> QED BY <1>2, <1>13, <2>2, <2>3, <2>4, <2>5, KeptIf
<1>14. Modest(s, t)
  <2> SUFFICES ASSUME NEW n \in Entries PROVE t.ent[n].locks = s.ent[n].locks \/ t.ent[n].locks = 0
    BY DEF Modest
  <2>1. CASE Has(s, n, "FREE")
    <3>1. t.ent[n].locks = u.ent[n].locks
      BY DEF Readdressed
    <3>2. SameUse(s, u, n) \/ StillFree(u, n) \/ MergedIn(u, n)
      BY GatheredEntry
    <3> QED BY <3>1, <3>2, UnusedEntryFacts DEF SameUse, StillFree, MergedIn
  <2>2. CASE ~Has(s, n, "FREE")
    BY <2>2, CollectedEntry
  <2> QED BY <2>1, <2>2
<1> QED BY <1>4, <1>12, <1>13, <1>14 DEF Keeps

\* The free blocks of chunk c have been gathered, in the others nothing has changed.
LruSame(s, t) == \A n \in Entries : Has(t, n, "LRU") <=> Has(s, n, "LRU")
Tighter(s, t, c) ==
  \A d \in 1 .. Len(s.heap) : d = c \/ Tight(s, s.heap[d]) => Tight(t, t.heap[d])

\* Lemma: when a chunk has been collected, its blocks are tight.
LEMMA CollectedTight ==
  ASSUME NEW s, Good(s), NEW c \in 1 .. Len(s.heap), NEW u, NEW f, AllGathered(s, c, u, f),
         NEW t, Readdressed(u, t, c, f), OldBlocks(s, s.heap[c]), Tight(s, f)
  PROVE  Tighter(s, t, c) /\ LruSame(s, t)
<1>1. t.heap = [s.heap EXCEPT ![c] = f]
  BY CollectedHeap
<1>2. s.heap \in Seq(Seq(BlockType))
  BY StateFields DEF Good
<1>3. /\ f \in Seq(BlockType)
      /\ \A d \in 1 .. Len(s.heap) : d # c => \A j \in 1 .. Len(s.heap[d]) :
           SameUse(s, u, s.heap[d][j].num)
  BY GatheredApart
<1>4. \A n \in Entries : t.ent[n].flg = u.ent[n].flg
  BY DEF Readdressed
<1>5. SameFlags(s, t, f)
  <2> SUFFICES ASSUME NEW i \in 1 .. Len(f)
               PROVE  (FreeAt(t, f, i) <=> FreeAt(s, f, i)) /\ (LockAt(t, f, i) <=> LockAt(s, f, i))
    BY DEF SameFlags
  <2>1. PICK n : n = f[i].num
    OBVIOUS
  <2>2. n \in Entries
    <3>1. f[i] \in BlockType
      BY <1>3
    <3> QED BY <2>1, <3>1 DEF BlockType
  <2>3. InMemory(u.ent[n])
    <3>1. In(f[i], f)
      BY DEF In
    <3> QED BY <2>1, <3>1, Zenon DEF AllGathered, PiecesGood
  <2>4. ~MergedIn(u, n)
    BY <2>3, UnusedEntryFacts DEF MergedIn, InMemory
  <2>5. SameUse(s, u, n) \/ (Has(s, n, "FREE") /\ StillFree(u, n))
    BY <2>2, <2>4, GatheredEntry
  <2>6. EntryGood(s.ent[n])
    BY <2>2 DEF Good
  <2>7. u.ent[n].flg = s.ent[n].flg
    BY <2>5, <2>6 DEF SameUse, StillFree, EntryGood, Has
  <2>8. t.ent[n].flg = s.ent[n].flg
    BY <1>4, <2>2, <2>7
  <2> QED BY <2>1, <2>8 DEF FreeAt, LockAt, Has
<1>6. Tight(t, f)
  BY <1>3, <1>5, TightSame
<1>7. ASSUME NEW d \in 1 .. Len(s.heap), d # c, Tight(s, s.heap[d]) PROVE Tight(t, s.heap[d])
  <2>1. PICK q : q = s.heap[d]
    OBVIOUS
  <2>2. q \in Seq(BlockType)
    BY <1>2, <2>1
  <2>3. SameFlags(s, t, q)
    <3> SUFFICES ASSUME NEW i \in 1 .. Len(q)
                 PROVE  (FreeAt(t, q, i) <=> FreeAt(s, q, i)) /\ (LockAt(t, q, i) <=> LockAt(s, q, i))
      BY DEF SameFlags
    <3>1. PICK n : n = q[i].num
      OBVIOUS
    <3>2. n \in Entries
      <4>1. q[i] \in BlockType
        BY <2>2
      <4> QED BY <3>1, <4>1 DEF BlockType
    <3>3. SameUse(s, u, n)
      BY <1>3, <1>7, <2>1, <3>1
    <3>4. t.ent[n].flg = s.ent[n].flg
      BY <1>4, <3>2, <3>3 DEF SameUse
    <3> QED BY <3>1, <3>4 DEF FreeAt, LockAt, Has
  <2> QED BY <1>7, <2>1, <2>2, <2>3, TightSame
<1>8. Tighter(s, t, c)
  <2> SUFFICES ASSUME NEW d \in 1 .. Len(s.heap), d = c \/ Tight(s, s.heap[d])
               PROVE  Tight(t, t.heap[d])
    BY DEF Tighter
  <2>1. CASE d = c
    <3>1. t.heap[d] = f
      BY <1>1, <1>2, <2>1
    <3> QED BY <1>6, <3>1
  <2>2. CASE d # c
    <3>1. t.heap[d] = s.heap[d]
      BY <1>1, <1>2, <2>2
    <3> QED BY <1>7, <2>2, <3>1
  <2> QED BY <2>1, <2>2
<1>9. LruSame(s, t)
  <2> SUFFICES ASSUME NEW n \in Entries PROVE Has(t, n, "LRU") <=> Has(s, n, "LRU")
    BY DEF LruSame
  <2>1. "LRU" \in t.ent[n].flg <=> "LRU" \in s.ent[n].flg
    BY CollectedEntry
  <2> QED BY <2>1 DEF Has
<1> QED BY <1>8, <1>9

\* Lemma: so collecting a chunk keeps everything that is owned.
LEMMA CollectGood ==
  ASSUME NEW s, Good(s), NEW c \in 1 .. Len(s.heap)
  PROVE  /\ Good(Collect(s, c)) /\ Keeps(s, Collect(s, c)) /\ Len(Collect(s, c).heap) = Len(s.heap)
         /\ Tighter(s, Collect(s, c), c) /\ LruSame(s, Collect(s, c))
<1>1. PICK a : a = FoldLeft(Gather, Ungathered(s), s.heap[c])
  OBVIOUS
<1>2. AllGathered(s, c, a.m, Flush(a)) /\ OldBlocks(s, s.heap[c]) /\ Tight(s, Flush(a))
  BY <1>1, GatheredAll
<1>3. PICK t : t = Readdress(WithChunk(a.m, c, Flush(a)), c)
  OBVIOUS
<1>4. Readdressed(a.m, t, c, Flush(a))
  BY <1>2, <1>3, CollectReaddressed
<1>5. Collect(s, c) = t
  BY <1>1, <1>3 DEF Collect, WithChunk
<1>6. Good(t) /\ Keeps(s, t) /\ Len(t.heap) = Len(s.heap)
  BY <1>2, <1>4, CollectedGood
<1>7. Tighter(s, t, c) /\ LruSame(s, t)
  BY <1>2, <1>4, CollectedTight
<1> QED BY <1>5, <1>6, <1>7

\* mcmgarb is a fold over the chunks.
CollectNext(env, s, c) == Collect(s, c)
TightTo(s, i) == \A d \in 1 .. i : Tight(s, s.heap[d])
CollectSoFar(env, i, s) ==
  Good(s) /\ Keeps(env, s) /\ Len(s.heap) = Len(env.heap) /\ LruSame(env, s) /\ TightTo(s, i)
Collecting == INSTANCE Induction WITH Step <- CollectNext, Holds <- CollectSoFar

\* Lemma: it is one.
LEMMA mcmgarbIsFold ==
  ASSUME NEW s
  PROVE  mcmgarb(s) = Collecting!Fold(s, s, UpTo(Len(s.heap)))
BY DEF mcmgarb, Collecting!Fold, CollectNext, FoldLeft, MapThenFoldSet, Max, Collecting!Largest,
       Collecting!MapThenFoldSet

\* Theorem: collecting garbage keeps the cache consistent and everything that
\* is owned as it was, and leaves no two free blocks without a locked one between
\* them (mcmgarb, mcmreloc, mcmconsol).
THEOREM mcmgarbGood ==
  ASSUME NEW s, Good(s), NEW t, t = mcmgarb(s)
  PROVE  Good(t) /\ Keeps(s, t) /\ LruSame(s, t) /\ TightTo(t, Len(t.heap))
<1>1. s \in StateType /\ Len(s.heap) \in Nat
  <2>1. s \in StateType
    BY DEF Good
  <2> QED BY <2>1, StateFields
<1>2. PICK q : q = UpTo(Len(s.heap))
  OBVIOUS
<1>3. q \in Seq(1 .. Len(s.heap)) /\ Len(q) = Len(s.heap) /\ \A i \in 1 .. Len(s.heap) : q[i] = i
  BY <1>1, <1>2, UpToFacts
<1>4. CollectSoFar(s, 0, s)
  <2>1. \A d : ~(d \in 1 .. 0)
    OBVIOUS
  <2>2. LruSame(s, s) /\ TightTo(s, 0)
    BY <2>1 DEF LruSame, TightTo
  <2> QED BY <2>2, KeepsSame DEF CollectSoFar
<1>5. ASSUME NEW x, NEW i \in 1 .. Len(q), CollectSoFar(s, i - 1, x)
      PROVE  CollectSoFar(s, i, CollectNext(s, x, q[i]))
  <2>1. /\ Good(x) /\ Keeps(s, x) /\ Len(x.heap) = Len(s.heap)
        /\ LruSame(s, x) /\ TightTo(x, i - 1)
    BY <1>5 DEF CollectSoFar
  <2>2. PICK c : c = q[i]
    OBVIOUS
  <2>3. c \in 1 .. Len(x.heap) /\ c = i
    BY <1>3, <1>5, <2>1, <2>2
  <2>4. PICK y : y = Collect(x, c)
    OBVIOUS
  <2>5. /\ Good(y) /\ Keeps(x, y) /\ Len(y.heap) = Len(x.heap)
        /\ Tighter(x, y, c) /\ LruSame(x, y)
    BY <2>1, <2>3, <2>4, CollectGood
  <2>6. Keeps(s, y)
    BY <2>1, <2>5, KeepsTwice
  <2>7. LruSame(s, y)
    BY <2>1, <2>5 DEF LruSame
  <2>8. TightTo(y, i)
    <3>1. \A d \in 1 .. i : (d = c \/ d \in 1 .. (i - 1)) /\ d \in 1 .. Len(x.heap)
      BY <1>1, <2>1, <2>3
    <3> QED BY <2>1, <2>5, <3>1, Zenon DEF TightTo, Tighter
  <2> QED BY <2>1, <2>2, <2>4, <2>5, <2>6, <2>7, <2>8 DEF CollectSoFar, CollectNext
<1>6. CollectSoFar(s, Len(q), Collecting!Fold(s, s, q))
  <2>1. q \in Seq(1 .. Len(s.heap))
    BY <1>3
  <2>2. \A x : \A i \in 1 .. Len(q) :
          CollectSoFar(s, i - 1, x) => CollectSoFar(s, i, CollectNext(s, x, q[i]))
    BY <1>5
  <2> QED BY <1>4, <2>1, <2>2, Collecting!Induct
<1>7. t = Collecting!Fold(s, s, q)
  BY <1>2, mcmgarbIsFold
<1>8. Good(t) /\ Keeps(s, t) /\ Len(t.heap) = Len(s.heap) /\ LruSame(s, t) /\ TightTo(t, Len(q))
  BY <1>6, <1>7, Zenon DEF CollectSoFar
<1> QED BY <1>3, <1>8
=============================================================================
