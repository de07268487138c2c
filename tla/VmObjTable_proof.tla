--------------------------- MODULE VmObjTable_proof ---------------------------
(***************************************************************************)
(* Proofs about VmObjTable: for object tables of any size, if finalizers   *)
(* do not collect garbage, no list that shares next_obj is ever corrupted, *)
(* the collector frees no object that the game can reach and keeps none    *)
(* that it cannot, and no object is finalized twice.                       *)
(***************************************************************************)
EXTENDS VmObjTable, FiniteSetTheorems, TLAPS

\* Induction over the natural numbers; it is used for no folds.
NoTurn(env, a, x) == a
NoClaim(env, i, a) == TRUE
Nats == INSTANCE Induction WITH Step <- NoTurn, Holds <- NoClaim

\* Lemma: the entries of the table.
LEMMA IdsFacts ==
  /\ Ids \subseteq Nat \ {0} /\ Invalid \notin Ids /\ NumObjects \in Ids /\ 1 \in Ids
  /\ RootSet \subseteq Ids /\ Invalid = 0 /\ NumObjects \in Nat \ {0}
  /\ IsFiniteSet(Ids) /\ Cardinality(Ids) = NumObjects
<1>1. NumObjects \in Nat \ {0} /\ RootSet \subseteq Ids
  BY TableAssumption
<1>2. IsFiniteSet(Ids) /\ Cardinality(Ids) = NumObjects
  BY <1>1, FS_Interval DEF Ids
<1> QED BY <1>1, <1>2 DEF Ids, Invalid

-----------------------------------------------------------------------------
\* The objects q[1], ..., q[n] are those of a list that begins at h.
Chain(f, h, n, q) ==
  /\ n \in Nat /\ q \in [1 .. n -> Ids]
  /\ \A i, j \in 1 .. n : q[i] = q[j] => i = j
  /\ h = IF n = 0 THEN Invalid ELSE q[1]
  /\ \A i \in 1 .. n : f[q[i]] = IF i = n THEN Invalid ELSE q[i + 1]

\* S are the objects of a list that begins at h.
Listed(f, h, S) == \E n, q : Chain(f, h, n, q) /\ S = {q[i] : i \in 1 .. n}

\* Lemma: what a list consists of, and when it is empty.
LEMMA ListedFacts ==
  ASSUME NEW f, NEW h, NEW S, Listed(f, h, S)
  PROVE  /\ S \subseteq Ids /\ h \in Ids \union {Invalid}
         /\ h = Invalid <=> S = {}
         /\ h # Invalid => h \in S
<1>1. PICK n, q : Chain(f, h, n, q) /\ S = {q[i] : i \in 1 .. n}
  BY DEF Listed
<1>2. n = 0 \/ 1 \in 1 .. n
  BY <1>1 DEF Chain
<1> QED BY <1>1, <1>2, IdsFacts DEF Chain

\* Lemma: no list begins at Invalid, but the empty one.
LEMMA ListedEmpty ==
  ASSUME NEW f
  PROVE  Listed(f, Invalid, {})
<1> DEFINE q == [i \in 1 .. 0 |-> 1]
<1>1. Chain(f, Invalid, 0, q) /\ {q[i] : i \in 1 .. 0} = {}
  BY DEF Chain
<1> QED BY <1>1 DEF Listed

\* Lemma: an object is put at the head of a list that it is not in.
LEMMA ListedPush ==
  ASSUME NEW f, NEW h, NEW S, Listed(f, h, S), NEW o \in Ids, o \notin S,
         NEW g, g[o] = h, \A x \in S : g[x] = f[x]
  PROVE  Listed(g, o, S \union {o})
<1>1. PICK n, q : Chain(f, h, n, q) /\ S = {q[i] : i \in 1 .. n}
  BY DEF Listed
<1> DEFINE r == [i \in 1 .. (n + 1) |-> IF i = 1 THEN o ELSE q[i - 1]]
<1>2. n \in Nat /\ q \in [1 .. n -> Ids] /\ \A i \in 1 .. n : q[i] \in S /\ q[i] \in Ids
  BY <1>1 DEF Chain
<1>3. r \in [1 .. (n + 1) -> Ids] /\ r[1] = o
      /\ \A i \in 1 .. n : i + 1 \in 1 .. (n + 1) /\ r[i + 1] = q[i]
  BY <1>2
<1>4. \A i \in 1 .. (n + 1) : i = 1 \/ (i - 1 \in 1 .. n /\ r[i] = q[i - 1])
  BY <1>2
<1>5. \A i, j \in 1 .. (n + 1) : r[i] = r[j] => i = j
  <2> SUFFICES ASSUME NEW i \in 1 .. (n + 1), NEW j \in 1 .. (n + 1), r[i] = r[j]
               PROVE  i = j
    OBVIOUS
  <2> HIDE DEF r
  <2>1. CASE i = 1 \/ j = 1
    BY <1>2, <1>3, <1>4, <2>1
  <2>2. CASE i # 1 /\ j # 1
    <3>1. q[i - 1] = q[j - 1] /\ i - 1 \in 1 .. n /\ j - 1 \in 1 .. n
      BY <1>4, <2>2
    <3>2. i - 1 = j - 1
      BY <1>1, <3>1 DEF Chain
    <3> QED BY <1>2, <3>2
  <2> QED BY <2>1, <2>2
<1> HIDE DEF r
<1>6. \A i \in 1 .. (n + 1) : g[r[i]] = IF i = n + 1 THEN Invalid ELSE r[i + 1]
  <2> SUFFICES ASSUME NEW i \in 1 .. (n + 1)
               PROVE  g[r[i]] = IF i = n + 1 THEN Invalid ELSE r[i + 1]
    OBVIOUS
  <2>1. CASE i = 1
    <3>1. g[r[i]] = h
      BY <1>3, <2>1
    <3>2. CASE n = 0
      BY <1>1, <2>1, <3>1, <3>2 DEF Chain
    <3>3. CASE n # 0
      BY <1>1, <1>2, <1>3, <2>1, <3>1, <3>3 DEF Chain
    <3> QED BY <3>2, <3>3
  <2>2. CASE i # 1
    <3>1. i - 1 \in 1 .. n /\ r[i] = q[i - 1] /\ q[i - 1] \in S
      BY <1>2, <1>4, <2>2
    <3>2. g[r[i]] = IF i - 1 = n THEN Invalid ELSE q[i]
      BY <1>1, <3>1 DEF Chain
    <3>3. i # n + 1 => r[i + 1] = q[i]
      BY <1>2, <1>3, <3>1
    <3> QED BY <1>2, <3>1, <3>2, <3>3
  <2> QED BY <2>1, <2>2
<1>7. Chain(g, o, n + 1, r)
  BY <1>2, <1>3, <1>5, <1>6 DEF Chain
<1>8. S \union {o} = {r[i] : i \in 1 .. (n + 1)}
  <2>1. \A i \in 1 .. (n + 1) : r[i] \in S \union {o}
    BY <1>2, <1>3, <1>4
  <2>2. \A x \in S : \E i \in 1 .. (n + 1) : r[i] = x
    BY <1>1, <1>3
  <2>3. 1 \in 1 .. (n + 1)
    BY <1>2
  <2> QED BY <1>3, <2>1, <2>2, <2>3
<1> QED BY <1>7, <1>8 DEF Listed

\* Lemma: the head of a list is taken away.
LEMMA ListedPop ==
  ASSUME NEW f, NEW h, NEW S, Listed(f, h, S), h # Invalid
  PROVE  Listed(f, f[h], S \ {h})
<1>1. PICK n, q : Chain(f, h, n, q) /\ S = {q[i] : i \in 1 .. n}
  BY DEF Listed
<1> DEFINE r == [i \in 1 .. (n - 1) |-> q[i + 1]]
<1>2. n \in Nat /\ n # 0 /\ q \in [1 .. n -> Ids] /\ h = q[1] /\ 1 \in 1 .. n
  BY <1>1 DEF Chain
<1>3. n - 1 \in Nat /\ r \in [1 .. (n - 1) -> Ids]
      /\ \A i \in 1 .. (n - 1) : i + 1 \in 1 .. n /\ r[i] = q[i + 1] /\ r[i] # h
  <2>1. \A i \in 1 .. (n - 1) : i + 1 \in 1 .. n /\ i + 1 # 1
    BY <1>2
  <2> QED BY <1>1, <1>2, <2>1 DEF Chain
<1> HIDE DEF r
<1>4. \A i, j \in 1 .. (n - 1) : r[i] = r[j] => i = j
  <2> SUFFICES ASSUME NEW i \in 1 .. (n - 1), NEW j \in 1 .. (n - 1), r[i] = r[j]
               PROVE  i = j
    OBVIOUS
  <2>1. i + 1 = j + 1
    BY <1>1, <1>3 DEF Chain
  <2> QED BY <2>1
<1>5. \A i \in 1 .. (n - 1) : f[r[i]] = IF i = n - 1 THEN Invalid ELSE r[i + 1]
  BY <1>1, <1>2, <1>3 DEF Chain
<1>6. f[h] = IF n - 1 = 0 THEN Invalid ELSE r[1]
  <2>1. f[h] = IF n = 1 THEN Invalid ELSE q[2]
    BY <1>1, <1>2 DEF Chain
  <2>2. n # 1 => 1 \in 1 .. (n - 1) /\ r[1] = q[2]
    BY <1>2, <1>3
  <2> QED BY <1>2, <2>1, <2>2
<1>7. Chain(f, f[h], n - 1, r)
  BY <1>3, <1>4, <1>5, <1>6 DEF Chain
<1>8. S \ {h} = {r[i] : i \in 1 .. (n - 1)}
  <2>1. \A i \in 1 .. n : i = 1 \/ (i - 1 \in 1 .. (n - 1) /\ r[i - 1] = q[i])
    BY <1>2, <1>3
  <2> QED BY <1>1, <1>2, <1>3, <2>1
<1> QED BY <1>7, <1>8 DEF Listed

\* Lemma: a list is left alone if the links of its objects are.
LEMMA ListedSame ==
  ASSUME NEW f, NEW h, NEW S, Listed(f, h, S), NEW g, \A x \in S : g[x] = f[x]
  PROVE  Listed(g, h, S)
<1>1. PICK n, q : Chain(f, h, n, q) /\ S = {q[i] : i \in 1 .. n}
  BY DEF Listed
<1>2. Chain(g, h, n, q)
  BY <1>1 DEF Chain
<1> QED BY <1>1, <1>2 DEF Listed

-----------------------------------------------------------------------------
\* What Path, Met, Ends and Closure are: facts by induction along the links.

\* Lemma: Path follows the links, and stays at the end.
LEMMA PathDef ==
  ASSUME NEW f, NEW o
  PROVE  /\ Path(f, o)[0] = o
         /\ \A n \in 1 .. NumObjects :
              Path(f, o)[n] = IF Path(f, o)[n - 1] = Invalid THEN Invalid
                              ELSE f[Path(f, o)[n - 1]]
         /\ DOMAIN Path(f, o) = 0 .. NumObjects
<1> DEFINE Step(w, n) == IF n = 0 THEN o
                         ELSE IF w[n - 1] = Invalid THEN Invalid ELSE f[w[n - 1]]
           Is(w, m) == w = [n \in 0 .. m |-> Step(w, n)]
           G == {m \in Nat : \E w : Is(w, m)}
<1>1. 0 \in G
  <2>1. Is([n \in 0 .. 0 |-> o], 0)
    OBVIOUS
  <2> QED BY <2>1
<1>2. \A m \in Nat : m \in G => m + 1 \in G
  <2> SUFFICES ASSUME NEW m \in Nat, NEW w, Is(w, m) PROVE \E v : Is(v, m + 1)
    OBVIOUS
  <2> DEFINE v == [n \in 0 .. (m + 1) |-> IF n = m + 1 THEN Step(w, n) ELSE w[n]]
  <2>1. \A n \in 0 .. m : w[n] = Step(w, n) /\ v[n] = w[n]
    OBVIOUS
  <2>2. v[m + 1] = Step(w, m + 1) /\ v[m] = w[m]
    OBVIOUS
  <2>3. v = [n \in 0 .. (m + 1) |-> v[n]]
    OBVIOUS
  <2> HIDE DEF v
  <2>4. ASSUME NEW n \in 0 .. (m + 1) PROVE v[n] = Step(v, n)
    <3>1. CASE n = m + 1
      BY <2>2, <3>1
    <3>2. CASE n # m + 1
      <4>1. n \in 0 .. m /\ (n # 0 => n - 1 \in 0 .. m)
        BY <3>2
      <4> QED BY <2>1, <4>1
    <3> QED BY <3>1, <3>2
  <2>5. Is(v, m + 1)
    BY <2>3, <2>4
  <2> QED BY <2>5
<1>3. NumObjects \in G
  <2> HIDE DEF G
  <2> QED BY <1>1, <1>2, Nats!NatInSet, IdsFacts
<1>4. Is(Path(f, o), NumObjects)
  BY <1>3 DEF Path
<1> QED BY <1>4, IdsFacts

\* Lemma: what is met along the links.
LEMMA MetFacts ==
  ASSUME NEW f, NEW o
  PROVE  Met(f, o) = {Path(f, o)[n] : n \in 0 .. NumObjects} \ {Invalid}
  BY PathDef DEF Met, Range

\* Lemma: along a list, the objects of the list are met, and it ends.
LEMMA ListedMet ==
  ASSUME NEW f, NEW h, NEW S, Listed(f, h, S)
  PROVE  Met(f, h) = S /\ Ends(f, h)
<1>1. PICK n, q : Chain(f, h, n, q) /\ S = {q[i] : i \in 1 .. n}
  BY DEF Listed
<1>2. n \in Nat /\ q \in [1 .. n -> Ids] /\ \A i \in 1 .. n : q[i] \in Ids /\ q[i] # Invalid
  BY <1>1, IdsFacts DEF Chain
<1>3. n <= NumObjects
  <2>1. q \in Injection(1 .. n, Ids)
    BY <1>1 DEF Chain, Injection, IsInjective
  <2>2. Cardinality(1 .. n) <= Cardinality(Ids) /\ Cardinality(1 .. n) = n
    BY <1>2, <2>1, IdsFacts, FS_Injection, FS_Interval
  <2> QED BY <2>2, IdsFacts
<1> DEFINE P == Path(f, h)
           G == {m \in Nat : P[m] = IF m < n THEN q[m + 1] ELSE Invalid}
<1>4. 0 .. NumObjects \subseteq G
  <2>1. 0 \in G
    <3>1. P[0] = h
      BY PathDef
    <3> QED BY <1>1, <1>2, <3>1 DEF Chain
  <2>2. ASSUME NEW m \in 0 .. (NumObjects - 1), m \in G PROVE m + 1 \in G
    <3> HIDE DEF P
    <3>1. P[m + 1] = IF P[m] = Invalid THEN Invalid ELSE f[P[m]]
      <4>1. m + 1 \in 1 .. NumObjects /\ (m + 1) - 1 = m
        BY IdsFacts
      <4> QED BY <4>1, PathDef DEF P
    <3>2. CASE m < n
      <4>1. P[m] = q[m + 1] /\ m + 1 \in 1 .. n
        BY <1>2, <2>2, <3>2
      <4>2. P[m + 1] = IF m + 1 = n THEN Invalid ELSE q[(m + 1) + 1]
        BY <1>1, <1>2, <3>1, <4>1 DEF Chain
      <4>3. m + 1 < n <=> m + 1 # n
        BY <1>2, <3>2
      <4> QED BY <4>2, <4>3
    <3>3. CASE ~(m < n)
      <4>1. P[m + 1] = Invalid
        BY <2>2, <3>1, <3>3
      <4>2. ~(m + 1 < n)
        BY <1>2, <3>3
      <4> QED BY <4>1, <4>2
    <3> QED BY <3>2, <3>3
  <2> HIDE DEF G
  <2> QED BY <2>1, <2>2, Nats!UpToInSet, IdsFacts
<1>5. \A m \in 0 .. NumObjects : P[m] = IF m < n THEN q[m + 1] ELSE Invalid
  BY <1>4
<1> HIDE DEF P, G
<1>6. P[NumObjects] = Invalid
  BY <1>2, <1>3, <1>5, IdsFacts
<1>7. {P[m] : m \in 0 .. NumObjects} \ {Invalid} = S
  <2>1. \A m \in 0 .. NumObjects : m < n => m + 1 \in 1 .. n
    BY <1>2
  <2>2. \A i \in 1 .. n : i - 1 \in 0 .. NumObjects /\ P[i - 1] = q[i]
    BY <1>2, <1>3, <1>5, IdsFacts
  <2>3. \A m \in 0 .. NumObjects : P[m] # Invalid => P[m] \in S
    BY <1>1, <1>5, <2>1
  <2>4. \A i \in 1 .. n : q[i] \in {P[m] : m \in 0 .. NumObjects} \ {Invalid}
    BY <1>2, <2>2
  <2> QED BY <1>1, <2>3, <2>4
<1> QED BY <1>6, <1>7, MetFacts DEF Ends, P

-----------------------------------------------------------------------------
\* What can be reached from the objects S along the references f.
Reach(f, S) == UNION {Met(f, o) : o \in S}

\* Lemma: the objects themselves are reached.
LEMMA ReachHas ==
  ASSUME NEW f, NEW S, S \subseteq Ids
  PROVE  S \subseteq Reach(f, S)
<1> SUFFICES ASSUME NEW o \in S PROVE o \in Met(f, o)
  BY DEF Reach
<1>1. Path(f, o)[0] = o /\ 0 \in 0 .. NumObjects /\ o # Invalid
  BY PathDef, IdsFacts
<1> QED BY <1>1, MetFacts

\* Lemma: nothing is reached but what a closed set around S has.
LEMMA ReachIn ==
  ASSUME NEW f, NEW S, NEW T, S \subseteq T,
         \A o \in T : f[o] # Invalid /\ o # Invalid => f[o] \in T
  PROVE  Reach(f, S) \subseteq T
<1> SUFFICES ASSUME NEW o \in S PROVE Met(f, o) \subseteq T
  BY DEF Reach
<1> DEFINE P == Path(f, o)
           G == {m \in Nat : P[m] \in T \union {Invalid}}
<1>1. P[0] = o /\ \A m \in 1 .. NumObjects :
                    P[m] = IF P[m - 1] = Invalid THEN Invalid ELSE f[P[m - 1]]
  BY PathDef
<1> HIDE DEF P
<1>2. 0 \in G
  BY <1>1
<1>3. ASSUME NEW m \in 0 .. (NumObjects - 1), m \in G PROVE m + 1 \in G
  <2>1. m + 1 \in 1 .. NumObjects /\ (m + 1) - 1 = m
    BY IdsFacts
  <2>2. P[m + 1] = IF P[m] = Invalid THEN Invalid ELSE f[P[m]]
    BY <1>1, <2>1
  <2> QED BY <1>3, <2>2
<1> HIDE DEF G
<1>4. 0 .. NumObjects \subseteq G
  BY <1>2, <1>3, Nats!UpToInSet, IdsFacts
<1>5. \A m \in 0 .. NumObjects : P[m] \in T \union {Invalid}
  BY <1>4 DEF G
<1> QED BY <1>5, MetFacts DEF P

\* Lemma: what a reached object refers to is reached.  If it takes NumObjects
\* steps to come to the object, some object was met twice on the way, and there
\* is a shorter way.
LEMMA ReachStep ==
  ASSUME NEW f \in [Ids -> Ids \union {Invalid}], NEW S, S \subseteq Ids,
         NEW x \in Reach(f, S), f[x] # Invalid
  PROVE  f[x] \in Reach(f, S)
<1>1. PICK o \in S : x \in Met(f, o)
  BY DEF Reach
<1> DEFINE P == Path(f, o)
<1>2. P[0] = o /\ \A m \in 1 .. NumObjects :
                    P[m] = IF P[m - 1] = Invalid THEN Invalid ELSE f[P[m - 1]]
  BY PathDef
<1>3. PICK n \in 0 .. NumObjects : P[n] = x /\ x # Invalid
  BY <1>1, MetFacts
<1> SUFFICES \E m \in 0 .. NumObjects : P[m] = f[x]
  BY <1>1, MetFacts DEF Reach
<1>h. DOMAIN P = 0 .. NumObjects
  BY PathDef
<1> HIDE DEF P
<1>4. \A m \in 0 .. (NumObjects - 1) : P[m + 1] = IF P[m] = Invalid THEN Invalid ELSE f[P[m]]
  <2> TAKE m \in 0 .. (NumObjects - 1)
  <2>1. m + 1 \in 1 .. NumObjects /\ (m + 1) - 1 = m
    BY IdsFacts
  <2> QED BY <1>2, <2>1
<1>5. CASE n < NumObjects
  BY <1>3, <1>4, <1>5, IdsFacts
<1>6. CASE n = NumObjects
  <2> DEFINE G == {m \in Nat : P[m] \in Ids \union {Invalid}}
  <2>1. 0 .. NumObjects \subseteq G
    <3>1. 0 \in G
      BY <1>2
    <3>2. \A m \in 0 .. (NumObjects - 1) : m \in G => m + 1 \in G
      BY <1>4
    <3> HIDE DEF G
    <3> QED BY <3>1, <3>2, Nats!UpToInSet, IdsFacts
  <2>2. \A m \in 0 .. NumObjects : P[m] # Invalid
    <3> DEFINE H == {k \in Nat : P[NumObjects - k] # Invalid}
    <3>1. 0 \in H
      BY <1>3, <1>6, IdsFacts
    <3>2. ASSUME NEW k \in 0 .. (NumObjects - 1), k \in H PROVE k + 1 \in H
      <4>1. NumObjects - (k + 1) \in 0 .. (NumObjects - 1)
            /\ (NumObjects - (k + 1)) + 1 = NumObjects - k
        BY IdsFacts
      <4> QED BY <1>4, <3>2, <4>1
    <3> HIDE DEF H
    <3>3. 0 .. NumObjects \subseteq H
      BY <3>1, <3>2, Nats!UpToInSet, IdsFacts
    <3> TAKE m \in 0 .. NumObjects
    <3>4. NumObjects - m \in 0 .. NumObjects /\ NumObjects - (NumObjects - m) = m
      BY IdsFacts
    <3> QED BY <3>3, <3>4 DEF H
  <2>3. \A m \in 0 .. NumObjects : P[m] \in Ids
    BY <2>1, <2>2
  <2>4. \E i, j \in 0 .. NumObjects : i < j /\ P[i] = P[j]
    <3> SUFFICES ASSUME \A i, j \in 0 .. NumObjects : P[i] = P[j] => ~(i < j)
                 PROVE  FALSE
      OBVIOUS
    <3> DEFINE q == [m \in 0 .. NumObjects |-> P[m]]
    <3>1. q \in Injection(0 .. NumObjects, Ids)
      <4>1. \A i, j \in 0 .. NumObjects : P[i] = P[j] => i = j
        BY IdsFacts
      <4> QED BY <2>3, <4>1 DEF Injection, IsInjective
    <3> HIDE DEF q
    <3>2. IsFiniteSet(0 .. NumObjects) /\ Cardinality(0 .. NumObjects) = NumObjects + 1
      BY FS_Interval, IdsFacts
    <3>3. Cardinality(0 .. NumObjects) <= Cardinality(Ids)
      BY <3>1, <3>2, IdsFacts, FS_Injection
    <3> QED BY <3>2, <3>3, IdsFacts
  <2>5. PICK i \in 0 .. NumObjects, j \in 0 .. NumObjects : i < j /\ P[i] = P[j]
    BY <2>4
  <2> DEFINE K == {k \in Nat : P[i + k] = P[j + k]}
  <2>6. 0 .. (NumObjects - j) \subseteq K
    <3>1. 0 \in K /\ NumObjects - j \in Nat
      BY <2>5, IdsFacts
    <3>2. ASSUME NEW k \in 0 .. ((NumObjects - j) - 1), k \in K PROVE k + 1 \in K
      <4>1. i + k \in 0 .. (NumObjects - 1) /\ j + k \in 0 .. (NumObjects - 1)
        BY <2>5, IdsFacts
      <4>2. P[(i + k) + 1] = P[(j + k) + 1]
        BY <1>4, <3>2, <4>1
      <4>3. (i + k) + 1 = i + (k + 1) /\ (j + k) + 1 = j + (k + 1)
        BY <2>5
      <4> QED BY <4>2, <4>3
    <3> HIDE DEF K
    <3> QED BY <3>1, <3>2, Nats!UpToInSet
  <2> DEFINE m == i + (NumObjects - j)
  <2>7. P[m] = x /\ m \in 0 .. (NumObjects - 1)
    <3>1. NumObjects - j \in 0 .. (NumObjects - j) /\ j + (NumObjects - j) = NumObjects
      BY <2>5, IdsFacts
    <3>2. P[m] = P[NumObjects]
      BY <2>6, <3>1
    <3> QED BY <1>3, <1>6, <2>5, <3>2, IdsFacts
  <2> HIDE DEF m
  <2>8. P[m + 1] = f[x] /\ m + 1 \in 0 .. NumObjects
    BY <1>3, <1>4, <2>7, IdsFacts
  <2> QED BY <2>8
<1> QED BY <1>3, <1>5, <1>6, IdsFacts

\* Lemma: Closure is what can be reached along the references.
LEMMA ClosureReach ==
  ASSUME NEW S
  PROVE  Closure(S) = Reach(ref, S)
  BY DEF Closure, Reach

-----------------------------------------------------------------------------
\* Lemma: what S has before the first object, before the next one, and in all.
LEMMA BelowSets ==
  ASSUME NEW S, S \subseteq Ids, NEW o \in Nat \ {0}
  PROVE  /\ {b \in S : b < 1} = {}
         /\ o \in S => {b \in S : b < o + 1} = {b \in S : b < o} \union {o}
         /\ o \notin S => {b \in S : b < o + 1} = {b \in S : b < o}
         /\ {b \in S : b < NumObjects + 1} = S
<1>1. \A b \in S : b \in Nat \ {0} /\ b <= NumObjects
  BY TableAssumption DEF Ids
<1>2. \A b \in S : ~(b < 1) /\ b < NumObjects + 1 /\ (b < o + 1 <=> b < o \/ b = o)
  BY <1>1, IdsFacts
<1> QED BY <1>2

\* Lemma: Below is the next object of S before o.
LEMMA BelowFacts ==
  ASSUME NEW S, S \subseteq Ids, NEW o \in Nat \ {0}
  PROVE  /\ Below(S, 1) = Invalid
         /\ o \in S => Below(S, o + 1) = o
         /\ o \notin S => Below(S, o + 1) = Below(S, o)
<1>1. ASSUME o \in S PROVE Below(S, o + 1) = o
  <2> DEFINE B == {b \in S : b < o + 1}
  <2>1. o \in B /\ \A b \in B : b \in Nat /\ o >= b
    BY <1>1, IdsFacts
  <2> HIDE DEF B
  <2>2. \A x \in B : (\A y \in B : x >= y) => x = o
    BY <2>1
  <2>3. Max(B) = o
    BY <2>1, <2>2 DEF Max
  <2> QED BY <2>1, <2>3 DEF Below, B
<1>2. {b \in S : b < 1} = {} /\ (o \notin S => {b \in S : b < o + 1} = {b \in S : b < o})
  BY BelowSets
<1>3. Below(S, 1) = Invalid
  BY <1>2 DEF Below
<1>4. ASSUME o \notin S PROVE Below(S, o + 1) = Below(S, o)
  BY <1>2, <1>4 DEF Below
<1> QED BY <1>1, <1>3, <1>4

\* Lemma: linked each to the next one before it, the objects of S are a list.
LEMMA BelowListed ==
  ASSUME NEW S, S \subseteq Ids, NEW f, \A o \in S : f[o] = Below(S, o)
  PROVE  Listed(f, Below(S, NumObjects + 1), S)
<1> DEFINE T(p) == {b \in S : b < p}
           G == {m \in Nat : Listed(f, Below(S, m + 1), T(m + 1))}
<1>1. 0 \in G
  <2>1. 0 + 1 = 1 /\ 1 \in Nat \ {0} /\ 0 \in Nat
    OBVIOUS
  <2>2. T(1) = {} /\ Below(S, 1) = Invalid
    BY <2>1, BelowFacts, BelowSets
  <2> QED BY <2>1, <2>2, ListedEmpty
<1>2. ASSUME NEW m \in Nat, m \in G PROVE m + 1 \in G
  <2> DEFINE o == m + 1
  <2>1. Listed(f, Below(S, o), T(o)) /\ o \in Nat \ {0} /\ o \notin T(o)
    BY <1>2
  <2>2. \A p \in Nat \ {0} :
          /\ p \in S => T(p + 1) = T(p) \union {p} /\ Below(S, p + 1) = p
          /\ p \notin S => T(p + 1) = T(p) /\ Below(S, p + 1) = Below(S, p)
    <3> TAKE p \in Nat \ {0}
    <3>1. /\ p \in S => Below(S, p + 1) = p
          /\ p \notin S => Below(S, p + 1) = Below(S, p)
      BY BelowFacts
    <3>2. /\ p \in S => T(p + 1) = T(p) \union {p}
          /\ p \notin S => T(p + 1) = T(p)
      BY BelowSets
    <3> QED BY <3>1, <3>2
  <2>3. /\ o \in S => T(o + 1) = T(o) \union {o} /\ Below(S, o + 1) = o
        /\ o \notin S => T(o + 1) = T(o) /\ Below(S, o + 1) = Below(S, o)
    <3> HIDE DEF o, T
    <3> QED BY <2>1, <2>2
  <2>4. ASSUME o \in S PROVE Listed(f, o, T(o) \union {o})
    <3>1. o \in Ids /\ f[o] = Below(S, o) /\ \A x \in T(o) : f[x] = f[x]
      BY <2>4
    <3> HIDE DEF o, T
    <3> QED BY <2>1, <3>1, ListedPush
  <2>5. Listed(f, Below(S, o + 1), T(o + 1))
    BY <2>1, <2>3, <2>4
  <2> QED BY <2>1, <2>5
<1>3. NumObjects \in G
  <2> HIDE DEF G
  <2> QED BY <1>1, <1>2, Nats!NatInSet, IdsFacts
<1>4. T(NumObjects + 1) = S
  <2>1. 1 \in Nat \ {0}
    OBVIOUS
  <2> QED BY <2>1, BelowSets
<1> QED BY <1>3, <1>4

-----------------------------------------------------------------------------
\* Lemma: the objects whose finalizers run, as they start and return.
LEMMA FramesFacts ==
  ASSUME NEW s \in Seq(Ids), NEW o \in Ids
  PROVE  /\ Range(s) \subseteq Ids
         /\ Append(s, o) \in Seq(Ids) /\ Append(s, o) # << >>
         /\ Range(Append(s, o)) = Range(s) \union {o}
         /\ s # << >> => /\ SubSeq(s, 1, Len(s) - 1) \in Seq(Ids)
                         /\ Range(SubSeq(s, 1, Len(s) - 1)) \subseteq Range(s)
                         /\ Len(SubSeq(s, 1, Len(s) - 1)) = Len(s) - 1
<1> DEFINE t == Append(s, o)
           u == SubSeq(s, 1, Len(s) - 1)
<1>1. /\ Len(s) \in Nat /\ DOMAIN s = 1 .. Len(s) /\ \A i \in 1 .. Len(s) : s[i] \in Ids
      /\ (s # << >> => Len(s) # 0)
  OBVIOUS
<1>2. t \in Seq(Ids) /\ DOMAIN t = 1 .. (Len(s) + 1)
      /\ \A i \in 1 .. (Len(s) + 1) : t[i] = IF i <= Len(s) THEN s[i] ELSE o
  OBVIOUS
<1>3. ASSUME s # << >>
      PROVE  /\ u \in Seq(Ids) /\ DOMAIN u = 1 .. (Len(s) - 1) /\ Len(u) = Len(s) - 1
             /\ \A i \in 1 .. (Len(s) - 1) : u[i] = s[i]
  <2>1. Len(s) - 1 \in Nat /\ 1 .. (Len(s) - 1) \subseteq 1 .. Len(s)
    BY <1>1, <1>3
  <2> QED BY <1>1, <2>1
<1>4. \A i \in 1 .. Len(s) : i \in 1 .. (Len(s) + 1) /\ t[i] = s[i]
  BY <1>1, <1>2
<1>5. Len(s) + 1 \in 1 .. (Len(s) + 1) /\ t[Len(s) + 1] = o
  BY <1>1, <1>2
<1>6. \A i \in 1 .. (Len(s) + 1) : i \in 1 .. Len(s) \/ i = Len(s) + 1
  BY <1>1
<1>7. Range(t) = Range(s) \union {o}
  <2> HIDE DEF t
  <2>1. \A x \in Range(t) : x \in Range(s) \union {o}
    BY <1>1, <1>2, <1>4, <1>5, <1>6 DEF Range
  <2>2. \A x \in Range(s) \union {o} : x \in Range(t)
    BY <1>1, <1>2, <1>4, <1>5 DEF Range
  <2> QED BY <2>1, <2>2
<1>8. t # << >>
  <2>1. Len(t) = Len(s) + 1 /\ Len(s) + 1 # 0
    BY <1>1
  <2>2. Len(<< >>) = 0
    OBVIOUS
  <2> HIDE DEF t
  <2> QED BY <2>1, <2>2
<1>9. s # << >> => Range(u) \subseteq Range(s)
  <2> HIDE DEF u
  <2> QED BY <1>1, <1>3 DEF Range
<1>10. Range(s) \subseteq Ids
  BY <1>1 DEF Range
<1> HIDE DEF t, u
<1>11. s # << >> => u \in Seq(Ids) /\ Len(u) = Len(s) - 1
  BY <1>3
<1> QED BY <1>2, <1>7, <1>8, <1>9, <1>10, <1>11 DEF t, u

\* Lemma: Below is an object, or Invalid.
LEMMA BelowIds ==
  ASSUME NEW S, S \subseteq Ids, NEW o \in Nat \ {0}
  PROVE  Below(S, o) \in Ids \union {Invalid}
<1> DEFINE G == {m \in Nat : Below(S, m + 1) \in Ids \union {Invalid}}
<1>1. 0 \in G
  <2>1. 0 + 1 = 1 /\ 1 \in Nat \ {0} /\ 0 \in Nat
    OBVIOUS
  <2> QED BY <2>1, BelowFacts
<1>2. ASSUME NEW m \in Nat, m \in G PROVE m + 1 \in G
  <2>1. \A p \in Nat \ {0} : Below(S, p + 1) \in {p, Below(S, p)} /\ (p \in S => p \in Ids)
                             /\ (p \notin S => Below(S, p + 1) = Below(S, p))
    BY BelowFacts
  <2>2. m + 1 \in Nat \ {0} /\ Below(S, m + 1) \in Ids \union {Invalid}
    BY <1>2
  <2>3. Below(S, (m + 1) + 1) \in Ids \union {Invalid}
    BY <2>1, <2>2, BelowFacts
  <2> QED BY <2>2, <2>3
<1> HIDE DEF G
<1>3. o - 1 \in G
  BY <1>1, <1>2, Nats!NatInSet
<1> QED BY <1>3 DEF G

\* Lemma: the initial state is well typed.
LEMMA InitTypeOK == Init => TypeOK
<1> SUFFICES ASSUME Init PROVE TypeOK
  OBVIOUS
<1>1. \A o \in Ids : Below(RootSet, o) \in Ids \union {Invalid}
                     /\ Below(Ids \ RootSet, o) \in Ids \union {Invalid}
  BY BelowIds, IdsFacts
<1>2. NumObjects + 1 \in Nat \ {0}
  BY IdsFacts
<1>3. Below(RootSet, NumObjects + 1) \in Ids \union {Invalid}
      /\ Below(Ids \ RootSet, NumObjects + 1) \in Ids \union {Invalid}
  BY <1>2, BelowIds, IdsFacts
<1>4. next_obj \in [Ids -> Ids \union {Invalid}]
  <2>1. \A o \in Ids : next_obj[o] \in Ids \union {Invalid}
    BY <1>1 DEF Init
  <2> QED BY <2>1 DEF Init
<1>5. /\ kind \in [Ids -> GameClasses \union {"plain", Free}]
      /\ reachable \in [Ids -> {Unreachable, FReachable, Reachable}]
      /\ finalize_state \in [Ids -> FinalizeStates]
  BY DEF Init, FinalizeStates
<1>6. {first_free, gc_queue_head, finalize_queue_head} \subseteq Ids \union {Invalid}
  BY <1>3 DEF Init
<1>7. frames \in Seq(Ids) /\ cursor \in Ids
  BY IdsFacts DEF Init
<1> QED BY <1>4, <1>5, <1>6, <1>7 DEF Init, TypeOK

\* Lemma: a scan goes to the next entry, or ends at the first.
LEMMA AdvanceType ==
  ASSUME TypeOK, NEW a, NEW b, Advance(a, b)
  PROVE  /\ cursor' \in Ids /\ pc' \in {a, b}
         /\ cursor < NumObjects => cursor' = cursor + 1 /\ pc' = a
         /\ ~(cursor < NumObjects) => cursor' = 1 /\ pc' = b /\ cursor = NumObjects
<1>1. cursor \in Ids /\ cursor \in Nat /\ cursor <= NumObjects
  BY IdsFacts DEF TypeOK, Ids
<1> QED BY <1>1, IdsFacts DEF Advance, Ids

\* Lemma: every step of the game, and of the collector, leaves the state well
\* typed.
LEMMA NextTypeOK == TypeOK /\ [Next]_vars => TypeOK'
<1> SUFFICES ASSUME TypeOK, [Next]_vars PROVE TypeOK'
  OBVIOUS
<1> USE DEF TypeOK
<1>t. GameClasses \union {"plain", Free} \subseteq {"leaf", "plain", "weak", "finalizer", Free}
      /\ Free \in GameClasses \union {"plain", Free}
      /\ Unreachable \in {Unreachable, FReachable, Reachable}
      /\ Reachable \in {Unreachable, FReachable, Reachable}
      /\ FReachable \in {Unreachable, FReachable, Reachable}
  BY TableAssumption
<1>q. ASSUME NEW h \in Ids \union {Invalid}, NEW o \in Ids,
             NEW st \in {Unreachable, FReachable, Reachable}, add_to_gc_queue(h, o, st)
      PROVE  /\ next_obj' \in [Ids -> Ids \union {Invalid}]
             /\ gc_queue_head' \in Ids \union {Invalid}
             /\ reachable' \in [Ids -> {Unreachable, FReachable, Reachable}]
  BY <1>q DEF add_to_gc_queue
<1>1. ASSUME NEW k \in GameClasses, AllocObj(k) PROVE TypeOK'
  <2>1. first_free \in Ids
    BY <1>1 DEF AllocObj
  <2> QED BY <1>1, <1>t, <2>1 DEF AllocObj, FinalizeStates
<1>2. ASSUME NEW o \in Ids, NEW target \in Ids \union {Invalid}, SetRef(o, target) PROVE TypeOK'
  BY <1>2 DEF SetRef, marks, lists
<1>3. ASSUME NEW o \in Ids, NEW target \in Ids, SetWeak(o, target) PROVE TypeOK'
  BY <1>3 DEF SetWeak, marks, lists
<1>4. ASSUME NEW target \in Ids, Push(target) PROVE TypeOK'
  BY <1>4 DEF Push, marks, lists
<1>5. ASSUME NEW o \in stack, Pop(o) PROVE TypeOK'
  BY <1>5 DEF Pop, marks, lists
<1>6. ASSUME GcStart PROVE TypeOK'
  BY <1>6 DEF GcStart, marks, lists, game
<1>7. ASSUME GcTrace PROVE TypeOK'
  <2>1. cursor' \in Ids /\ pc' \in {"trace", "mark"}
    BY <1>7, AdvanceType DEF GcTrace
  <2>2. /\ next_obj' \in [Ids -> Ids \union {Invalid}] /\ gc_queue_head' \in Ids \union {Invalid}
        /\ reachable' \in [Ids -> {Unreachable, FReachable, Reachable}]
    BY <1>7, <1>t, <1>q DEF GcTrace, LeaveQueue
  <2> QED BY <1>7, <2>1, <2>2 DEF GcTrace, game
<1>8. ASSUME GcMark PROVE TypeOK'
  <2>1. gc_queue_head \in Ids
    BY <1>8 DEF GcMark, TraceNext
  <2>2. /\ next_obj' \in [Ids -> Ids \union {Invalid}] /\ gc_queue_head' \in Ids \union {Invalid}
        /\ reachable' \in [Ids -> {Unreachable, FReachable, Reachable}]
    <3>1. CASE ref[gc_queue_head] # Invalid
      <4>1. ref[gc_queue_head] \in Ids /\ next_obj[gc_queue_head] \in Ids \union {Invalid}
            /\ reachable[gc_queue_head] \in {Unreachable, FReachable, Reachable}
        BY <2>1, <3>1
      <4>2. add_to_gc_queue(next_obj[gc_queue_head], ref[gc_queue_head], reachable[gc_queue_head])
        BY <1>8, <3>1 DEF GcMark, TraceNext
      <4> QED BY <4>1, <4>2 DEF add_to_gc_queue
    <3>2. CASE ref[gc_queue_head] = Invalid
      BY <1>8, <2>1, <3>2 DEF GcMark, TraceNext
    <3> QED BY <3>1, <3>2
  <2> QED BY <1>8, <2>2 DEF GcMark, TraceNext, game
<1>9. ASSUME GcMarked PROVE TypeOK'
  BY <1>9 DEF GcMarked, marks, lists, game
<1>10. ASSUME GcScan PROVE TypeOK'
  <2>1. cursor' \in Ids /\ pc' \in {"scan", "fmark"}
    BY <1>10, AdvanceType DEF GcScan
  <2>2. /\ next_obj' \in [Ids -> Ids \union {Invalid}] /\ gc_queue_head' \in Ids \union {Invalid}
        /\ reachable' \in [Ids -> {Unreachable, FReachable, Reachable}]
    BY <1>10, <1>t, <1>q DEF GcScan, LeaveQueue
  <2>3. finalize_state' \in [Ids -> FinalizeStates]
    BY <1>10 DEF GcScan, FinalizeStates
  <2> QED BY <1>10, <2>1, <2>2, <2>3 DEF GcScan, game
<1>11. ASSUME GcSweep PROVE TypeOK'
  <2>1. cursor' \in Ids /\ pc' \in {"sweep", "finalize"}
    BY <1>11, AdvanceType DEF GcSweep
  <2>2. CASE cursor \in free
    BY <1>11, <2>1, <2>2 DEF GcSweep, lists
  <2>3. CASE cursor \notin free /\ is_deletable(cursor)
    BY <1>11, <1>t, <2>1, <2>3 DEF GcSweep, delete_entry
  <2>4. CASE cursor \notin free /\ ~is_deletable(cursor)
    <3>1. keep_entry(cursor) /\ UNCHANGED <<kind, first_free, ref, finalize_state, stack, frames, ran>>
      BY <1>11, <2>4 DEF GcSweep
    <3>2. weak' \in [Ids -> Ids \union {Invalid}]
      BY <1>11, <2>4 DEF GcSweep, remove_stale_weak_refs
    <3>3. /\ next_obj' \in [Ids -> Ids \union {Invalid}] /\ gc_queue_head' \in Ids \union {Invalid}
          /\ finalize_queue_head' \in Ids \union {Invalid}
          /\ reachable' \in [Ids -> {Unreachable, FReachable, Reachable}]
      BY <1>t, <3>1 DEF keep_entry
    <3> QED BY <2>1, <3>1, <3>2, <3>3
  <2> QED BY <2>2, <2>3, <2>4
<1>12. ASSUME Finalize PROVE TypeOK'
  <2>1. finalize_queue_head \in Ids
    BY <1>12 DEF Finalize
  <2>2. Append(frames, finalize_queue_head) \in Seq(Ids)
    BY <2>1, FramesFacts
  <2> QED BY <1>12, <1>t, <2>1, <2>2 DEF Finalize, FinalizeStates
<1>13. ASSUME FinalizerReturn PROVE TypeOK'
  <2>1. SubSeq(frames, 1, Len(frames) - 1) \in Seq(Ids)
    BY <1>13, FramesFacts, IdsFacts DEF FinalizerReturn
  <2> QED BY <1>13, <2>1 DEF FinalizerReturn, marks, lists
<1>14. ASSUME GcReturn PROVE TypeOK'
  BY <1>14 DEF GcReturn, marks, lists, game
<1>15. CASE UNCHANGED vars
  BY <1>15 DEF vars, marks, lists, game
<1> QED BY <1>1, <1>2, <1>3, <1>4, <1>5, <1>6, <1>7, <1>8, <1>9, <1>10, <1>11, <1>12,
           <1>13, <1>14, <1>15 DEF Next, GcStep

\* Theorem: the table is well typed, whatever the game and its finalizers do.
THEOREM TypeCorrect == Spec => []TypeOK
<1> QED BY InitTypeOK, NextTypeOK, PTL DEF Spec

-----------------------------------------------------------------------------
\* The inductive invariant.  It is one of games whose finalizers do not collect
\* garbage: those that do corrupt the lists.

Work == Met(next_obj, gc_queue_head)
Due  == Met(next_obj, finalize_queue_head)
Marked(o) == reachable[o] # Unreachable
finalizable == {o \in Ids : finalize_state[o] = "finalizable"}

\* What the game can reach, or a finalizer that is due.
Kept == Closure(AtHand \union finalizable)

Lists ==
  /\ Listed(next_obj, first_free, free)
  /\ Listed(next_obj, gc_queue_head, Work)
  /\ Listed(next_obj, finalize_queue_head, Due)

Entries ==
  /\ \A o \in free : /\ ref[o] = Invalid /\ weak[o] = Invalid
                     /\ reachable[o] = Unreachable /\ finalize_state[o] = "finalized"
  /\ \A o \in RootSet : kind[o] = "plain" /\ finalize_state[o] = "unfinalizable"
  /\ \A o \in Ids : kind[o] = "leaf" => ref[o] = Invalid
  /\ \A o \in Ids : weak[o] # Invalid => can_have_weak_refs(o)
  /\ \A o \in ran : finalize_state[o] = "finalized"

\* Only one finalizer runs at a time, and not while garbage is collected.
Control ==
  /\ Len(frames) <= 1
  /\ frames # << >> => pc = "run"
  /\ pc = "run" /\ frames = << >> => finalizable = {}
  /\ pc \notin {"trace", "scan", "sweep"} => cursor = 1

\* Between collections.
BetweenInv ==
  /\ Work = RootSet /\ Due = finalizable
  /\ \A o \in Ids : reachable[o] = IF o \in RootSet THEN Reachable ELSE Unreachable

\* What is marked, but for the work queue, has its reference marked too.
MarkInv ==
  /\ Due = {}
  /\ \A o \in Work : Marked(o) /\ can_have_refs(o)
  /\ \A o \in RootSet : reachable[o] = Reachable
  /\ \A o \in Ids \ Work : Marked(o) /\ ref[o] # Invalid => Marked(ref[o])
  /\ \A o \in Ids : Marked(o) => o \in Kept

\* The first pass, until it has come to the entry c.
TraceInv(c) ==
  /\ \A o \in Ids : reachable[o] # FReachable
  /\ finalizable = {}
  /\ \A o \in stack : o < c => reachable[o] = Reachable

\* The scan for what can be finalized, until it has come to c: the game can
\* reach only what is Reachable.
ScanInv(c) ==
  /\ \A o \in stack : reachable[o] = Reachable
  /\ \A o \in Work : reachable[o] # Reachable
  /\ \A o \in Ids : reachable[o] = Reachable /\ ref[o] # Invalid => reachable[ref[o]] = Reachable
  /\ \A o \in Ids : o < c /\ ~Marked(o) => finalize_state[o] = "finalized"

FMarkInv ==
  /\ \A o \in stack : reachable[o] = Reachable
  /\ \A o \in Ids : ~Marked(o) => finalize_state[o] = "finalized"

\* The object o outlives the sweep that has come to c, where the marks of the
\* entries before c are reset.
Survives(o, c) == kind[o] # Free /\ (o < c \/ ~is_deletable(o))

SweepInv(c) ==
  /\ Work = {o \in RootSet : o < c}
  /\ Due = {o \in finalizable : o < c}
  /\ \A o \in stack : Survives(o, c)
  /\ \A o \in Ids : o < c => reachable[o] = IF o \in RootSet THEN Reachable ELSE Unreachable
  /\ \A o \in Ids : o >= c /\ ~Marked(o) => finalize_state[o] = "finalized"
  /\ \A o \in RootSet : o >= c => reachable[o] = Reachable
  /\ \A o \in Ids : Survives(o, c) =>
       /\ ref[o] # Invalid => Survives(ref[o], c)
       /\ o < c /\ weak[o] # Invalid => Survives(weak[o], c)
       /\ o \in Kept

Inv ==
  /\ TypeOK /\ Lists /\ Entries /\ Control /\ NoDangling
  /\ pc \in {"run", "finalize"} => BetweenInv
  /\ pc \in {"trace", "mark", "scan", "fmark"} => MarkInv
  /\ pc = "trace" => TraceInv(cursor)
  /\ pc = "mark" => TraceInv(NumObjects + 1)
  /\ pc = "scan" => ScanInv(cursor)
  /\ pc = "fmark" => FMarkInv
  /\ pc = "sweep" => SweepInv(cursor)

\* Lemma: the invariant holds initially.
LEMMA InitInv == Init => Inv
<1> SUFFICES ASSUME Init PROVE Inv
  OBVIOUS
<1>1. TypeOK
  BY InitTypeOK
<1>2. free = Ids \ RootSet
  BY IdsFacts DEF Init, free, Free
<1>3. Listed(next_obj, first_free, free)
  <2>1. \A o \in Ids \ RootSet : next_obj[o] = Below(Ids \ RootSet, o)
    BY DEF Init
  <2>2. Listed(next_obj, Below(Ids \ RootSet, NumObjects + 1), Ids \ RootSet)
    BY <2>1, BelowListed
  <2> QED BY <1>2, <2>2 DEF Init
<1>4. Listed(next_obj, gc_queue_head, RootSet)
  <2>1. \A o \in RootSet : next_obj[o] = Below(RootSet, o)
    BY IdsFacts DEF Init
  <2>2. Listed(next_obj, Below(RootSet, NumObjects + 1), RootSet)
    BY <2>1, BelowListed, IdsFacts
  <2> QED BY <2>2 DEF Init
<1>5. Listed(next_obj, finalize_queue_head, {})
  BY ListedEmpty DEF Init
<1>6. Work = RootSet /\ Due = {}
  BY <1>4, <1>5, ListedMet DEF Work, Due
<1>7. Lists
  BY <1>3, <1>4, <1>5, <1>6 DEF Lists
<1>8. Entries
  BY <1>2, IdsFacts DEF Entries, can_have_weak_refs, Init, Free
<1>9. finalizable = {}
  BY DEF finalizable, Init
<1>10. Control
  BY <1>9 DEF Control, Init
<1>11. BetweenInv
  BY <1>6, <1>9 DEF BetweenInv, Init
<1>12. NoDangling
  <2>1. Range(<< >>) = {}
    BY DEF Range
  <2> QED BY <1>2, <2>1, IdsFacts DEF NoDangling, AtHand, Init
<1> QED BY <1>1, <1>7, <1>8, <1>10, <1>11, <1>12 DEF Inv, Init

\* Lemma: the heads that are left alone still begin the same lists.
LEMMA ListsSame ==
  ASSUME Lists, UNCHANGED <<kind, lists>>
  PROVE  Lists' /\ Work' = Work /\ Due' = Due /\ free' = free
<1>1. free' = free
  BY DEF free
<1>2. Work' = Work /\ Due' = Due
  BY DEF Work, Due, Met, Range, Path, lists
<1> QED BY <1>1, <1>2 DEF Lists, lists

\* Lemma: what the lists of the next state are.
LEMMA ListsNext ==
  ASSUME NEW W, NEW D, Listed(next_obj', first_free', free'),
         Listed(next_obj', gc_queue_head', W), Listed(next_obj', finalize_queue_head', D)
  PROVE  Lists' /\ Work' = W /\ Due' = D
<1>1. Work' = W /\ Due' = D
  BY ListedMet DEF Work, Due
<1> QED BY <1>1 DEF Lists

-----------------------------------------------------------------------------
\* The game's steps.

\* Lemma: a new object comes from the free list.
LEMMA AllocInv ==
  ASSUME Inv, TypeOK', NEW k \in GameClasses, AllocObj(k)
  PROVE  Inv'
<1> DEFINE o == first_free
<1>1. TypeOK /\ Lists /\ Entries /\ Control /\ NoDangling /\ BetweenInv /\ TypeOK'
      /\ pc = "run" /\ pc' = "run"
  BY DEF Inv, AllocObj
<1>2. o \in free /\ o \in Ids /\ k # Free
  BY <1>1, ListedFacts, TableAssumption DEF Lists, AllocObj, Free
<1>3. /\ first_free' = next_obj[o] /\ kind' = [kind EXCEPT ![o] = k]
      /\ reachable' = [reachable EXCEPT ![o] = Unreachable]
      /\ finalize_state' = [finalize_state EXCEPT ![o] = "unfinalizable"]
      /\ stack' = stack \union {o} /\ ran' = ran \ {o}
      /\ UNCHANGED <<next_obj, gc_queue_head, finalize_queue_head, ref, weak, frames, pc, cursor>>
  BY DEF AllocObj
<1> HIDE DEF o
<1>4. free' = free \ {o}
  BY <1>1, <1>2, <1>3 DEF free, TypeOK
<1>5. Lists' /\ Work' = Work /\ Due' = Due
  <2>1. Listed(next_obj, next_obj[o], free \ {o})
    BY <1>1, <1>2, ListedPop, IdsFacts DEF Lists, o
  <2> QED BY <1>1, <1>3, <1>4, <2>1, ListsNext DEF Lists
<1>6. o \notin RootSet /\ finalize_state[o] = "finalized" /\ reachable[o] = Unreachable
      /\ ref[o] = Invalid /\ weak[o] = Invalid
  BY <1>1, <1>2 DEF Entries, can_have_weak_refs, free, Free
<1>7. finalizable' = finalizable
  BY <1>1, <1>2, <1>3, <1>6 DEF finalizable, TypeOK
<1>8. Entries'
  BY <1>1, <1>2, <1>3, <1>4, <1>6 DEF Entries, can_have_weak_refs, TypeOK
<1>9. Control'
  BY <1>1, <1>3, <1>7 DEF Control
<1>10. BetweenInv'
  BY <1>1, <1>2, <1>3, <1>5, <1>6, <1>7 DEF BetweenInv, TypeOK
<1>11. NoDangling'
  <2>1. AtHand' = AtHand \union {o}
    BY <1>3 DEF AtHand
  <2>2. \A x \in Ids \ free' : ref[x] \notin free' /\ weak[x] \notin free'
    BY <1>1, <1>2, <1>4, <1>6, IdsFacts DEF NoDangling, free
  <2> QED BY <1>1, <1>3, <1>4, <2>1, <2>2 DEF NoDangling
<1> QED BY <1>1, <1>5, <1>8, <1>9, <1>10, <1>11 DEF Inv

\* Lemma: the game sets a reference to an object that it has at hand.
LEMMA SetRefInv ==
  ASSUME Inv, TypeOK', NEW o \in Ids, NEW target \in Ids \union {Invalid}, SetRef(o, target)
  PROVE  Inv'
<1>1. TypeOK /\ Lists /\ Entries /\ Control /\ NoDangling /\ BetweenInv
      /\ pc = "run" /\ pc' = "run"
  BY DEF Inv, SetRef
<1>2. UNCHANGED <<kind, reachable, finalize_state, next_obj, first_free, gc_queue_head,
                  finalize_queue_head, weak, stack, frames, pc, cursor, ran>>
  BY DEF SetRef, marks, lists
<1>3. ref' = [ref EXCEPT ![o] = target] /\ can_have_refs(o)
      /\ o \in AtHand /\ target \in AtHand \union {Invalid}
  BY DEF SetRef
<1>4. Lists' /\ Work' = Work /\ Due' = Due /\ free' = free
  BY <1>1, <1>2, ListsSame DEF lists
<1>5. finalizable' = finalizable /\ AtHand' = AtHand
  BY <1>2 DEF finalizable, AtHand
<1>6. Entries'
  BY <1>1, <1>2, <1>3, <1>4 DEF Entries, can_have_weak_refs, can_have_refs, TypeOK, NoDangling
<1>7. Control' /\ BetweenInv'
  BY <1>1, <1>2, <1>4, <1>5 DEF Control, BetweenInv
<1>8. NoDangling'
  BY <1>1, <1>2, <1>3, <1>4, <1>5, IdsFacts DEF NoDangling, free, TypeOK
<1> QED BY <1>1, <1>4, <1>6, <1>7, <1>8 DEF Inv

\* Lemma: the game sets a weak reference.
LEMMA SetWeakInv ==
  ASSUME Inv, TypeOK', NEW o \in Ids, NEW target \in Ids, SetWeak(o, target)
  PROVE  Inv'
<1>1. TypeOK /\ Lists /\ Entries /\ Control /\ NoDangling /\ BetweenInv
      /\ pc = "run" /\ pc' = "run"
  BY DEF Inv, SetWeak
<1>2. UNCHANGED <<kind, reachable, finalize_state, next_obj, first_free, gc_queue_head,
                  finalize_queue_head, ref, stack, frames, pc, cursor, ran>>
  BY DEF SetWeak, marks, lists
<1>3. weak' = [weak EXCEPT ![o] = target] /\ o \in AtHand /\ target \in AtHand
  BY DEF SetWeak
<1>4. Lists' /\ Work' = Work /\ Due' = Due /\ free' = free
  BY <1>1, <1>2, ListsSame DEF lists
<1>5. finalizable' = finalizable /\ AtHand' = AtHand
  BY <1>2 DEF finalizable, AtHand
<1>6. Entries'
  <2>1. can_have_weak_refs(o) /\ o \notin free
    BY <1>1, <1>3 DEF SetWeak, NoDangling
  <2>2. \A x \in Ids : x # o => weak'[x] = weak[x]
    BY <1>1, <1>3 DEF TypeOK
  <2>3. \A x \in Ids : weak'[x] # Invalid => can_have_weak_refs(x)'
    BY <1>1, <1>2, <2>1, <2>2 DEF Entries, can_have_weak_refs
  <2>4. \A x \in free' : weak'[x] = Invalid
    BY <1>1, <1>4, <2>1, <2>2 DEF Entries, free
  <2> QED BY <1>1, <1>2, <1>4, <2>3, <2>4 DEF Entries
<1>7. Control' /\ BetweenInv'
  BY <1>1, <1>2, <1>4, <1>5 DEF Control, BetweenInv
<1>8. NoDangling'
  BY <1>1, <1>2, <1>3, <1>4, <1>5 DEF NoDangling, TypeOK
<1> QED BY <1>1, <1>4, <1>6, <1>7, <1>8 DEF Inv

\* Lemma: the game takes an object to hand, or lets go of one.
LEMMA StackInv ==
  ASSUME Inv, TypeOK', (\E o \in Ids : Push(o)) \/ (\E o \in stack : Pop(o))
  PROVE  Inv'
<1>1. TypeOK /\ Lists /\ Entries /\ Control /\ NoDangling /\ BetweenInv
      /\ pc = "run" /\ pc' = "run"
  BY DEF Inv, Push, Pop
<1>2. UNCHANGED <<kind, reachable, finalize_state, next_obj, first_free, gc_queue_head,
                  finalize_queue_head, ref, weak, frames, pc, cursor, ran>>
  BY DEF Push, Pop, marks, lists
<1>3. Lists' /\ Work' = Work /\ Due' = Due /\ free' = free
  BY <1>1, <1>2, ListsSame DEF lists
<1>4. finalizable' = finalizable
  BY <1>2 DEF finalizable
<1>5. Entries'
  BY <1>1, <1>2, <1>3 DEF Entries, can_have_weak_refs
<1>6. Control' /\ BetweenInv'
  BY <1>1, <1>2, <1>3, <1>4 DEF Control, BetweenInv
<1>7. stack' \intersect free = {}
  <2>1. stack \intersect free = {}
    BY <1>1 DEF NoDangling, AtHand
  <2>2. CASE \E o \in Ids : Push(o)
    <3>1. PICK target \in Ids : Push(target)
      BY <2>2
    <3>2. PICK o \in AtHand : target \in {ref[o], weak[o]}
      BY <3>1 DEF Push
    <3>3. o \in Ids
      <4>1. Range(frames) \subseteq Ids
        BY <1>1, FramesFacts, IdsFacts DEF TypeOK
      <4>2. RootSet \subseteq Ids /\ stack \subseteq Ids
        BY <1>1, IdsFacts DEF TypeOK
      <4> QED BY <3>2, <4>1, <4>2 DEF AtHand
    <3>4. target \notin free
      BY <1>1, <3>2, <3>3 DEF NoDangling
    <3>5. stack' = stack \union {target}
      BY <3>1 DEF Push
    <3> QED BY <2>1, <3>4, <3>5
  <2>3. CASE \E o \in stack : Pop(o)
    BY <2>1, <2>3 DEF Pop
  <2> QED BY <2>2, <2>3
<1>8. NoDangling'
  BY <1>1, <1>2, <1>3, <1>7 DEF NoDangling, AtHand
<1> QED BY <1>1, <1>3, <1>5, <1>6, <1>8 DEF Inv

\* Lemma: a finalizer starts.
LEMMA FinalizeInv ==
  ASSUME Inv, TypeOK', Finalize
  PROVE  Inv' /\ finalize_queue_head \notin ran
<1> DEFINE o == finalize_queue_head
<1>1. TypeOK /\ Lists /\ Entries /\ Control /\ NoDangling /\ BetweenInv
      /\ pc = "finalize" /\ pc' = "run" /\ frames = << >>
  BY DEF Inv, Finalize, Control
<1>2. o \in Due /\ o \in Ids /\ finalize_state[o] = "finalizable"
  BY <1>1, ListedFacts DEF Finalize, Lists, BetweenInv, finalizable
<1>3. /\ finalize_queue_head' = next_obj[o]
      /\ finalize_state' = [finalize_state EXCEPT ![o] = "finalized"]
      /\ reachable' = [reachable EXCEPT ![o] = Unreachable]
      /\ frames' = Append(frames, o) /\ ran' = ran \union {o}
      /\ UNCHANGED <<kind, next_obj, first_free, gc_queue_head, ref, weak, stack, cursor>>
  BY DEF Finalize
<1>4. o \notin free /\ o \notin RootSet /\ o \notin ran
  BY <1>1, <1>2 DEF Entries, can_have_weak_refs
<1>5. Listed(next_obj, next_obj[o], Due \ {o})
  BY <1>1, <1>2, ListedPop, IdsFacts DEF Lists
<1> HIDE DEF o
<1>6. free' = free
  BY <1>3 DEF free
<1>7. Lists' /\ Work' = Work /\ Due' = Due \ {o}
  BY <1>1, <1>3, <1>5, <1>6, ListsNext DEF Lists
<1>8. finalizable' = finalizable \ {o}
  BY <1>1, <1>2, <1>3 DEF finalizable, TypeOK
<1>9. Entries'
  BY <1>1, <1>2, <1>3, <1>4, <1>6 DEF Entries, can_have_weak_refs, TypeOK
<1>10. frames' # << >> /\ Len(frames') <= 1 /\ Range(frames') = Range(frames) \union {o}
  <2>1. frames' # << >> /\ Range(frames') = Range(frames) \union {o}
    BY <1>1, <1>2, <1>3, FramesFacts DEF TypeOK
  <2>2. frames' = Append(<< >>, o)
    BY <1>1, <1>3
  <2>3. Len(frames') = 1
    BY <2>2
  <2> QED BY <2>1, <2>3
<1>11. Control'
  BY <1>1, <1>3, <1>10 DEF Control
<1>12. BetweenInv'
  BY <1>1, <1>2, <1>3, <1>4, <1>7, <1>8 DEF BetweenInv, TypeOK
<1>13. NoDangling'
  BY <1>1, <1>3, <1>4, <1>6, <1>10 DEF NoDangling, AtHand
<1> QED BY <1>1, <1>4, <1>7, <1>9, <1>11, <1>12, <1>13 DEF Inv, o

\* Lemma: a finalizer returns, or the collector does, or a collection begins.
LEMMA ReturnInv ==
  ASSUME Inv, TypeOK', FinalizerReturn \/ GcReturn
  PROVE  Inv'
<1>1. TypeOK /\ Lists /\ Entries /\ Control /\ NoDangling /\ BetweenInv
      /\ pc \in {"run", "finalize"} /\ pc' \in {"run", "finalize"}
  BY DEF Inv, FinalizerReturn, GcReturn
<1>2. UNCHANGED <<kind, reachable, finalize_state, next_obj, first_free, gc_queue_head,
                  finalize_queue_head, ref, weak, stack, cursor, ran>>
  BY DEF FinalizerReturn, GcReturn, marks, lists, game
<1>3. Lists' /\ Work' = Work /\ Due' = Due /\ free' = free
  BY <1>1, <1>2, ListsSame DEF lists
<1>4. finalizable' = finalizable
  BY <1>2 DEF finalizable
<1>5. Entries' /\ BetweenInv'
  BY <1>1, <1>2, <1>3, <1>4 DEF Entries, can_have_weak_refs, BetweenInv
<1>6. Control' /\ Range(frames') \subseteq Range(frames)
  <2>1. CASE FinalizerReturn
    <3>1. Len(frames') = Len(frames) - 1 /\ frames' \in Seq(Ids) /\ pc' = "finalize"
          /\ Range(frames') \subseteq Range(frames)
      BY <1>1, <2>1, FramesFacts, IdsFacts DEF FinalizerReturn, TypeOK
    <3>2. Len(frames) \in Nat /\ Len(frames) <= 1 /\ Len(frames') \in Nat
      BY <1>1, <3>1 DEF TypeOK, Control
    <3>3. Len(frames') = 0
      BY <3>1, <3>2
    <3>4. frames' = << >>
      BY <3>1, <3>3
    <3> QED BY <1>1, <1>2, <2>1, <3>1, <3>3, <3>4 DEF Control, FinalizerReturn
  <2>2. CASE GcReturn
    <3>1. finalizable = {} /\ frames' = frames /\ frames = << >> /\ pc' = "run"
      BY <1>1, <2>2, ListedFacts DEF GcReturn, game, Lists, BetweenInv, Control
    <3> QED BY <1>1, <1>2, <1>4, <3>1 DEF Control
  <2> QED BY <2>1, <2>2
<1>7. NoDangling'
  BY <1>1, <1>2, <1>3, <1>6 DEF NoDangling, AtHand
<1> QED BY <1>1, <1>3, <1>5, <1>6, <1>7 DEF Inv

-----------------------------------------------------------------------------
\* The marking passes.

\* Lemma: what is at hand, or due to be finalized, is kept.
LEMMA KeptHas ==
  ASSUME TypeOK
  PROVE  AtHand \subseteq Ids /\ AtHand \union finalizable \subseteq Kept
<1>1. AtHand \subseteq Ids
  BY FramesFacts, IdsFacts DEF AtHand, TypeOK
<1>2. AtHand \union finalizable \subseteq Ids
  BY <1>1 DEF finalizable
<1> QED BY <1>1, <1>2, ReachHas, ClosureReach DEF Kept

\* Lemma: the same of the next state.
LEMMA KeptHasNext == TypeOK' => (AtHand \union finalizable \subseteq Kept)'
<1>1. TypeOK => AtHand \union finalizable \subseteq Kept
  BY KeptHas
<1> QED BY <1>1, PTL

\* Lemma: what a kept object refers to is kept.
LEMMA KeptStep ==
  ASSUME TypeOK, NEW o \in Kept, ref[o] # Invalid
  PROVE  ref[o] \in Kept
<1>1. AtHand \union finalizable \subseteq Ids /\ ref \in [Ids -> Ids \union {Invalid}]
  BY KeptHas DEF finalizable, TypeOK
<1> QED BY <1>1, ReachStep, ClosureReach DEF Kept

\* Lemma: the same of the next state.
LEMMA KeptStepNext == TypeOK' => (\A o \in Kept : ref[o] # Invalid => ref[o] \in Kept)'
<1>1. TypeOK => \A o \in Kept : ref[o] # Invalid => ref[o] \in Kept
  BY KeptStep
<1> QED BY <1>1, PTL

\* Lemma: what is kept still is, if more is at hand or due to be finalized.
LEMMA KeptGrows ==
  ASSUME UNCHANGED ref, AtHand \union finalizable \subseteq (AtHand \union finalizable)'
  PROVE  Kept \subseteq Kept'
<1>1. Kept = UNION {Met(ref, o) : o \in AtHand \union finalizable}
  BY DEF Kept, Closure
<1>2. Kept' = UNION {Met(ref', o) : o \in (AtHand \union finalizable)'}
  BY DEF Kept, Closure, Met, Range, Path
<1> QED BY <1>1, <1>2

\* Lemma: one object is marked, and put in the work queue if need be.
LEMMA MarkOne ==
  ASSUME TypeOK, Entries, NEW h, NEW W, Listed(next_obj, h, W),
         Listed(next_obj, first_free, free), Listed(next_obj, finalize_queue_head, {}),
         NEW o \in Ids \ free, NEW st \in {FReachable, Reachable},
         add_to_gc_queue(h, o, st),
         UNCHANGED <<kind, ref, first_free, finalize_queue_head>>,
         \A x \in W : Marked(x) /\ can_have_refs(x),
         \A x \in Ids \ W : Marked(x) /\ ref[x] # Invalid => Marked(ref[x]) \/ ref[x] = o
  PROVE  /\ Lists' /\ Due' = {} /\ free' = free
         /\ Work' = IF can_have_refs(o) /\ ~Marked(o) THEN W \union {o} ELSE W
         /\ reachable' = [reachable EXCEPT ![o] = IF st > @ THEN st ELSE @]
         /\ \A x \in Work' : reachable'[x] # Unreachable /\ can_have_refs(x)
         /\ \A x \in Ids \ Work' : reachable'[x] # Unreachable /\ ref[x] # Invalid
                                     => reachable'[ref[x]] # Unreachable
<1> DEFINE new == can_have_refs(o) /\ ~Marked(o)
           V == IF new THEN W \union {o} ELSE W
<1>1. free' = free
  BY DEF free
<1>2. reachable' = [reachable EXCEPT ![o] = IF st > @ THEN st ELSE @]
  <2>1. reachable[o] = Unreachable => st > reachable[o]
    BY DEF Unreachable, FReachable, Reachable
  <2>2. CASE can_have_refs(o) /\ reachable[o] = Unreachable
    <3>1. reachable' = [reachable EXCEPT ![o] = st]
      BY <2>2 DEF add_to_gc_queue
    <3> QED BY <2>1, <2>2, <3>1 DEF TypeOK
  <2>3. CASE ~(can_have_refs(o) /\ reachable[o] = Unreachable)
    BY <2>3 DEF add_to_gc_queue
  <2> QED BY <2>2, <2>3
<1>3. \A x \in Ids : reachable'[x] \in {reachable[x], st} /\ (Marked(x) => reachable'[x] # Unreachable)
  BY <1>2 DEF TypeOK, Marked, Unreachable, FReachable, Reachable
<1>4. reachable'[o] # Unreachable
  BY <1>2 DEF TypeOK, Unreachable, FReachable, Reachable
<1>5. /\ Listed(next_obj', first_free', free') /\ Listed(next_obj', gc_queue_head', V)
      /\ Listed(next_obj', finalize_queue_head', {})
  <2>1. finalize_queue_head' = Invalid
    BY ListedFacts
  <2>2. Listed(next_obj', finalize_queue_head', {})
    BY <2>1, ListedEmpty
  <2>3. CASE new
    <3>1. next_obj' = [next_obj EXCEPT ![o] = h] /\ gc_queue_head' = o /\ V = W \union {o}
      BY <2>3 DEF add_to_gc_queue, Marked
    <3>2. o \notin W /\ W \subseteq Ids /\ free \subseteq Ids
      BY <2>3, ListedFacts
    <3>3. next_obj'[o] = h /\ \A x \in Ids : x # o => next_obj'[x] = next_obj[x]
      BY <3>1 DEF TypeOK
    <3> HIDE DEF V
    <3>4. Listed(next_obj', o, W \union {o})
      <4>1. \A x \in W : next_obj'[x] = next_obj[x]
        BY <3>2, <3>3
      <4> QED BY <3>2, <3>3, <4>1, ListedPush
    <3>5. Listed(next_obj', first_free, free)
      <4>1. \A x \in free : next_obj'[x] = next_obj[x]
        BY <3>2, <3>3
      <4> QED BY <4>1, ListedSame
    <3> QED BY <1>1, <2>2, <3>1, <3>4, <3>5
  <2>4. CASE ~new
    <3>1. next_obj' = next_obj /\ gc_queue_head' = h /\ V = W
      BY <2>4 DEF add_to_gc_queue, Marked
    <3> QED BY <1>1, <2>2, <3>1
  <2> QED BY <2>3, <2>4
<1>6. Lists' /\ Due' = {} /\ Work' = V
  <2> HIDE DEF V
  <2> QED BY <1>5, ListsNext
<1>7. \A x \in V : reachable'[x] # Unreachable /\ can_have_refs(x)
  <2>1. W \subseteq Ids
    BY ListedFacts
  <2> QED BY <1>3, <1>4, <2>1
<1>8. ASSUME NEW x \in Ids \ V, reachable'[x] # Unreachable, ref[x] # Invalid
      PROVE  reachable'[ref[x]] # Unreachable
  <2>1. x \notin W /\ ref[x] \in Ids
    BY <1>8 DEF TypeOK
  <2>2. Marked(x)
    <3>1. CASE x = o
      <4>1. can_have_refs(o)
        BY <1>8, <3>1 DEF Entries, can_have_weak_refs, can_have_refs
      <4> QED BY <1>8, <3>1, <4>1
    <3>2. CASE x # o
      BY <1>2, <1>8, <3>2 DEF TypeOK, Marked
    <3> QED BY <3>1, <3>2
  <2> QED BY <1>3, <1>4, <1>8, <2>1, <2>2
<1> QED BY <1>1, <1>2, <1>6, <1>7, <1>8

\* Lemma: a collection starts from the conditions that the last one left.
LEMMA StartInv ==
  ASSUME MaxNesting = 0, Inv, TypeOK', GcStart
  PROVE  Inv'
<1>1. TypeOK /\ Lists /\ Entries /\ Control /\ NoDangling /\ BetweenInv
      /\ pc = "run" /\ pc' = "trace" /\ cursor = 1
  BY DEF Inv, GcStart, Control
<1>2. UNCHANGED <<kind, reachable, finalize_state, next_obj, first_free, gc_queue_head,
                  finalize_queue_head, ref, weak, stack, frames, cursor, ran>>
  BY DEF GcStart, marks, lists, game
<1>3. Lists' /\ Work' = Work /\ Due' = Due /\ free' = free
  BY <1>1, <1>2, ListsSame DEF lists
<1>4. frames = << >> /\ finalizable = {}
  BY <1>1 DEF GcStart, Control, TypeOK
<1>5. finalizable' = finalizable /\ AtHand' = AtHand
  BY <1>2 DEF finalizable, AtHand
<1>6. Kept \subseteq Kept' /\ RootSet \subseteq Kept
  BY <1>1, <1>2, <1>5, KeptGrows, KeptHas DEF AtHand
<1>7. Entries' /\ Control' /\ NoDangling'
  BY <1>1, <1>2, <1>3, <1>4, <1>5 DEF Entries, can_have_weak_refs, Control, NoDangling
<1>8. MarkInv'
  <2>1. \A o \in Ids : reachable'[o] # Unreachable => o \in RootSet
    BY <1>1, <1>2 DEF BetweenInv
  <2>2. \A o \in RootSet : reachable'[o] = Reachable /\ kind'[o] = "plain"
    BY <1>1, <1>2, IdsFacts DEF BetweenInv, Entries
  <2>3. Work' = RootSet /\ Due' = {}
    BY <1>1, <1>3, <1>4 DEF BetweenInv
  <2> QED BY <1>2, <1>6, <2>1, <2>2, <2>3
          DEF MarkInv, Marked, can_have_refs, Unreachable, Reachable
<1>9. TraceInv(cursor)'
  <2>1. \A o \in stack : ~(o < 1)
    BY <1>1, IdsFacts DEF TypeOK
  <2> QED BY <1>1, <1>2, <1>4, <1>5, <2>1
          DEF TraceInv, BetweenInv, Unreachable, FReachable, Reachable
<1> QED BY <1>1, <1>3, <1>7, <1>8, <1>9 DEF Inv

\* Lemma: while marks are set, the game is at rest.
LEMMA MarkingFacts ==
  ASSUME Inv, pc \in {"trace", "mark", "scan", "fmark"}
  PROVE  /\ TypeOK /\ Lists /\ Entries /\ Control /\ NoDangling /\ MarkInv
         /\ frames = << >> /\ AtHand = RootSet \union stack
         /\ \A o \in Ids : Marked(o) => o \notin free
         /\ \A o \in Ids \ free : ref[o] # Invalid => ref[o] \in Ids \ free
         /\ stack \subseteq Ids \ free
         /\ Listed(next_obj, first_free, free) /\ Listed(next_obj, gc_queue_head, Work)
         /\ Listed(next_obj, finalize_queue_head, {})
<1>1. TypeOK /\ Lists /\ Entries /\ Control /\ NoDangling /\ MarkInv /\ frames = << >>
  BY DEF Inv, Control
<1>2. AtHand = RootSet \union stack
  BY <1>1 DEF AtHand, Range
<1>3. \A o \in Ids : Marked(o) => o \notin free
  BY <1>1 DEF Entries, can_have_weak_refs, Marked
<1>4. \A o \in Ids \ free : ref[o] # Invalid => ref[o] \in Ids \ free
  BY <1>1 DEF NoDangling, TypeOK
<1>5. stack \subseteq Ids \ free
  BY <1>1, <1>2 DEF NoDangling, TypeOK
<1> QED BY <1>1, <1>2, <1>3, <1>4, <1>5 DEF Lists, MarkInv

\* Lemma: the first pass marks what is on the stack.
LEMMA TraceEntryInv ==
  ASSUME Inv, TypeOK', GcTrace
  PROVE  Inv'
<1>c. PICK c \in Ids : c = cursor
  BY DEF Inv, TypeOK
<1>1. pc = "trace" /\ TraceInv(c)
  BY <1>c DEF GcTrace, Inv
<1>2. /\ TypeOK /\ Lists /\ Entries /\ Control /\ NoDangling /\ MarkInv
      /\ frames = << >> /\ AtHand = RootSet \union stack
      /\ \A o \in Ids : Marked(o) => o \notin free
      /\ \A o \in Ids \ free : ref[o] # Invalid => ref[o] \in Ids \ free
      /\ stack \subseteq Ids \ free
      /\ Listed(next_obj, first_free, free) /\ Listed(next_obj, gc_queue_head, Work)
      /\ Listed(next_obj, finalize_queue_head, {})
  BY <1>1, MarkingFacts
<1>3. UNCHANGED <<kind, finalize_state, first_free, finalize_queue_head, ref, weak, stack, frames, ran>>
  BY DEF GcTrace, game
<1>4. /\ cursor' \in Ids /\ pc' \in {"trace", "mark"}
      /\ pc' = "trace" => cursor' = c + 1
      /\ pc' = "mark" => cursor' = 1 /\ c = NumObjects
  BY <1>c, <1>2, AdvanceType DEF GcTrace
<1>5. finalizable' = finalizable /\ finalizable = {} /\ AtHand' = AtHand /\ Kept \subseteq Kept'
  <2>1. finalizable' = finalizable /\ AtHand' = AtHand
    BY <1>3 DEF finalizable, AtHand
  <2> QED BY <1>1, <1>3, <2>1, KeptGrows DEF TraceInv
<1>6. AtHand \subseteq Kept
  BY <1>2, KeptHas
<1>7. /\ Lists' /\ Due' = {} /\ free' = free
      /\ \A x \in Work' : reachable'[x] # Unreachable /\ can_have_refs(x)
      /\ \A x \in Ids \ Work' : reachable'[x] # Unreachable /\ ref[x] # Invalid
                                  => reachable'[ref[x]] # Unreachable
      /\ reachable' = [reachable EXCEPT ![c] = IF c \in stack THEN Reachable ELSE @]
  <2>1. Range(frames) = {}
    BY <1>2 DEF Range
  <2>2. CASE c \in stack
    <3>1. add_to_gc_queue(gc_queue_head, c, Reachable) /\ c \in Ids \ free
      BY <1>c, <1>2, <2>2 DEF GcTrace
    <3>2. \A x \in Work : Marked(x) /\ can_have_refs(x)
      BY <1>2 DEF MarkInv
    <3>3. \A x \in Ids \ Work : Marked(x) /\ ref[x] # Invalid => Marked(ref[x]) \/ ref[x] = c
      BY <1>2 DEF MarkInv
    <3>4. Reachable \in {FReachable, Reachable}
      OBVIOUS
    <3>5. /\ Lists' /\ Due' = {} /\ free' = free
          /\ \A x \in Work' : reachable'[x] # Unreachable /\ can_have_refs(x)
          /\ \A x \in Ids \ Work' : reachable'[x] # Unreachable /\ ref[x] # Invalid
                                  => reachable'[ref[x]] # Unreachable
          /\ reachable' = [reachable EXCEPT ![c] = IF Reachable > @ THEN Reachable ELSE @]
      BY <1>2, <1>3, <3>1, <3>2, <3>3, <3>4, MarkOne
    <3>6. reachable' = [reachable EXCEPT ![c] = Reachable]
      <4>1. reachable[c] \in {Unreachable, FReachable, Reachable}
        BY <1>2 DEF TypeOK
      <4>2. (IF Reachable > reachable[c] THEN Reachable ELSE reachable[c]) = Reachable
        BY <4>1 DEF Unreachable, FReachable, Reachable
      <4> QED BY <1>2, <3>5, <4>2 DEF TypeOK
    <3> QED BY <2>2, <3>5, <3>6
  <2>3. CASE c \notin stack
    <3>1. UNCHANGED <<next_obj, gc_queue_head, reachable>>
      BY <1>c, <2>1, <2>3 DEF GcTrace, LeaveQueue
    <3>2. Lists' /\ Work' = Work /\ Due' = Due /\ free' = free
      BY <1>2, <1>3, <3>1, ListsSame DEF lists
    <3>3. reachable' = [reachable EXCEPT ![c] = IF c \in stack THEN Reachable ELSE @]
      BY <1>2, <2>3, <3>1 DEF TypeOK
    <3> QED BY <1>2, <3>1, <3>2, <3>3 DEF MarkInv, Marked
  <2> QED BY <2>2, <2>3
<1>8. \A x \in Ids : reachable'[x] = IF x = c /\ c \in stack THEN Reachable ELSE reachable[x]
  BY <1>1, <1>2, <1>7 DEF TypeOK
<1>9. MarkInv'
  <2>1. \A x \in Ids : reachable'[x] # Unreachable => x \in Kept'
    BY <1>2, <1>5, <1>6, <1>8 DEF MarkInv, Marked
  <2>2. \A x \in RootSet : reachable'[x] = Reachable
    BY <1>2, <1>8, IdsFacts DEF MarkInv
  <2>3. \A x : can_have_refs(x)' <=> can_have_refs(x)
    BY <1>3 DEF can_have_refs
  <2> QED BY <1>3, <1>7, <2>1, <2>2, <2>3 DEF MarkInv, Marked
<1>10. TraceInv(c + 1)'
  <2>1. \A x \in Ids : reachable'[x] # FReachable
    BY <1>1, <1>8 DEF TraceInv, FReachable, Reachable
  <2>2. \A x \in stack : x < c + 1 => reachable'[x] = Reachable
    <3>1. \A x \in stack : x \in Ids /\ x \in Nat /\ c \in Nat
      BY <1>1, <1>2, IdsFacts
    <3>2. \A x \in stack : x < c + 1 => x < c \/ x = c
      BY <3>1
    <3> QED BY <1>1, <1>8, <3>1, <3>2 DEF TraceInv
  <2> QED BY <1>3, <1>5, <2>1, <2>2 DEF TraceInv
<1>11. TraceInv(cursor)' \/ pc' = "mark"
  BY <1>2, <1>4, <1>10 DEF TraceInv, TypeOK
<1>12. Entries' /\ Control' /\ NoDangling'
  <2>1. \A x \in free : reachable'[x] = reachable[x]
    BY <1>2, <1>8 DEF free
  <2>2. Entries'
    BY <1>2, <1>3, <1>7, <2>1 DEF Entries, can_have_weak_refs
  <2>3. Control'
    BY <1>2, <1>3, <1>4 DEF Control
  <2>4. NoDangling'
    BY <1>1, <1>2, <1>3, <1>5, <1>7 DEF NoDangling
  <2> QED BY <2>2, <2>3, <2>4
<1>13. pc' = "mark" => TraceInv(NumObjects + 1)'
  BY <1>4, <1>10 DEF TraceInv
<1> QED BY <1>4, <1>7, <1>9, <1>11, <1>12, <1>13 DEF Inv

\* Lemma: an object leaves the work queue, and what it refers to is marked as
\* it is itself.
LEMMA MarkNextInv ==
  ASSUME Inv, TypeOK', GcMark
  PROVE  Inv'
<1>p. PICK p \in Ids : p = gc_queue_head
  BY DEF GcMark, TraceNext, Inv, TypeOK
<1>1. pc \in {"mark", "fmark"} /\ cursor = 1
  BY DEF GcMark, Inv, Control
<1>2. /\ TypeOK /\ Lists /\ Entries /\ Control /\ NoDangling /\ MarkInv
      /\ frames = << >> /\ AtHand = RootSet \union stack
      /\ \A o \in Ids : Marked(o) => o \notin free
      /\ \A o \in Ids \ free : ref[o] # Invalid => ref[o] \in Ids \ free
      /\ stack \subseteq Ids \ free
      /\ Listed(next_obj, first_free, free) /\ Listed(next_obj, gc_queue_head, Work)
      /\ Listed(next_obj, finalize_queue_head, {})
  BY <1>1, MarkingFacts
<1>3. UNCHANGED <<kind, finalize_state, first_free, finalize_queue_head, ref, weak, stack, frames,
                  ran, cursor, pc>>
  BY DEF GcMark, TraceNext, game
<1>4. finalizable' = finalizable /\ AtHand' = AtHand /\ Kept \subseteq Kept'
  <2>1. finalizable' = finalizable /\ AtHand' = AtHand
    BY <1>3 DEF finalizable, AtHand
  <2> QED BY <1>3, <2>1, KeptGrows
<1>5. p \in Work /\ Listed(next_obj, next_obj[p], Work \ {p})
  BY <1>p, <1>2, IdsFacts, ListedPop, ListedFacts
<1>6. Marked(p) /\ p \in Kept /\ Work \subseteq Ids
  BY <1>2, <1>5, ListedFacts DEF MarkInv
<1>7. PICK m \in [Ids -> {Unreachable, FReachable, Reachable}] :
        /\ reachable' = m
        /\ \A x \in Ids : m[x] = reachable[x] \/ (m[x] = reachable[p] /\ x = ref[p] /\ x \in Ids \ free
                                                  /\ reachable[p] > reachable[x])
        /\ Lists' /\ Due' = {} /\ free' = free
        /\ \A x \in Work' : m[x] # Unreachable /\ can_have_refs(x)
        /\ \A x \in Ids \ Work' : m[x] # Unreachable /\ ref[x] # Invalid => m[ref[x]] # Unreachable
  <2>1. reachable' \in [Ids -> {Unreachable, FReachable, Reachable}]
    BY DEF TypeOK
  <2>2. CASE ref[p] # Invalid
    <3> DEFINE q == ref[p]
    <3>1. q \in Ids \ free /\ add_to_gc_queue(next_obj[p], q, reachable[p])
      BY <1>p, <1>2, <1>6, <2>2 DEF GcMark, TraceNext
    <3>2. reachable[p] \in {FReachable, Reachable}
      BY <1>2, <1>6 DEF TypeOK, Marked
    <3>3. \A x \in Work \ {p} : Marked(x) /\ can_have_refs(x)
      BY <1>2 DEF MarkInv
    <3>4. \A x \in Ids \ (Work \ {p}) : Marked(x) /\ ref[x] # Invalid => Marked(ref[x]) \/ ref[x] = q
      BY <1>2 DEF MarkInv
    <3> HIDE DEF q
    <3>5. /\ Lists' /\ Due' = {} /\ free' = free
          /\ Work' = IF can_have_refs(q) /\ ~Marked(q) THEN (Work \ {p}) \union {q} ELSE Work \ {p}
          /\ reachable' = [reachable EXCEPT ![q] = IF reachable[p] > @ THEN reachable[p] ELSE @]
          /\ \A x \in Work' : reachable'[x] # Unreachable /\ can_have_refs(x)
          /\ \A x \in Ids \ Work' : reachable'[x] # Unreachable /\ ref[x] # Invalid
                                      => reachable'[ref[x]] # Unreachable
      BY <1>2, <1>3, <1>5, <3>1, <3>2, <3>3, <3>4, MarkOne
    <3>6. reachable'[q] = (IF reachable[p] > reachable[q] THEN reachable[p] ELSE reachable[q])
          /\ \A x \in Ids : x # q => reachable'[x] = reachable[x]
      BY <1>2, <3>1, <3>5 DEF TypeOK
    <3>7. Unreachable \in Nat /\ reachable[p] \in Nat /\ reachable[q] \in Nat
          /\ (reachable[p] > reachable[q] \/ reachable[q] >= reachable[p])
      <4>1. {reachable[p], reachable[q]} \subseteq {Unreachable, FReachable, Reachable}
        BY <1>2, <3>1 DEF TypeOK
      <4>2. {Unreachable, FReachable, Reachable} \subseteq Nat
        BY DEF Unreachable, FReachable, Reachable
      <4> QED BY <4>1, <4>2
    <3>8. \A x \in Ids : reachable'[x] = reachable[x]
                         \/ (reachable'[x] = reachable[p] /\ x = q /\ x \in Ids \ free
                             /\ reachable[p] > reachable[x])
      BY <3>1, <3>6, <3>7
    <3> QED BY <2>1, <3>5, <3>8 DEF q
  <2>3. CASE ref[p] = Invalid
    <3>1. gc_queue_head' = next_obj[p] /\ UNCHANGED <<next_obj, reachable>>
      BY <1>p, <2>3 DEF GcMark, TraceNext
    <3>2. free' = free
      BY <1>3 DEF free
    <3>3. Lists' /\ Work' = Work \ {p} /\ Due' = {}
      BY <1>2, <1>3, <1>5, <3>1, <3>2, ListsNext
    <3>4. \A x \in Ids \ Work' : Marked(x) /\ ref[x] # Invalid => Marked(ref[x])
      BY <1>2, <2>3, <3>3 DEF MarkInv
    <3>5. \A x \in Work' : Marked(x) /\ can_have_refs(x)
      BY <1>2, <3>3 DEF MarkInv
    <3> QED BY <2>1, <2>3, <3>1, <3>2, <3>3, <3>4, <3>5 DEF Marked
  <2> QED BY <2>2, <2>3
<1>n. Unreachable = 0 /\ Reachable = 2 /\ FReachable = 1
  BY DEF Unreachable, FReachable, Reachable
<1>8. \A x \in Ids : reachable[x] \in {0, 1, 2}
  BY <1>2, <1>n DEF TypeOK
<1>9. \A x \in Ids : /\ reachable[x] = Reachable => m[x] = Reachable
                     /\ m[x] = Unreachable => reachable[x] = Unreachable
                     /\ m[x] # Unreachable => Marked(x) \/ x = ref[p]
  BY <1>6, <1>7, <1>8, <1>n DEF Marked
<1>10. MarkInv'
  <2>1. \A x \in Ids : m[x] # Unreachable => x \in Kept'
    <3>1. ref[p] # Invalid => ref[p] \in Kept
      BY <1>2, <1>6, KeptStep
    <3> QED BY <1>2, <1>4, <1>9, <3>1, IdsFacts DEF MarkInv
  <2>2. \A x \in RootSet : m[x] = Reachable
    BY <1>2, <1>9, IdsFacts DEF MarkInv
  <2>3. \A x : can_have_refs(x)' <=> can_have_refs(x)
    BY <1>3 DEF can_have_refs
  <2> QED BY <1>3, <1>7, <2>1, <2>2, <2>3 DEF MarkInv, Marked
<1>11. Entries' /\ Control' /\ NoDangling'
  <2>1. \A x \in free : m[x] = reachable[x]
    BY <1>7 DEF free
  <2>2. Entries'
    BY <1>2, <1>3, <1>7, <2>1 DEF Entries, can_have_weak_refs
  <2>3. Control'
    BY <1>2, <1>3, <1>4 DEF Control
  <2>4. NoDangling'
    BY <1>1, <1>2, <1>3, <1>4, <1>7 DEF NoDangling
  <2> QED BY <2>2, <2>3, <2>4
<1>12. ASSUME pc = "mark" PROVE TraceInv(NumObjects + 1)'
  <2>1. TraceInv(NumObjects + 1)
    BY <1>12 DEF Inv
  <2>2. reachable[p] = Reachable
    BY <1>2, <1>6, <2>1 DEF TypeOK, TraceInv, Marked
  <2>3. \A x \in Ids : m[x] # FReachable
    BY <1>7, <1>n, <2>1, <2>2 DEF TraceInv
  <2>4. \A x \in stack : x < NumObjects + 1 => m[x] = Reachable
    BY <1>2, <1>9, <2>1 DEF TraceInv
  <2> QED BY <1>3, <1>4, <1>7, <2>1, <2>3, <2>4 DEF TraceInv
<1>13. ASSUME pc = "fmark" PROVE FMarkInv'
  <2>1. FMarkInv
    BY <1>13 DEF Inv
  <2>2. \A x \in stack : m[x] = Reachable
    BY <1>2, <1>9, <2>1 DEF FMarkInv
  <2>3. \A x \in Ids : m[x] = Unreachable => finalize_state[x] = "finalized"
    BY <1>9, <2>1 DEF FMarkInv, Marked
  <2> QED BY <1>3, <1>7, <2>2, <2>3 DEF FMarkInv, Marked
<1> QED BY <1>1, <1>3, <1>7, <1>10, <1>11, <1>12, <1>13 DEF Inv

\* Lemma: when the work queue is empty, all that is marked has its reference
\* marked, and the collector goes on: to the scan, or to the sweep.
LEMMA MarkedInv ==
  ASSUME Inv, TypeOK', GcMarked
  PROVE  Inv'
<1>1. pc \in {"mark", "fmark"} /\ cursor = 1
  BY DEF GcMarked, Inv, Control
<1>2. /\ TypeOK /\ Lists /\ Entries /\ Control /\ NoDangling /\ MarkInv
      /\ frames = << >> /\ AtHand = RootSet \union stack
      /\ \A o \in Ids : Marked(o) => o \notin free
      /\ \A o \in Ids \ free : ref[o] # Invalid => ref[o] \in Ids \ free
      /\ stack \subseteq Ids \ free
      /\ Listed(next_obj, gc_queue_head, Work)
  BY <1>1, MarkingFacts
<1>3. UNCHANGED <<kind, reachable, finalize_state, next_obj, first_free, gc_queue_head,
                  finalize_queue_head, ref, weak, stack, frames, cursor, ran>>
  BY DEF GcMarked, marks, lists, game
<1>4. Lists' /\ Work' = Work /\ Due' = Due /\ free' = free
  BY <1>2, <1>3, ListsSame DEF lists
<1>5. finalizable' = finalizable /\ AtHand' = AtHand /\ Kept \subseteq Kept'
  <2>1. finalizable' = finalizable /\ AtHand' = AtHand
    BY <1>3 DEF finalizable, AtHand
  <2> QED BY <1>3, <2>1, KeptGrows
<1>6. Work = {} /\ Due = {}
  BY <1>2, ListedFacts DEF GcMarked, MarkInv
<1>7. Entries' /\ NoDangling'
  BY <1>1, <1>2, <1>3, <1>4, <1>5 DEF Entries, can_have_weak_refs, NoDangling
<1>8. \A o \in Ids : o \in Nat /\ ~(o < 1) /\ o >= 1 /\ o < NumObjects + 1
  BY TableAssumption DEF Ids
<1>9. \A o \in Ids : Marked(o) => o \in Kept /\ (ref[o] # Invalid => Marked(ref[o]))
  BY <1>2, <1>6 DEF MarkInv
<1>10. CASE pc = "mark"
  <2>1. pc' = "scan" /\ TraceInv(NumObjects + 1)
    BY <1>10 DEF GcMarked, Inv
  <2>2. MarkInv'
    BY <1>2, <1>3, <1>4, <1>5 DEF MarkInv, Marked, can_have_refs
  <2>3. ScanInv(1)
    <3>1. \A o \in Ids : Marked(o) <=> reachable[o] = Reachable
      BY <1>2, <2>1 DEF TraceInv, TypeOK, Marked, Unreachable, FReachable, Reachable
    <3>2. \A o \in stack : reachable[o] = Reachable
      BY <1>2, <1>8, <2>1 DEF TraceInv
    <3>3. \A o \in Ids : ref[o] # Invalid => ref[o] \in Ids
      BY <1>2 DEF TypeOK
    <3> QED BY <1>6, <1>8, <1>9, <3>1, <3>2, <3>3 DEF ScanInv
  <2>4. ScanInv(1)'
    BY <1>3, <1>4, <1>5, <2>3 DEF ScanInv, Marked
  <2>5. ScanInv(cursor)'
    BY <1>1, <1>3, <2>4 DEF ScanInv
  <2>6. Control'
    BY <1>2, <1>3, <2>1 DEF Control
  <2> QED BY <1>4, <1>7, <2>1, <2>2, <2>5, <2>6 DEF Inv
<1>11. CASE pc = "fmark"
  <2>1. pc' = "sweep" /\ FMarkInv
    BY <1>11 DEF GcMarked, Inv
  <2>2. \A o \in Ids : Survives(o, 1) <=> Marked(o)
    <3>1. \A o \in Ids : kind[o] # Free <=> o \notin free
      BY DEF free
    <3> QED BY <1>2, <1>8, <2>1, <3>1 DEF Survives, is_deletable, Marked, FMarkInv
  <2>3. SweepInv(1)
    <3>1. Work = {o \in RootSet : o < 1} /\ Due = {o \in finalizable : o < 1}
      BY <1>6, <1>8, IdsFacts DEF finalizable
    <3>2. \A o \in Ids : ref[o] # Invalid => ref[o] \in Ids
      BY <1>2 DEF TypeOK
    <3>3. \A o \in stack : Survives(o, 1)
      BY <1>2, <2>1, <2>2 DEF FMarkInv, Marked, Unreachable, Reachable
    <3>4. \A o \in Ids : ~(o < 1)
      BY <1>8
    <3>5. \A o \in Ids : ~Marked(o) => finalize_state[o] = "finalized"
      BY <2>1 DEF FMarkInv
    <3>6. \A o \in RootSet : reachable[o] = Reachable
      BY <1>2 DEF MarkInv
    <3>7. \A o \in Ids : Survives(o, 1) => o \in Kept /\ (ref[o] # Invalid => Survives(ref[o], 1))
      BY <1>9, <2>2, <3>2
    <3> QED BY <3>1, <3>3, <3>4, <3>5, <3>6, <3>7 DEF SweepInv
  <2>4. SweepInv(1)'
    BY <1>3, <1>4, <1>5, <2>3 DEF SweepInv, Marked, Survives, is_deletable
  <2>5. SweepInv(cursor)'
    BY <1>1, <1>3, <2>4 DEF SweepInv
  <2>6. Control'
    BY <1>2, <1>3, <2>1 DEF Control
  <2> QED BY <1>4, <1>7, <2>1, <2>5, <2>6 DEF Inv
<1> QED BY <1>1, <1>10, <1>11

\* Lemma: one entry is looked at for what can be finalized.
LEMMA ScanEntryInv ==
  ASSUME Inv, TypeOK', GcScan
  PROVE  Inv'
<1>c. PICK c \in Ids : c = cursor
  BY DEF Inv, TypeOK
<1>1. pc = "scan" /\ ScanInv(c)
  BY <1>c DEF GcScan, Inv
<1>2. /\ TypeOK /\ Lists /\ Entries /\ Control /\ NoDangling /\ MarkInv
      /\ frames = << >> /\ AtHand = RootSet \union stack
      /\ \A o \in Ids : Marked(o) => o \notin free
      /\ \A o \in Ids \ free : ref[o] # Invalid => ref[o] \in Ids \ free
      /\ stack \subseteq Ids \ free
      /\ Listed(next_obj, first_free, free) /\ Listed(next_obj, gc_queue_head, Work)
      /\ Listed(next_obj, finalize_queue_head, {})
  BY <1>1, MarkingFacts
<1>3. UNCHANGED <<kind, first_free, finalize_queue_head, ref, weak, stack, frames, ran>>
  BY DEF GcScan, game
<1>4. /\ cursor' \in Ids /\ pc' \in {"scan", "fmark"}
      /\ pc' = "scan" => cursor' = c + 1
      /\ pc' = "fmark" => cursor' = 1 /\ c = NumObjects
  BY <1>c, <1>2, AdvanceType DEF GcScan
<1>n. Unreachable = 0 /\ Reachable = 2 /\ FReachable = 1
  BY DEF Unreachable, FReachable, Reachable
<1>5. PICK fs \in [Ids -> FinalizeStates] :
        /\ finalize_state' = fs /\ \A x \in Ids : x # c => fs[x] = finalize_state[x]
        /\ fs[c] = IF c \notin free \union RootSet /\ reachable[c] # Reachable
                      /\ finalize_state[c] = "unfinalizable"
                   THEN IF has_finalizer(c) THEN "finalizable" ELSE "finalized"
                   ELSE finalize_state[c]
  <2>1. finalize_state' \in [Ids -> FinalizeStates]
    BY DEF TypeOK
  <2>2. CASE c \in free \union RootSet
    <3>1. finalize_state' = finalize_state
      BY <1>c, <2>2 DEF GcScan
    <3> QED BY <2>1, <2>2, <3>1
  <2>3. CASE c \notin free \union RootSet
    <3>1. finalize_state' =
               [finalize_state EXCEPT ![c] =
                  IF reachable[c] # Reachable /\ @ = "unfinalizable"
                  THEN IF has_finalizer(c) THEN "finalizable" ELSE "finalized"
                  ELSE @]
      BY <1>c, <2>3 DEF GcScan
    <3> QED BY <1>2, <2>1, <2>3, <3>1 DEF TypeOK
  <2> QED BY <2>2, <2>3
<1>6. PICK m \in [Ids -> {Unreachable, FReachable, Reachable}] :
        /\ reachable' = m
        /\ \A x \in Ids : x # c => m[x] = reachable[x]
        /\ m[c] = IF c \notin free \union RootSet /\ fs[c] = "finalizable" /\ ~Marked(c)
                  THEN FReachable ELSE reachable[c]
        /\ Lists' /\ Due' = {} /\ free' = free
        /\ Work' \subseteq Work \union {x \in {c} : ~Marked(c)}
        /\ \A x \in Work' : m[x] # Unreachable /\ can_have_refs(x)
        /\ \A x \in Ids \ Work' : m[x] # Unreachable /\ ref[x] # Invalid => m[ref[x]] # Unreachable
  <2>1. reachable' \in [Ids -> {Unreachable, FReachable, Reachable}]
    BY DEF TypeOK
  <2>2. \A x \in Work : Marked(x) /\ can_have_refs(x)
    BY <1>2 DEF MarkInv
  <2>3. \A x \in Ids \ Work : Marked(x) /\ ref[x] # Invalid => Marked(ref[x])
    BY <1>2 DEF MarkInv
  <2>4. CASE c \notin free \union RootSet /\ fs[c] = "finalizable"
    <3>1. add_to_gc_queue(gc_queue_head, c, FReachable) /\ c \in Ids \ free
      BY <1>c, <1>5, <2>4 DEF GcScan
    <3>2. FReachable \in {FReachable, Reachable}
      OBVIOUS
    <3>3. /\ Lists' /\ Due' = {} /\ free' = free
          /\ Work' = IF can_have_refs(c) /\ ~Marked(c) THEN Work \union {c} ELSE Work
          /\ reachable' = [reachable EXCEPT ![c] = IF FReachable > @ THEN FReachable ELSE @]
          /\ \A x \in Work' : reachable'[x] # Unreachable /\ can_have_refs(x)
          /\ \A x \in Ids \ Work' : reachable'[x] # Unreachable /\ ref[x] # Invalid
                                      => reachable'[ref[x]] # Unreachable
      BY <1>2, <1>3, <2>2, <2>3, <3>1, <3>2, MarkOne
    <3>4. \A x \in Ids : x # c => reachable'[x] = reachable[x]
      BY <1>2, <3>3 DEF TypeOK
    <3>5. reachable'[c] = IF FReachable > reachable[c] THEN FReachable ELSE reachable[c]
      BY <1>2, <3>3 DEF TypeOK
    <3>6. reachable[c] \in {0, 1, 2}
      BY <1>2, <1>n DEF TypeOK
    <3>7. reachable'[c] = IF ~Marked(c) THEN FReachable ELSE reachable[c]
      BY <1>n, <3>5, <3>6 DEF Marked
    <3> QED BY <2>1, <2>4, <3>3, <3>4, <3>7
  <2>5. CASE ~(c \notin free \union RootSet /\ fs[c] = "finalizable")
    <3>1. UNCHANGED <<next_obj, gc_queue_head, reachable>>
      BY <1>c, <1>5, <2>5 DEF GcScan, LeaveQueue
    <3>2. Lists' /\ Work' = Work /\ Due' = Due /\ free' = free
      BY <1>2, <1>3, <3>1, ListsSame DEF lists
    <3> QED BY <1>2, <2>1, <2>2, <2>3, <2>5, <3>1, <3>2 DEF MarkInv, Marked
  <2> QED BY <2>4, <2>5
<1>7. finalizable \subseteq finalizable' /\ AtHand' = AtHand /\ Kept \subseteq Kept'
      /\ (fs[c] = "finalizable" => c \in Kept')
  <2>1. finalizable \subseteq finalizable' /\ AtHand' = AtHand
    BY <1>3, <1>5 DEF finalizable, AtHand
  <2>2. (AtHand \union finalizable)' \subseteq Kept'
    BY KeptHasNext
  <2> QED BY <1>3, <1>5, <2>1, <2>2, KeptGrows DEF finalizable
<1>8. \A x \in Ids : /\ m[x] = Reachable <=> reachable[x] = Reachable
                     /\ m[x] # Unreachable => Marked(x) \/ (x = c /\ fs[c] = "finalizable")
                     /\ m[x] = Unreachable => reachable[x] = Unreachable
  BY <1>6, <1>n DEF Marked
<1>9. MarkInv'
  <2>1. \A x \in Ids : m[x] # Unreachable => x \in Kept'
    BY <1>2, <1>7, <1>8 DEF MarkInv
  <2>2. \A x \in RootSet : m[x] = Reachable
    BY <1>2, <1>8, IdsFacts DEF MarkInv
  <2>3. \A x : can_have_refs(x)' <=> can_have_refs(x)
    BY <1>3 DEF can_have_refs
  <2> QED BY <1>3, <1>6, <2>1, <2>2, <2>3 DEF MarkInv, Marked
<1>10. ScanInv(c + 1)'
  <2>1. \A x \in stack : m[x] = Reachable
    BY <1>1, <1>2, <1>8 DEF ScanInv
  <2>2. \A x \in Work' : m[x] # Reachable
    BY <1>1, <1>2, <1>6, <1>8, <1>n, ListedFacts DEF ScanInv, Marked
  <2>3. \A x \in Ids : m[x] = Reachable /\ ref[x] # Invalid => m[ref[x]] = Reachable
    <3>1. \A x \in Ids : ref[x] # Invalid => ref[x] \in Ids
      BY <1>2 DEF TypeOK
    <3> QED BY <1>1, <1>8, <3>1 DEF ScanInv
  <2>4. \A x \in Ids : x < c + 1 => x < c \/ x = c
    BY IdsFacts
  <2>5. m[c] = Unreachable => fs[c] = "finalized"
    <3>1. CASE c \in free \union RootSet
      <4>1. c \in RootSet => m[c] = Reachable
        BY <1>2, <1>8 DEF MarkInv
      <4> QED BY <1>2, <1>5, <1>n, <3>1, <4>1 DEF Entries, can_have_weak_refs
    <3>2. CASE c \notin free \union RootSet
      <4>1. finalize_state[c] \in FinalizeStates /\ m[c] = Unreachable => reachable[c] = Unreachable
        BY <1>2, <1>8 DEF TypeOK
      <4>2. fs[c] = "finalizable" => m[c] # Unreachable
        BY <1>6, <1>n, <3>2 DEF Marked
      <4>3. reachable[c] = Unreachable => reachable[c] # Reachable
        BY <1>n
      <4>4. finalize_state[c] \in FinalizeStates
        BY <1>2 DEF TypeOK
      <4> QED BY <1>5, <1>8, <3>2, <4>2, <4>3, <4>4 DEF FinalizeStates
    <3> QED BY <3>1, <3>2
  <2>6. \A x \in Ids : x < c + 1 /\ m[x] = Unreachable => fs[x] = "finalized"
    BY <1>1, <1>5, <1>8, <2>4, <2>5 DEF ScanInv, Marked
  <2> QED BY <1>3, <1>5, <1>6, <2>1, <2>2, <2>3, <2>6 DEF ScanInv, Marked
<1>11. pc' = "scan" => ScanInv(cursor)'
  BY <1>4, <1>10 DEF ScanInv
<1>12. pc' = "fmark" => FMarkInv'
  <2>1. \A x \in Ids : x < NumObjects + 1
    BY TableAssumption DEF Ids
  <2> QED BY <1>4, <1>10, <2>1 DEF ScanInv, FMarkInv
<1>13. Entries' /\ Control' /\ NoDangling'
  <2>1. \A x \in free : m[x] = reachable[x] /\ fs[x] = finalize_state[x]
    BY <1>5, <1>6 DEF free
  <2>2. \A x \in RootSet : fs[x] = finalize_state[x]
    BY <1>5, IdsFacts
  <2>3. \A x \in ran : fs[x] = "finalized"
    BY <1>2, <1>5 DEF Entries, can_have_weak_refs, TypeOK
  <2>4. Entries'
    BY <1>2, <1>3, <1>5, <1>6, <2>1, <2>2, <2>3 DEF Entries, can_have_weak_refs
  <2>5. Control'
    BY <1>2, <1>3, <1>4 DEF Control
  <2>6. NoDangling'
    BY <1>1, <1>2, <1>3, <1>6, <1>7 DEF NoDangling
  <2> QED BY <2>4, <2>5, <2>6
<1> QED BY <1>4, <1>6, <1>9, <1>11, <1>12, <1>13 DEF Inv

-----------------------------------------------------------------------------
\* The sweep.

\* Lemma: one entry is swept.  An object that outlives the sweep does so before
\* and after the marks of the entry are reset.
LEMMA SweepEntry ==
  ASSUME Inv, TypeOK', GcSweep, NEW c \in Ids, c = cursor
  PROVE  Lists' /\ Entries' /\ SweepInv(c + 1)'
<1>1. TypeOK /\ Lists /\ Entries /\ Control /\ NoDangling /\ SweepInv(c) /\ frames = << >>
  BY DEF GcSweep, Inv, Control
<1>2. UNCHANGED <<finalize_state, stack, frames, ran>>
  BY DEF GcSweep
<1>3. finalizable' = finalizable /\ AtHand' = AtHand /\ AtHand = RootSet \union stack
  BY <1>1, <1>2 DEF finalizable, AtHand, Range
<1>4. \A o \in Ids : o \in Nat /\ (o < c + 1 <=> o < c \/ o = c) /\ (o >= c + 1 <=> o >= c /\ o # c)
                     /\ (o < c \/ o >= c) /\ ~(o < c /\ o = c) /\ (o < c + 1 \/ o >= c + 1)
  BY IdsFacts
<1>n. Unreachable = 0 /\ Reachable = 2 /\ FReachable = 1
  BY DEF Unreachable, FReachable, Reachable
<1> DEFINE WorkNext == IF c \in RootSet THEN Work \union {c} ELSE Work
           DueNext  == IF c \in finalizable THEN Due \union {c} ELSE Due
<1>5. WorkNext = {o \in RootSet : o < c + 1} /\ DueNext = {o \in finalizable : o < c + 1}
  <2>1. Work = {o \in RootSet : o < c} /\ Due = {o \in finalizable : o < c}
    BY <1>1 DEF SweepInv
  <2>2. RootSet \subseteq Ids /\ finalizable \subseteq Ids
    BY IdsFacts DEF finalizable
  <2>3. WorkNext = {o \in RootSet : o < c + 1}
    BY <1>4, <2>1, <2>2
  <2>4. DueNext = {o \in finalizable : o < c + 1}
    BY <1>4, <2>1, <2>2
  <2> QED BY <2>3, <2>4
<1>6. c \notin Work /\ c \notin Due /\ Work \subseteq RootSet /\ Due \subseteq finalizable
  BY <1>1, <1>4 DEF SweepInv
<1>7. (c \in RootSet => c \notin free /\ c \notin finalizable) /\ (c \in free => c \notin finalizable)
  BY <1>1 DEF Entries, free, finalizable, Free
\* What each kind of entry comes to.
<1> DEFINE Swept ==
      /\ Listed(next_obj', first_free', free') /\ Listed(next_obj', gc_queue_head', WorkNext)
      /\ Listed(next_obj', finalize_queue_head', DueNext)
      /\ \A o \in Ids : o # c => /\ kind'[o] = kind[o] /\ reachable'[o] = reachable[o]
                                 /\ ref'[o] = ref[o] /\ weak'[o] = weak[o]
      /\ Survives(c, c) => /\ kind'[c] = kind[c] /\ ref'[c] = ref[c]
                           /\ weak'[c] # Invalid => Survives(weak'[c], c)
                           /\ weak'[c] # Invalid => can_have_weak_refs(c)
      /\ ~Survives(c, c) => /\ kind'[c] = Free /\ ref'[c] = Invalid /\ weak'[c] = Invalid
                            /\ finalize_state[c] = "finalized" /\ c \notin RootSet
      /\ reachable'[c] = IF c \in RootSet THEN Reachable ELSE Unreachable
<1>8. Swept
  <2>1. CASE c \in free
    <3>1. UNCHANGED <<kind, reachable, next_obj, first_free, gc_queue_head, finalize_queue_head, ref, weak>>
      BY <2>1 DEF GcSweep, lists
    <3>2. free' = free /\ WorkNext = Work /\ DueNext = Due
      BY <1>7, <2>1, <3>1 DEF free
    <3>3. ~Survives(c, c) /\ kind[c] = Free
      BY <2>1 DEF Survives, free
    <3> HIDE DEF WorkNext, DueNext
    <3>4. /\ Listed(next_obj', first_free', free') /\ Listed(next_obj', gc_queue_head', WorkNext)
          /\ Listed(next_obj', finalize_queue_head', DueNext)
      BY <1>1, <3>1, <3>2 DEF Lists
    <3> QED BY <1>1, <1>7, <2>1, <3>1, <3>3, <3>4 DEF Entries
  <2>2. CASE c \notin free /\ is_deletable(c)
    <3>1. /\ kind' = [kind EXCEPT ![c] = Free] /\ next_obj' = [next_obj EXCEPT ![c] = first_free]
          /\ first_free' = c /\ ref' = [ref EXCEPT ![c] = Invalid]
          /\ weak' = [weak EXCEPT ![c] = Invalid]
          /\ UNCHANGED <<reachable, gc_queue_head, finalize_queue_head>>
      BY <2>2 DEF GcSweep, delete_entry
    <3>2. kind[c] # Free /\ reachable[c] = Unreachable /\ finalize_state[c] = "finalized"
      BY <2>2 DEF is_deletable, free
    <3>3. c \notin RootSet /\ c \notin finalizable
      BY <1>1, <3>2 DEF Entries, finalizable
    <3>4. WorkNext = Work /\ DueNext = Due
      BY <3>3
    <3>5. free' = free \union {c}
      BY <1>1, <3>1 DEF free, TypeOK
    <3>6. next_obj'[c] = first_free /\ \A x \in Ids : x # c => next_obj'[x] = next_obj[x]
      BY <1>1, <3>1 DEF TypeOK
    <3>7. free \subseteq Ids /\ Work \subseteq Ids /\ Due \subseteq Ids
      BY <1>6, IdsFacts DEF free, finalizable
    <3> HIDE DEF WorkNext, DueNext
    <3>8. Listed(next_obj', c, free \union {c})
      <4>1. \A x \in free : next_obj'[x] = next_obj[x]
        BY <2>2, <3>6, <3>7
      <4> QED BY <1>1, <2>2, <3>6, <4>1, ListedPush DEF Lists
    <3>9. Listed(next_obj', gc_queue_head, Work)
      <4>1. \A x \in Work : next_obj'[x] = next_obj[x]
        BY <1>6, <3>6, <3>7
      <4> QED BY <1>1, <4>1, ListedSame DEF Lists
    <3>10. Listed(next_obj', finalize_queue_head, Due)
      <4>1. \A x \in Due : next_obj'[x] = next_obj[x]
        BY <1>6, <3>6, <3>7
      <4> QED BY <1>1, <4>1, ListedSame DEF Lists
    <3>11. /\ Listed(next_obj', first_free', free') /\ Listed(next_obj', gc_queue_head', WorkNext)
           /\ Listed(next_obj', finalize_queue_head', DueNext)
      BY <3>1, <3>4, <3>5, <3>8, <3>9, <3>10
    <3>12. ~Survives(c, c)
      BY <1>4, <2>2 DEF Survives
    <3>13. kind'[c] = Free /\ ref'[c] = Invalid /\ weak'[c] = Invalid
      BY <1>1, <3>1 DEF TypeOK
    <3>14. \A o \in Ids : o # c => /\ kind'[o] = kind[o] /\ reachable'[o] = reachable[o]
                                   /\ ref'[o] = ref[o] /\ weak'[o] = weak[o]
      BY <1>1, <3>1 DEF TypeOK
    <3> QED BY <3>1, <3>2, <3>3, <3>11, <3>12, <3>13, <3>14
  <2>3. CASE c \notin free /\ ~is_deletable(c)
    <3>1. keep_entry(c) /\ UNCHANGED <<kind, first_free, ref>>
      BY <2>3 DEF GcSweep
    <3>2. Survives(c, c) /\ free' = free
      BY <1>4, <2>3, <3>1 DEF Survives, free
    <3>3. \A o \in Ids : o # c => weak'[o] = weak[o]
      BY <1>1, <2>3 DEF GcSweep, remove_stale_weak_refs, TypeOK
    <3>4. weak'[c] # Invalid => can_have_weak_refs(c) /\ Survives(weak'[c], c)
      <4>1. CASE can_have_weak_refs(c)
        <5>1. weak'[c] # Invalid => weak'[c] = weak[c] /\ ~is_deletable(weak[c])
          BY <1>1, <2>3, <4>1 DEF GcSweep, remove_stale_weak_refs, TypeOK
        <5> QED BY <4>1, <5>1 DEF Survives, is_deletable
      <4>2. CASE ~can_have_weak_refs(c)
        BY <1>1, <2>3, <4>2 DEF GcSweep, Entries
      <4> QED BY <4>1, <4>2
    <3>5. /\ \A o \in Ids : o # c => reachable'[o] = reachable[o]
          /\ reachable'[c] = IF c \in RootSet THEN Reachable ELSE Unreachable
      BY <1>1, <3>1 DEF keep_entry, TypeOK
    <3>6. free \subseteq Ids /\ Work \subseteq Ids /\ Due \subseteq Ids
      BY <1>6, IdsFacts DEF free, finalizable
    <3>7. /\ Listed(next_obj', first_free, free) /\ Listed(next_obj', gc_queue_head', WorkNext)
          /\ Listed(next_obj', finalize_queue_head', DueNext)
      <4>1. CASE c \in RootSet
        <5>1. next_obj' = [next_obj EXCEPT ![c] = gc_queue_head] /\ gc_queue_head' = c
              /\ finalize_queue_head' = finalize_queue_head
          BY <1>1, <3>1, <4>1 DEF keep_entry, can_have_refs, Entries
        <5>2. next_obj'[c] = gc_queue_head /\ \A x \in Ids : x # c => next_obj'[x] = next_obj[x]
          BY <1>1, <5>1 DEF TypeOK
        <5>3. /\ \A x \in free : next_obj'[x] = next_obj[x]
              /\ \A x \in Work : next_obj'[x] = next_obj[x]
              /\ \A x \in Due : next_obj'[x] = next_obj[x]
          BY <1>6, <2>3, <3>6, <5>2
        <5>4. WorkNext = Work \union {c} /\ DueNext = Due
          BY <1>7, <4>1
        <5> HIDE DEF WorkNext, DueNext
        <5>5. Listed(next_obj', c, Work \union {c})
          BY <1>1, <1>6, <5>2, <5>3, ListedPush DEF Lists
        <5>6. Listed(next_obj', first_free, free)
          BY <1>1, <5>3, ListedSame DEF Lists
        <5>7. Listed(next_obj', finalize_queue_head, Due)
          BY <1>1, <5>3, ListedSame DEF Lists
        <5> QED BY <5>1, <5>4, <5>5, <5>6, <5>7
      <4>2. CASE c \notin RootSet /\ c \in finalizable
        <5>1. next_obj' = [next_obj EXCEPT ![c] = finalize_queue_head] /\ finalize_queue_head' = c
              /\ gc_queue_head' = gc_queue_head
          BY <3>1, <4>2 DEF keep_entry, finalizable
        <5>2. next_obj'[c] = finalize_queue_head /\ \A x \in Ids : x # c => next_obj'[x] = next_obj[x]
          BY <1>1, <5>1 DEF TypeOK
        <5>3. /\ \A x \in free : next_obj'[x] = next_obj[x]
              /\ \A x \in Work : next_obj'[x] = next_obj[x]
              /\ \A x \in Due : next_obj'[x] = next_obj[x]
          BY <1>6, <2>3, <3>6, <5>2
        <5>4. WorkNext = Work /\ DueNext = Due \union {c}
          BY <4>2
        <5> HIDE DEF WorkNext, DueNext
        <5>5. Listed(next_obj', c, Due \union {c})
          BY <1>1, <1>6, <5>2, <5>3, ListedPush DEF Lists
        <5>6. Listed(next_obj', first_free, free)
          BY <1>1, <5>3, ListedSame DEF Lists
        <5>7. Listed(next_obj', gc_queue_head, Work)
          BY <1>1, <5>3, ListedSame DEF Lists
        <5> QED BY <5>1, <5>4, <5>5, <5>6, <5>7
      <4>3. CASE c \notin RootSet /\ c \notin finalizable
        <5>1. UNCHANGED <<next_obj, gc_queue_head, finalize_queue_head>>
          BY <3>1, <4>3 DEF keep_entry, finalizable
        <5>2. WorkNext = Work /\ DueNext = Due
          BY <4>3
        <5> HIDE DEF WorkNext, DueNext
        <5> QED BY <1>1, <5>1, <5>2 DEF Lists
      <4> QED BY <4>1, <4>2, <4>3
    <3> HIDE DEF WorkNext, DueNext
    <3> QED BY <3>1, <3>2, <3>3, <3>4, <3>5, <3>7
  <2> QED BY <2>1, <2>2, <2>3
<1> HIDE DEF WorkNext, DueNext
<1>9. Lists' /\ Work' = {o \in RootSet : o < c + 1} /\ Due' = {o \in finalizable : o < c + 1}
  BY <1>5, <1>8, ListsNext
\* Which objects outlive the sweep has not changed.
<1> DEFINE Living == {o \in Ids : Survives(o, c)}
<1>10. \A o \in Ids : (kind'[o] # Free /\ (o < c + 1 \/ ~is_deletable(o)')) <=> o \in Living
  <2> TAKE o \in Ids
  <2>1. CASE o = c
    <3>1. kind'[c] # Free <=> c \in Living
      BY <1>8 DEF Survives
    <3> QED BY <1>4, <2>1, <3>1
  <2>2. CASE o # c
    BY <1>2, <1>4, <1>8, <2>2 DEF Survives, is_deletable
  <2> QED BY <2>1, <2>2
<1>11. \A o \in Ids : Survives(o, c + 1)' <=> o \in Living
  BY <1>10 DEF Survives
<1>12. \A o \in Ids : o \in Living =>
         /\ ref'[o] = ref[o]
         /\ ref[o] # Invalid => ref[o] \in Living
         /\ o < c + 1 /\ weak'[o] # Invalid => weak'[o] \in Living
         /\ o \in Kept
  <2> TAKE o \in Ids
  <2>1. (ref[o] # Invalid => ref[o] \in Ids) /\ (weak'[o] # Invalid => weak'[o] \in Ids)
    BY <1>1 DEF TypeOK
  <2>2. CASE o = c
    BY <1>1, <1>8, <2>1, <2>2 DEF SweepInv
  <2>3. CASE o # c
    BY <1>1, <1>4, <1>8, <2>1, <2>3 DEF SweepInv
  <2> QED BY <2>2, <2>3
<1>13. \A o \in RootSet \union stack \union finalizable : o \in Ids /\ o \in Living
  <2>1. \A o \in RootSet : o \in Ids /\ o \in Living
    BY <1>1, <1>4, <1>n, IdsFacts DEF SweepInv, Survives, is_deletable, Entries, Free
  <2>2. \A o \in stack : o \in Ids /\ o \in Living
    BY <1>1 DEF SweepInv, TypeOK
  <2>3. \A o \in finalizable : o \in Ids /\ o \in Living
    BY <1>1 DEF finalizable, Survives, is_deletable, Entries, free
  <2> QED BY <2>1, <2>2, <2>3
<1>l. Living \subseteq Ids
  OBVIOUS
<1> HIDE DEF Living
<1>14. Living \subseteq Kept'
  <2> DEFINE T == Living \intersect Kept'
  <2>1. (AtHand \union finalizable)' \subseteq Kept'
    BY KeptHasNext
  <2>2. AtHand \union finalizable \subseteq T
    BY <1>3, <1>13, <2>1
  <2>3. \A o \in T : ref[o] # Invalid /\ o # Invalid => ref[o] \in T
    <3> TAKE o \in T
    <3>1. ref[o] # Invalid => ref[o] \in Ids
      BY <1>l, <1>1 DEF TypeOK
    <3>2. o \in Kept' /\ o \in Living /\ ref'[o] = ref[o]
      BY <1>l, <1>12
    <3>3. ref[o] # Invalid => ref[o] \in Kept'
      BY <3>2, KeptStepNext
    <3> QED BY <1>l, <1>12, <3>2, <3>3
  <2> HIDE DEF T
  <2>4. Kept \subseteq T
    BY <2>2, <2>3, ReachIn, ClosureReach DEF Kept
  <2> QED BY <1>l, <1>12, <2>4 DEF T
<1>15. SweepInv(c + 1)'
  <2>1. \A o \in stack' : Survives(o, c + 1)'
    BY <1>2, <1>11, <1>13
  <2>2. \A o \in Ids : o < c + 1 => reachable'[o] = IF o \in RootSet THEN Reachable ELSE Unreachable
    BY <1>1, <1>4, <1>8 DEF SweepInv
  <2>3. \A o \in Ids : o >= c + 1 /\ reachable'[o] = Unreachable => finalize_state'[o] = "finalized"
    BY <1>1, <1>2, <1>4, <1>8 DEF SweepInv, Marked
  <2>4. \A o \in RootSet : o >= c + 1 => reachable'[o] = Reachable
    BY <1>1, <1>4, <1>8, IdsFacts DEF SweepInv
  <2>5. ASSUME NEW o \in Ids, Survives(o, c + 1)'
        PROVE  /\ ref'[o] # Invalid => Survives(ref[o], c + 1)'
               /\ o < c + 1 /\ weak'[o] # Invalid => Survives(weak[o], c + 1)'
               /\ o \in Kept'
    <3>1. o \in Living
      BY <1>11, <2>5
    <3>2. (ref'[o] # Invalid => ref'[o] \in Ids) /\ (weak'[o] # Invalid => weak'[o] \in Ids)
      BY DEF TypeOK
    <3>3. /\ ref'[o] # Invalid => ref'[o] \in Living
          /\ o < c + 1 /\ weak'[o] # Invalid => weak'[o] \in Living
      BY <1>12, <3>1
    <3>4. \A x \in Ids : x \in Living => kind'[x] # Free /\ (x < c + 1 \/ ~is_deletable(x)')
      BY <1>10
    <3>5. ref'[o] # Invalid => Survives(ref[o], c + 1)'
      BY <3>2, <3>3, <3>4 DEF Survives, is_deletable
    <3>6. o < c + 1 /\ weak'[o] # Invalid => Survives(weak[o], c + 1)'
      BY <3>2, <3>3, <3>4 DEF Survives, is_deletable
    <3> QED BY <1>14, <3>1, <3>5, <3>6
  <2> QED BY <1>3, <1>9, <2>1, <2>2, <2>3, <2>4, <2>5 DEF SweepInv, Marked
<1>16. Entries'
  <2>1. \A x \in free' : x \in Ids /\ kind'[x] = Free
    BY DEF free
  <2>2. \A x \in free' : /\ ref'[x] = Invalid /\ weak'[x] = Invalid
                         /\ reachable'[x] = Unreachable /\ finalize_state'[x] = "finalized"
    <3> TAKE x \in free'
    <3>1. CASE x = c
      <4>1. ~Survives(c, c)
        BY <1>8, <2>1, <3>1 DEF Survives
      <4> QED BY <1>2, <1>8, <3>1, <4>1
    <3>2. CASE x # c
      <4>1. x \in free
        BY <1>8, <2>1, <3>2 DEF free
      <4> QED BY <1>1, <1>2, <1>8, <2>1, <3>2, <4>1 DEF Entries
    <3> QED BY <3>1, <3>2
  <2>3. \A x \in RootSet : kind'[x] = "plain" /\ finalize_state'[x] = "unfinalizable"
    BY <1>1, <1>2, <1>8, IdsFacts DEF Entries
  <2>4. \A x \in Ids : kind'[x] = "leaf" => ref'[x] = Invalid
    BY <1>1, <1>8 DEF Entries
  <2>5. \A x \in Ids : weak'[x] # Invalid => kind'[x] = "weak"
    BY <1>1, <1>8 DEF Entries, can_have_weak_refs
  <2> QED BY <1>1, <1>2, <2>2, <2>3, <2>4, <2>5 DEF Entries, can_have_weak_refs
<1> QED BY <1>9, <1>15, <1>16

\* Lemma: when all entries have been swept, the conditions for the next
\* collection are there, and what is left is kept and refers to nothing else.
LEMMA SweptAll ==
  TypeOK /\ Entries /\ frames = << >> /\ SweepInv(NumObjects + 1)
    => BetweenInv /\ NoDangling /\ Ids \ free \subseteq Kept
<1> SUFFICES ASSUME TypeOK, Entries, frames = << >>, SweepInv(NumObjects + 1)
             PROVE  BetweenInv /\ NoDangling /\ Ids \ free \subseteq Kept
  OBVIOUS
<1>1. \A o \in Ids : o < NumObjects + 1
  BY TableAssumption DEF Ids
<1>2. \A o \in Ids : Survives(o, NumObjects + 1) <=> o \notin free
  BY <1>1 DEF Survives, free
<1>3. BetweenInv
  <2>1. Work = RootSet /\ Due = finalizable
    BY <1>1, IdsFacts DEF SweepInv, finalizable
  <2> QED BY <1>1, <2>1 DEF SweepInv, BetweenInv
<1>4. AtHand \intersect free = {}
  <2>1. \A o \in RootSet : o \notin free
    BY DEF Entries, free, Free
  <2>2. \A o \in stack : o \notin free
    BY <1>2 DEF SweepInv, TypeOK
  <2> QED BY <2>1, <2>2 DEF AtHand, Range
<1>5. \A o \in Ids \ free : ref[o] \notin free /\ weak[o] \notin free /\ o \in Kept
  <2> TAKE o \in Ids \ free
  <2>1. ref[o] \in Ids \union {Invalid} /\ weak[o] \in Ids \union {Invalid} /\ Invalid \notin free
    BY IdsFacts DEF TypeOK, free
  <2> QED BY <1>1, <1>2, <2>1 DEF SweepInv
<1> QED BY <1>3, <1>4, <1>5 DEF NoDangling

\* Lemma: the same of the next state.
LEMMA SweptAllNext ==
  (TypeOK /\ Entries /\ frames = << >> /\ SweepInv(NumObjects + 1))'
    => (BetweenInv /\ NoDangling /\ Ids \ free \subseteq Kept)'
<1> QED BY SweptAll, PTL

\* Lemma: the sweep keeps the invariant, and leaves only what is kept.
LEMMA SweepEntryInv ==
  ASSUME Inv, TypeOK', GcSweep
  PROVE  Inv' /\ (pc' = "finalize" => Ids \ free' \subseteq Kept')
<1>c. PICK c \in Ids : c = cursor
  BY DEF Inv, TypeOK
<1>1. TypeOK /\ Control /\ frames = << >> /\ frames' = << >>
  BY DEF GcSweep, Inv, Control
<1>2. /\ cursor' \in Ids /\ pc' \in {"sweep", "finalize"}
      /\ pc' = "sweep" => cursor' = c + 1
      /\ pc' = "finalize" => cursor' = 1 /\ c = NumObjects
  BY <1>c, <1>1, AdvanceType DEF GcSweep
<1>3. Lists' /\ Entries' /\ SweepInv(c + 1)'
  BY <1>c, SweepEntry
<1>4. Control'
  BY <1>1, <1>2 DEF Control
<1>5. CASE pc' = "sweep"
  <2>1. SweepInv(cursor)'
    BY <1>2, <1>3, <1>5 DEF SweepInv, Survives
  <2>2. NoDangling'
    <3>1. \A o \in RootSet : o \notin free'
      BY <1>3 DEF Entries, free, Free
    <3>2. \A o \in stack' : o \notin free'
      BY <1>3 DEF SweepInv, Survives, free
    <3> QED BY <1>1, <1>5, <3>1, <3>2 DEF NoDangling, AtHand, Range
  <2> QED BY <1>3, <1>4, <1>5, <2>1, <2>2 DEF Inv
<1>6. CASE pc' = "finalize"
  <2>1. SweepInv(NumObjects + 1)'
    BY <1>2, <1>3, <1>6
  <2>2. (BetweenInv /\ NoDangling /\ Ids \ free \subseteq Kept)'
    BY <1>1, <1>3, <2>1, SweptAllNext
  <2> QED BY <1>3, <1>4, <1>6, <2>2 DEF Inv
<1> QED BY <1>2, <1>5, <1>6

-----------------------------------------------------------------------------
\* Lemma: every step keeps the invariant, if finalizers do not collect garbage.
LEMMA NextInv ==
  ASSUME MaxNesting = 0, Inv, [Next]_vars
  PROVE  Inv'
<1>1. TypeOK'
  BY NextTypeOK DEF Inv
<1>2. ASSUME NEW k \in GameClasses, AllocObj(k) PROVE Inv'
  BY <1>1, <1>2, AllocInv
<1>3. ASSUME NEW o \in Ids, NEW target \in Ids \union {Invalid}, SetRef(o, target) PROVE Inv'
  BY <1>1, <1>3, SetRefInv
<1>4. ASSUME NEW o \in Ids, NEW target \in Ids, SetWeak(o, target) PROVE Inv'
  BY <1>1, <1>4, SetWeakInv
<1>5. CASE (\E target \in Ids : Push(target)) \/ (\E o \in stack : Pop(o))
  BY <1>1, <1>5, StackInv
<1>6. CASE GcStart
  BY <1>1, <1>6, StartInv
<1>7. CASE GcTrace
  BY <1>1, <1>7, TraceEntryInv
<1>8. CASE GcMark
  BY <1>1, <1>8, MarkNextInv
<1>9. CASE GcMarked
  BY <1>1, <1>9, MarkedInv
<1>10. CASE GcScan
  BY <1>1, <1>10, ScanEntryInv
<1>11. CASE GcSweep
  BY <1>1, <1>11, SweepEntryInv
<1>12. CASE Finalize
  BY <1>1, <1>12, FinalizeInv
<1>13. CASE FinalizerReturn \/ GcReturn
  BY <1>1, <1>13, ReturnInv
<1>14. CASE UNCHANGED vars
  <2>1. UNCHANGED <<kind, reachable, finalize_state, next_obj, first_free, gc_queue_head,
                    finalize_queue_head, ref, weak, stack, frames, pc, cursor, ran>>
    BY <1>14 DEF vars, marks, lists, game
  <2>2. Lists' /\ Work' = Work /\ Due' = Due /\ free' = free
    BY <2>1, ListsSame DEF lists, Inv
  <2>3. finalizable' = finalizable /\ AtHand' = AtHand
    BY <2>1 DEF finalizable, AtHand
  <2>4. Kept \subseteq Kept'
    BY <2>1, <2>3, KeptGrows
  <2>5. Entries' /\ Control' /\ NoDangling'
    BY <2>1, <2>2, <2>3 DEF Inv, Entries, Control, NoDangling, can_have_weak_refs
  <2>6. /\ BetweenInv => BetweenInv'
        /\ MarkInv => MarkInv'
    BY <2>1, <2>2, <2>3, <2>4 DEF BetweenInv, MarkInv, Marked, can_have_refs
  <2>7. /\ TraceInv(cursor) => TraceInv(cursor)'
        /\ TraceInv(NumObjects + 1) => TraceInv(NumObjects + 1)'
    BY <2>1, <2>3 DEF TraceInv
  <2>8. /\ ScanInv(cursor) => ScanInv(cursor)'
        /\ FMarkInv => FMarkInv'
    BY <2>1, <2>2, <2>3 DEF ScanInv, FMarkInv, Marked
  <2>9. SweepInv(cursor) => SweepInv(cursor)'
    BY <2>1, <2>2, <2>3, <2>4 DEF SweepInv, Survives, is_deletable, Marked
  <2> QED BY <1>1, <2>1, <2>2, <2>5, <2>6, <2>7, <2>8, <2>9 DEF Inv
<1> QED BY <1>2, <1>3, <1>4, <1>5, <1>6, <1>7, <1>8, <1>9, <1>10, <1>11, <1>12, <1>13, <1>14
        DEF Next, GcStep

\* Lemma: the invariant holds in every state.
LEMMA AlwaysInv ==
  ASSUME MaxNesting = 0
  PROVE  Spec => []Inv
<1>1. Inv /\ [Next]_vars => Inv'
  BY NextInv
<1> QED BY <1>1, InitInv, PTL DEF Spec

\* Theorem: the game never has its hands on a deleted object, and no object
\* that is left refers to one, whatever finalizers resurrected.
THEOREM NoDanglingHolds ==
  ASSUME MaxNesting = 0
  PROVE  Spec => []NoDangling
<1>1. Inv => NoDangling
  BY DEF Inv
<1> QED BY <1>1, AlwaysInv, PTL

\* Theorem: an object is only in one of the lists that share next_obj, they
\* end, and the free list has all the free entries.
THEOREM OneQueueHolds ==
  ASSUME MaxNesting = 0
  PROVE  Spec => []OneQueue
<1>1. Inv => OneQueue
  <2> SUFFICES ASSUME Inv PROVE OneQueue
    OBVIOUS
  <2>1. TypeOK /\ Lists /\ Entries /\ Control
    BY DEF Inv
  <2>2. Met(next_obj, first_free) = free /\ Ends(next_obj, first_free)
        /\ Ends(next_obj, gc_queue_head) /\ Ends(next_obj, finalize_queue_head)
    BY <2>1, ListedMet DEF Lists
  <2>3. Work \intersect free = {} /\ Work \intersect Due = {} /\ Due \intersect free = {}
    <3>1. CASE pc \in {"run", "finalize"}
      BY <2>1, <3>1 DEF Inv, BetweenInv, Entries, free, finalizable, Free
    <3>2. CASE pc \in {"trace", "mark", "scan", "fmark"}
      BY <2>1, <3>2 DEF Inv, MarkInv, Entries, Marked
    <3>3. CASE pc = "sweep"
      <4>1. Work \subseteq RootSet /\ Due \subseteq finalizable
        BY <3>3 DEF Inv, SweepInv
      <4> QED BY <2>1, <4>1 DEF Entries, free, finalizable, Free
    <3> QED BY <2>1, <3>1, <3>2, <3>3 DEF TypeOK
  <2> QED BY <2>2, <2>3 DEF OneQueue, Work, Due
<1> QED BY <1>1, AlwaysInv, PTL

\* Theorem: while the game runs, the image objects alone are marked and in the
\* work queue, and the other queue has the finalizers that are due.
THEOREM GcInitialConditionsHold ==
  ASSUME MaxNesting = 0
  PROVE  Spec => []GcInitialConditions
<1>1. Inv => GcInitialConditions
  BY DEF Inv, BetweenInv, GcInitialConditions, Work, Due, finalizable
<1> QED BY <1>1, AlwaysInv, PTL

\* Theorem: a collection leaves only what the game can reach, or a finalizer
\* that is due.
THEOREM GarbageCollectedHolds ==
  ASSUME MaxNesting = 0
  PROVE  Spec => GarbageCollected
<1>1. Inv /\ [Next]_vars =>
        [(pc = "sweep" /\ pc' = "finalize") =>
           Ids \ free' \subseteq
             Closure(AtHand \union {o \in Ids : finalize_state[o] = "finalizable"})']_vars
  <2> SUFFICES ASSUME Inv, [Next]_vars, pc = "sweep", pc' = "finalize"
               PROVE  Ids \ free' \subseteq Kept'
    BY DEF Kept, finalizable
  <2>1. GcSweep
    BY DEF Next, GcStep, AllocObj, SetRef, SetWeak, Push, Pop, GcStart, GcTrace, GcMark,
           GcMarked, GcScan, Finalize, GcReturn, FinalizerReturn, vars
  <2>2. TypeOK'
    BY NextTypeOK DEF Inv
  <2> QED BY <2>1, <2>2, SweepEntryInv
<1> QED BY <1>1, AlwaysInv, PTL DEF Spec, GarbageCollected

\* Lemma: what the game can reach is not made finalizable.
LEMMA ScanUnreached ==
  ASSUME Inv, GcScan, NEW o \in Ids,
         finalize_state[o] # "finalizable", finalize_state'[o] = "finalizable"
  PROVE  o \notin Closure(AtHand)
<1>1. pc = "scan" /\ ScanInv(cursor) /\ TypeOK /\ MarkInv /\ AtHand = RootSet \union stack
      /\ o = cursor
  <2>1. pc = "scan"
    BY DEF GcScan
  <2>2. TypeOK /\ MarkInv /\ AtHand = RootSet \union stack
    BY <2>1, MarkingFacts
  <2> QED BY <2>1, <2>2 DEF Inv, GcScan, TypeOK
<1>2. reachable[o] # Reachable
  BY <1>1 DEF GcScan, TypeOK
<1> DEFINE T == {x \in Ids : reachable[x] = Reachable}
<1>3. AtHand \subseteq T
  BY <1>1, IdsFacts DEF ScanInv, MarkInv, TypeOK
<1>4. \A x \in T : ref[x] # Invalid /\ x # Invalid => ref[x] \in T
  BY <1>1 DEF ScanInv, TypeOK
<1>5. o \notin T
  BY <1>2
<1> HIDE DEF T
<1> QED BY <1>3, <1>4, <1>5, ReachIn, ClosureReach

\* Theorem: no object is finalized twice, nor unless it was out of the game's
\* reach when it became finalizable.
THEOREM FinalizeOnceHolds ==
  ASSUME MaxNesting = 0
  PROVE  Spec => FinalizeOnce
<1>1. Inv /\ [Next]_vars =>
        [\A o \in Ids :
           /\ frames' = Append(frames, o) => o \notin ran
           /\ (finalize_state[o] # "finalizable" /\ finalize_state'[o] = "finalizable")
                => o \notin Closure(AtHand)]_vars
  <2> SUFFICES ASSUME Inv, Next, NEW o \in Ids
               PROVE  /\ frames' = Append(frames, o) => o \notin ran
                      /\ (finalize_state[o] # "finalizable" /\ finalize_state'[o] = "finalizable")
                            => o \notin Closure(AtHand)
    OBVIOUS
  <2>1. TypeOK /\ TypeOK' /\ Len(frames) \in Nat /\ Len(Append(frames, o)) = Len(frames) + 1
    BY NextTypeOK DEF Inv, TypeOK
  <2>2. ASSUME frames' = Append(frames, o) PROVE o \notin ran
    <3>1. Len(frames') = Len(frames) + 1
      BY <2>1, <2>2
    <3>2. frames' # frames
      BY <2>1, <3>1
    <3>3. Finalize \/ FinalizerReturn
      BY <3>2 DEF Next, GcStep, AllocObj, SetRef, SetWeak, Push, Pop, GcStart, GcTrace, GcMark,
                  TraceNext, GcMarked, GcScan, GcSweep, GcReturn, game
    <3>4. ~FinalizerReturn
      <4>1. FinalizerReturn => Len(frames') = Len(frames) - 1
        BY <2>1, FramesFacts DEF FinalizerReturn, TypeOK
      <4> QED BY <2>1, <3>1, <4>1
    <3>5. finalize_queue_head \notin ran /\ finalize_queue_head \in Ids
      BY <2>1, <3>3, <3>4, FinalizeInv DEF Finalize, TypeOK
    <3>6. o = finalize_queue_head
      <4>1. frames' = Append(frames, finalize_queue_head)
        BY <3>3, <3>4 DEF Finalize
      <4>2. \A x \in Ids : Append(frames, x)[Len(frames) + 1] = x
        BY <2>1 DEF TypeOK
      <4> QED BY <2>2, <3>5, <4>1, <4>2
    <3> QED BY <3>5, <3>6
  <2>3. ASSUME finalize_state[o] # "finalizable", finalize_state'[o] = "finalizable"
        PROVE  o \notin Closure(AtHand)
    <3>1. finalize_state' # finalize_state
      BY <2>3
    <3>2. GcScan \/ Finalize \/ \E k \in GameClasses : AllocObj(k)
      BY <3>1 DEF Next, GcStep, SetRef, SetWeak, Push, Pop, GcStart, GcTrace, GcMark,
                  TraceNext, GcMarked, GcSweep, FinalizerReturn, GcReturn, marks
    <3>3. ~Finalize /\ ~\E k \in GameClasses : AllocObj(k)
      BY <2>1, <2>3 DEF Finalize, AllocObj, TypeOK
    <3> QED BY <2>3, <3>2, <3>3, ScanUnreached
  <2> QED BY <2>2, <2>3
<1> QED BY <1>1, AlwaysInv, PTL DEF Spec, FinalizeOnce

=============================================================================
