---------------------------- MODULE ObjUndo_proof ----------------------------
(***************************************************************************)
(* Proofs about ObjUndo, for buffers of every size, any objects, values of *)
(* any sizes and any fuses, in games that do not change "Me".              *)
(***************************************************************************)
EXTENDS ObjUndo, FiniteSetTheorems, TLAPS

\* Induction over the natural numbers; it is used for no folds.
NoTurn(env, a, x) == a
NoClaim(env, i, a) == TRUE
Nats == INSTANCE Induction WITH Step <- NoTurn, Holds <- NoClaim

Records ==
  [cmd : {"ADD", "OVR", "CHG"}, obj : Objects, val : Vals \union {None}]
    \union [cmd : {"DELOBJ"}, obj : Dynamic, val : Vals \union {None}]
    \union [cmd : {"NEWOBJ"}, obj : Dynamic]
    \union [cmd : {"FUSE"}, slot : Slots, time : Times \union {None}]
    \union {Marker}

Cells == [rec : Records \union {Body.rec, Freed.rec}, prv : Offsets]

Context == [head : 0 .. BufSize, tail : Offsets, prv : Offsets, top : Offsets,
            buf : [Offsets -> Cells]]

\* The unit behind the record at i.
End(u, i) == i + WrittenSize(u.buf[i].rec)

\* c lists the records in the buffer, the oldest first; m of them were written
\* before the buffer wrapped, unless it has not wrapped.
Linked(u, c) ==
  /\ c \in Seq(Offsets) /\ Len(c) >= 1
  /\ u.tail = c[1] /\ u.prv = c[Len(c)]
  /\ \A k \in 1 .. Len(c) : u.buf[c[k]].rec \in Records
  /\ \A k \in 2 .. Len(c) : u.buf[c[k]].prv = c[k - 1]

Laid(u, c, m) ==
  /\ m \in 1 .. Len(c)
  /\ \A k \in 1 .. Len(c) - 1 : c[k + 1] = IF k = m THEN 0 ELSE End(u, c[k])
  /\ \A i, j \in 1 .. Len(c) : i < j /\ (j <= m \/ i > m) => End(u, c[i]) <= c[j]
  /\ \A j \in 1 .. Len(c) : j > m => End(u, c[j]) <= c[1]
  /\ End(u, c[m]) <= BufSize

\* The head, before and after the buffer wraps.
Plain(u, c, m)   == m = Len(c) /\ u.head = End(u, c[m]) /\ u.top >= c[m]
Wrapped(u, c, m) ==
  u.top = c[m] /\ u.head = IF m = Len(c) THEN 0 ELSE End(u, c[Len(c)])

UnitsOf(u, i) == i .. (End(u, i) - 1)
Filled(u, c) ==
  /\ \A k \in 1 .. Len(c) : \A i \in UnitsOf(u, c[k]) : i # c[k] => u.buf[i] = Body
  /\ \A i \in Offsets : u.buf[i] # Freed => \E k \in 1 .. Len(c) : i \in UnitsOf(u, c[k])

Tiled(u, c, m) == u \in Context /\ Linked(u, c) /\ Laid(u, c, m) /\ Filled(u, c)

-----------------------------------------------------------------------------
\* Records and their sizes.

\* Lemma: what the writers reserve and what is found agree, and fit the buffer.
LEMMA SizeFacts ==
  ASSUME NEW r \in Records
  PROVE  /\ WrittenSize(r) \in 1 .. BufSize
         /\ FoundSize(r) = WrittenSize(r)
         /\ r # Body.rec /\ r # Freed.rec
<1>1. /\ BufSize \in Nat /\ BufSize >= 4
      /\ \A v \in Vals : DataSize[v] \in Nat /\ 3 + DataSize[v] <= BufSize
  BY BufferAssumption
<1>2. \A v \in Vals \union {None} : DataOf(v) \in Nat /\ 3 + DataOf(v) <= BufSize
  BY <1>1 DEF DataOf
<1>3. r.cmd # "body" /\ r.cmd # "freed"
  BY DEF Records, Marker
<1>4. r # Body.rec /\ r # Freed.rec
  BY <1>3 DEF Body, Freed, Unit
<1>5. CASE r \in [cmd : {"ADD", "OVR", "CHG"}, obj : Objects, val : Vals \union {None}]
  <2>1. r.cmd \in {"ADD", "OVR", "CHG"} /\ r.val \in Vals \union {None}
    BY <1>5
  <2>2. CASE r.cmd = "CHG"
    BY <1>1, <1>2, <1>4, <2>1, <2>2 DEF WrittenSize, FoundSize, Header
  <2>3. CASE r.cmd \in {"ADD", "OVR"}
    BY <1>1, <1>4, <2>3 DEF WrittenSize, FoundSize, Header
  <2> QED BY <2>1, <2>2, <2>3
<1>6. CASE r \in [cmd : {"DELOBJ"}, obj : Dynamic, val : Vals \union {None}]
  <2>1. r.cmd = "DELOBJ" /\ r.val \in Vals \union {None}
    BY <1>6
  <2> QED BY <1>1, <1>2, <1>4, <2>1 DEF WrittenSize, FoundSize, Header
<1>7. CASE r \in [cmd : {"NEWOBJ"}, obj : Dynamic]
  BY <1>1, <1>4, <1>7 DEF WrittenSize, FoundSize, Header
<1>8. CASE r \in [cmd : {"FUSE"}, slot : Slots, time : Times \union {None}]
  BY <1>1, <1>4, <1>8 DEF WrittenSize, FoundSize, Header
<1>9. CASE r = Marker
  BY <1>1, <1>4, <1>9 DEF WrittenSize, FoundSize, Header, Marker
<1> QED BY <1>5, <1>6, <1>7, <1>8, <1>9 DEF Records

\* Lemma: where the records begin and end.
LEMMA EndFacts ==
  ASSUME NEW u, NEW c, Linked(u, c), NEW k \in 1 .. Len(c)
  PROVE  /\ c[k] \in Offsets /\ c[k] \in Nat /\ c[k] < BufSize
         /\ End(u, c[k]) \in Nat /\ End(u, c[k]) > c[k]
         /\ End(u, c[k]) = c[k] + FoundSize(u.buf[c[k]].rec)
         /\ c[k] \in UnitsOf(u, c[k])
<1>1. c[k] \in Offsets /\ u.buf[c[k]].rec \in Records
  BY DEF Linked
<1>2. PICK r \in Records : r = u.buf[c[k]].rec
  BY <1>1
<1>3. WrittenSize(r) \in 1 .. BufSize /\ FoundSize(r) = WrittenSize(r)
  BY SizeFacts
<1>4. c[k] \in Nat /\ c[k] < BufSize /\ BufSize \in Nat
  BY <1>1, BufferAssumption DEF Offsets
<1>5. PICK z \in 1 .. BufSize : z = WrittenSize(r)
  BY <1>3
<1>6. End(u, c[k]) = c[k] + z /\ FoundSize(u.buf[c[k]].rec) = z
  BY <1>2, <1>3, <1>5 DEF End
<1>7. PICK e : e = End(u, c[k])
  OBVIOUS
<1> QED BY <1>1, <1>4, <1>5, <1>6, <1>7 DEF UnitsOf

\* Lemma: no two records have a unit in common.
LEMMA UnitsApart ==
  ASSUME NEW u, NEW c, NEW m, Linked(u, c), Laid(u, c, m),
         NEW i \in 1 .. Len(c), NEW j \in 1 .. Len(c), i < j
  PROVE  /\ End(u, c[i]) <= c[j] \/ End(u, c[j]) <= c[i]
         /\ c[i] # c[j]
<1>1. /\ c[i] \in Nat /\ c[j] \in Nat /\ c[1] \in Nat
      /\ End(u, c[i]) \in Nat /\ End(u, c[j]) \in Nat /\ End(u, c[1]) \in Nat
      /\ End(u, c[i]) > c[i] /\ End(u, c[j]) > c[j] /\ End(u, c[1]) > c[1]
  <2>1. 1 \in 1 .. Len(c)
    OBVIOUS
  <2> QED BY <2>1, EndFacts
<1>2. CASE j <= m \/ i > m
  BY <1>1, <1>2 DEF Laid
<1>3. CASE ~(j <= m \/ i > m)
  <2>1. m \in 1 .. Len(c) /\ i <= m /\ j > m
    BY <1>3 DEF Laid
  <2>2. End(u, c[j]) <= c[1]
    BY <2>1 DEF Laid
  <2>3. c[1] <= c[i]
    <3>1. CASE i = 1
      BY <1>1, <3>1
    <3>2. CASE i > 1
      <4>1. 1 \in 1 .. Len(c)
        OBVIOUS
      <4>2. End(u, c[1]) <= c[i]
        BY <2>1, <3>2, <4>1 DEF Laid
      <4> QED BY <1>1, <4>2
    <3> QED BY <3>1, <3>2
  <2> QED BY <1>1, <2>2, <2>3
<1> QED BY <1>2, <1>3

\* Lemma: no record goes beyond the end of the buffer.
LEMMA EndLimit ==
  ASSUME NEW u, NEW c, NEW m, Linked(u, c), Laid(u, c, m), NEW k \in 1 .. Len(c)
  PROVE  End(u, c[k]) <= BufSize
<1>1. /\ m \in 1 .. Len(c) /\ 1 \in 1 .. Len(c)
      /\ c[k] \in Nat /\ c[m] \in Nat /\ c[m] < BufSize /\ c[1] \in Nat /\ c[1] < BufSize
      /\ End(u, c[k]) \in Nat
  <2>1. m \in 1 .. Len(c) /\ 1 \in 1 .. Len(c)
    BY DEF Laid
  <2> QED BY <2>1, EndFacts
<1>2. CASE k = m
  BY <1>2 DEF Laid
<1>3. CASE k < m
  <2>1. End(u, c[k]) <= c[m]
    BY <1>1, <1>3 DEF Laid
  <2> QED BY <1>1, <2>1, BufferAssumption
<1>4. CASE k > m
  <2>1. End(u, c[k]) <= c[1]
    BY <1>1, <1>4 DEF Laid
  <2> QED BY <1>1, <2>1, BufferAssumption
<1> QED BY <1>1, <1>2, <1>3, <1>4

-----------------------------------------------------------------------------
\* Dropping the oldest record.

\* Lemma: the fields after objutadv, unless it flushes the buffer.
LEMMA DropFields ==
  ASSUME NEW u \in Context, u.tail # u.prv, NEW next \in Offsets, NEW b,
         u.tail = u.top => next = 0 /\ b = BufSize,
         u.tail # u.top => next = u.tail + FoundSize(u.buf[u.tail].rec) /\ b = next
  PROVE  /\ objutadv(u) \in Context
         /\ objutadv(u).head = u.head /\ objutadv(u).prv = u.prv /\ objutadv(u).top = u.top
         /\ objutadv(u).tail = next
         /\ objutadv(u).buf = [i \in Offsets |-> IF i \in u.tail .. (b - 1) THEN Freed
                                                 ELSE u.buf[i]]
<1>1. PICK w : w = [i \in Offsets |-> IF i \in u.tail .. (b - 1) THEN Freed ELSE u.buf[i]]
  OBVIOUS
<1>2. Freed \in Cells
  BY BufferAssumption DEF Freed, Unit, Cells, Offsets
<1>3. w \in [Offsets -> Cells]
  BY <1>1, <1>2 DEF Context
<1>4. objutadv(u) = [[u EXCEPT !.buf = w] EXCEPT !.tail = next]
  <2>1. CASE u.tail = u.top
    <3>1. w = Release(u, u.tail, BufSize)
      BY <1>1, <2>1 DEF Release
    <3>2. objutadv(u) = [u EXCEPT !.buf = Release(u, u.tail, BufSize), !.tail = 0]
      BY <2>1 DEF objutadv
    <3> QED BY <2>1, <3>1, <3>2
  <2>2. CASE u.tail # u.top
    <3>1. w = Release(u, u.tail, next)
      BY <1>1, <2>2 DEF Release
    <3>2. objutadv(u) = [u EXCEPT !.buf = Release(u, u.tail, next), !.tail = next]
      BY <2>2 DEF objutadv
    <3> QED BY <3>1, <3>2
  <2> QED BY <2>1, <2>2
<1> QED BY <1>1, <1>3, <1>4 DEF Context

\* Lemma: what is left of the list of records.
LEMMA TailFacts ==
  ASSUME NEW S, NEW c \in Seq(S), Len(c) >= 1
  PROVE  /\ Tail(c) \in Seq(S) /\ Len(Tail(c)) = Len(c) - 1
         /\ \A k \in 1 .. Len(c) - 1 : Tail(c)[k] = c[k + 1]
  OBVIOUS

\* Where the list of records wraps once the oldest one is gone.
Next1(c, m) == IF m = 1 THEN Len(c) - 1 ELSE m - 1

\* v keeps every record of u but the oldest.
RestKept(v, u, c) == \A k \in 2 .. Len(c) : v.buf[c[k]] = u.buf[c[k]]

\* Lemma: in a buffer that has wrapped, the rest stays tiled.
LEMMA DropTiled ==
  ASSUME NEW u, NEW c, NEW m, Tiled(u, c, m), Wrapped(u, c, m), Len(c) >= 2
  PROVE  /\ Tiled(objutadv(u), Tail(c), Next1(c, m))
         /\ m = 1 => Plain(objutadv(u), Tail(c), Next1(c, m))
         /\ m # 1 => Wrapped(objutadv(u), Tail(c), Next1(c, m))
         /\ objutadv(u).head = u.head
         /\ RestKept(objutadv(u), u, c)
<1>1. PICK n : n = Len(c)
  OBVIOUS
<1>2. /\ u \in Context /\ Linked(u, c) /\ Laid(u, c, m) /\ Filled(u, c)
      /\ n \in Nat /\ n >= 2 /\ m \in 1 .. n /\ c \in Seq(Offsets)
      /\ u.tail = c[1] /\ u.prv = c[n]
  <2>1. u \in Context /\ Linked(u, c) /\ Laid(u, c, m) /\ Filled(u, c)
    BY DEF Tiled
  <2>2. c \in Seq(Offsets) /\ u.tail = c[1] /\ u.prv = c[n]
    BY <1>1, <2>1 DEF Linked
  <2>3. n \in Nat /\ n >= 2
    BY <1>1, <2>2
  <2>4. m \in 1 .. n
    BY <1>1, <2>1 DEF Laid
  <2> QED BY <2>1, <2>2, <2>3, <2>4
<1>3. /\ \A k \in 1 .. n : /\ c[k] \in Offsets /\ c[k] \in Nat /\ c[k] < BufSize
                           /\ End(u, c[k]) \in Nat /\ End(u, c[k]) > c[k]
                           /\ End(u, c[k]) = c[k] + FoundSize(u.buf[c[k]].rec)
      /\ \A i, j \in 1 .. n : i < j => c[i] # c[j]
  <2>1. \A k \in 1 .. n : /\ c[k] \in Offsets /\ c[k] \in Nat /\ c[k] < BufSize
                           /\ End(u, c[k]) \in Nat /\ End(u, c[k]) > c[k]
                           /\ End(u, c[k]) = c[k] + FoundSize(u.buf[c[k]].rec)
    BY <1>1, <1>2, EndFacts
  <2>2. \A i, j \in 1 .. n : i < j => c[i] # c[j]
    BY <1>1, <1>2, UnitsApart
  <2> QED BY <2>1, <2>2
<1>4. u.tail # u.prv
  <2>1. 1 \in 1 .. n /\ n \in 1 .. n /\ 1 < n
    BY <1>2
  <2> QED BY <1>2, <1>3, <2>1
<1>5. u.tail = u.top <=> m = 1
  <2>1. u.top = c[m]
    BY DEF Wrapped
  <2>2. 1 \in 1 .. n
    BY <1>2
  <2>3. m # 1 => c[1] # c[m]
    BY <1>2, <1>3, <2>2
  <2> QED BY <1>2, <2>1, <2>3
<1>6. /\ m = 1 => c[2] = 0
      /\ m # 1 => c[2] = End(u, c[1])
      /\ 1 \in 1 .. n /\ 2 \in 1 .. n
  <2>1. 1 \in 1 .. Len(c) - 1 /\ 1 + 1 = 2
    BY <1>1, <1>2
  <2>2. c[2] = IF 1 = m THEN 0 ELSE End(u, c[1])
    BY <1>2, <2>1 DEF Laid
  <2> QED BY <1>2, <2>2
<1>7. PICK b : b = IF m = 1 THEN BufSize ELSE c[2]
  OBVIOUS
<1>8. /\ b \in Nat /\ End(u, c[1]) <= b
      /\ m = 1 => End(u, c[1]) <= BufSize
  <2>1. m = 1 => End(u, c[1]) <= BufSize
    BY <1>2 DEF Laid
  <2> QED BY <1>3, <1>6, <1>7, <2>1, BufferAssumption
<1>9. PICK v : v = objutadv(u)
  OBVIOUS
<1>10. /\ v \in Context /\ v.head = u.head /\ v.prv = u.prv /\ v.top = u.top /\ v.tail = c[2]
       /\ v.buf = [i \in Offsets |-> IF i \in c[1] .. (b - 1) THEN Freed ELSE u.buf[i]]
  <2>1. c[2] \in Offsets
    BY <1>3, <1>6
  <2>2. /\ u.tail = u.top => c[2] = 0 /\ b = BufSize
        /\ u.tail # u.top => c[2] = u.tail + FoundSize(u.buf[u.tail].rec) /\ b = c[2]
    BY <1>2, <1>3, <1>5, <1>6, <1>7
  <2> QED BY <1>2, <1>4, <1>9, <2>1, <2>2, DropFields
<1>11. ASSUME NEW k \in 2 .. n, NEW i \in UnitsOf(u, c[k]), i \in Offsets
       PROVE  v.buf[i] = u.buf[i]
  <2>1. k \in 1 .. n /\ i >= c[k] /\ i < End(u, c[k]) /\ i \in Int
    BY <1>2, <1>3, <1>11 DEF UnitsOf
  <2>2. CASE k <= m
    <3>1. End(u, c[1]) <= c[k] /\ b = c[2]
      BY <1>1, <1>2, <1>6, <1>7, <2>1, <2>2 DEF Laid
    <3>2. b <= c[k]
      BY <1>2, <1>6, <2>2, <3>1
    <3> QED BY <1>3, <1>8, <1>10, <1>11, <2>1, <3>2
  <2>3. CASE k > m
    <3>1. End(u, c[k]) <= c[1]
      BY <1>1, <1>2, <2>1, <2>3 DEF Laid
    <3>2. ~(i \in c[1] .. (b - 1))
      BY <1>3, <1>6, <2>1, <3>1
    <3> QED BY <1>10, <1>11, <3>2
  <2> QED BY <1>2, <2>1, <2>2, <2>3
<1>12. ASSUME NEW k \in 2 .. n
       PROVE  v.buf[c[k]] = u.buf[c[k]] /\ End(v, c[k]) = End(u, c[k])
  <2>1. k \in 1 .. n
    BY <1>2
  <2>2. c[k] \in UnitsOf(u, c[k])
    BY <1>1, <1>2, <2>1, EndFacts
  <2>3. v.buf[c[k]] = u.buf[c[k]]
    BY <1>3, <1>11, <2>1, <2>2
  <2> QED BY <2>3 DEF End
<1>13. PICK e : e = Tail(c)
  OBVIOUS
<1>14. /\ e \in Seq(Offsets) /\ Len(e) = n - 1
       /\ \A k \in 1 .. n - 1 : e[k] = c[k + 1]
  BY <1>1, <1>2, <1>13, TailFacts
<1>15. ASSUME NEW k \in 1 .. n - 1
       PROVE  /\ v.buf[e[k]] = u.buf[c[k + 1]] /\ End(v, e[k]) = End(u, c[k + 1])
              /\ k + 1 \in 1 .. n /\ k + 1 \in 2 .. n /\ e[k] = c[k + 1]
  <2>1. k + 1 \in 1 .. n /\ k + 1 \in 2 .. n
    BY <1>2
  <2> QED BY <1>12, <1>14, <2>1
<1>16. Linked(v, e)
  <2>1. v.tail = e[1] /\ v.prv = e[Len(e)]
    <3>1. 1 \in 1 .. n - 1 /\ n - 1 \in 1 .. n - 1 /\ (n - 1) + 1 = n /\ 1 + 1 = 2
      BY <1>2
    <3> QED BY <1>2, <1>10, <1>14, <3>1
  <2>2. \A k \in 1 .. n - 1 : v.buf[e[k]].rec \in Records
    BY <1>1, <1>2, <1>15 DEF Linked
  <2>3. ASSUME NEW k \in 2 .. n - 1 PROVE v.buf[e[k]].prv = e[k - 1]
    <3>1. k \in 1 .. n - 1 /\ k - 1 \in 1 .. n - 1 /\ (k - 1) + 1 = k /\ k + 1 \in 2 .. n
          /\ (k + 1) - 1 = k
      BY <1>2
    <3>2. u.buf[c[k + 1]].prv = c[(k + 1) - 1]
      BY <1>1, <1>2, <3>1 DEF Linked
    <3> QED BY <1>14, <1>15, <3>1, <3>2
  <2> QED BY <1>2, <1>14, <2>1, <2>2, <2>3 DEF Linked
<1>17. PICK l : l = Next1(c, m)
  OBVIOUS
<1>18. l \in 1 .. n - 1 /\ (m = 1 => l = n - 1) /\ (m # 1 => l = m - 1)
  BY <1>1, <1>2, <1>17 DEF Next1
<1>19. Laid(v, e, l)
  <2>1. ASSUME NEW k \in 1 .. (n - 1) - 1
        PROVE  e[k + 1] = IF k = l THEN 0 ELSE End(v, e[k])
    <3>1. /\ k \in 1 .. n - 1 /\ k + 1 \in 1 .. n - 1 /\ k + 1 \in 1 .. n - 1
          /\ (k = l <=> k + 1 = m)
      BY <1>2, <1>18
    <3>2. c[(k + 1) + 1] = IF k + 1 = m THEN 0 ELSE End(u, c[k + 1])
      BY <1>1, <1>2, <3>1 DEF Laid
    <3> QED BY <1>14, <1>15, <3>1, <3>2
  <2>2. ASSUME NEW i \in 1 .. n - 1, NEW j \in 1 .. n - 1, i < j, j <= l \/ i > l
        PROVE  End(v, e[i]) <= e[j]
    <3>1. /\ i + 1 \in 1 .. n /\ j + 1 \in 1 .. n /\ i + 1 < j + 1
          /\ j + 1 <= m \/ i + 1 > m
      BY <1>2, <1>18, <2>2
    <3>2. End(u, c[i + 1]) <= c[j + 1]
      BY <1>1, <1>2, <3>1 DEF Laid
    <3> QED BY <1>15, <3>2
  <2>3. ASSUME NEW j \in 1 .. n - 1, j > l PROVE End(v, e[j]) <= e[1]
    <3>1. j + 1 \in 1 .. n /\ j + 1 > m /\ m # 1
      BY <1>2, <1>18, <2>3
    <3>2. End(u, c[j + 1]) <= c[1]
      BY <1>1, <1>2, <3>1 DEF Laid
    <3>3. e[1] = c[2] /\ c[1] <= c[2]
      BY <1>2, <1>3, <1>6, <1>14, <3>1, SMTT(20)
    <3>4. c[1] \in Nat /\ c[2] \in Nat /\ End(u, c[j + 1]) \in Nat
      BY <1>3, <1>6, <3>1
    <3> QED BY <1>15, <3>2, <3>3, <3>4
  <2>4. End(v, e[l]) <= BufSize
    <3>1. CASE m = 1
      <4>1. n > m /\ End(u, c[n]) <= c[1]
        BY <1>1, <1>2, <3>1 DEF Laid
      <4>2. End(v, e[l]) = End(u, c[n])
        <5>1. l = n - 1 /\ n - 1 \in 1 .. n - 1 /\ (n - 1) + 1 = n
          BY <1>2, <1>18, <3>1
        <5>2. End(v, e[n - 1]) = End(u, c[(n - 1) + 1])
          BY <1>15, <5>1
        <5> QED BY <5>1, <5>2
      <4> QED BY <1>2, <1>3, <1>6, <4>1, <4>2, BufferAssumption
    <3>2. CASE m # 1
      <4>1. End(v, e[l]) = End(u, c[m])
        BY <1>2, <1>15, <1>18, <3>2
      <4> QED BY <1>2, <4>1 DEF Laid
    <3> QED BY <3>1, <3>2
  <2> QED BY <1>14, <1>18, <2>1, <2>2, <2>3, <2>4 DEF Laid
<1>20. Filled(v, e)
  <2>1. ASSUME NEW k \in 1 .. n - 1, NEW i \in UnitsOf(v, e[k]), i # e[k]
        PROVE  v.buf[i] = Body
    <3>1. i \in UnitsOf(u, c[k + 1]) /\ i # c[k + 1] /\ k + 1 \in 1 .. n /\ k + 1 \in 2 .. n
      BY <1>15, <2>1 DEF UnitsOf
    <3>2. u.buf[i] = Body
      BY <1>1, <1>2, <3>1 DEF Filled
    <3>3. End(u, c[k + 1]) <= BufSize
      BY <1>1, <1>2, <3>1, EndLimit
    <3>4. i \in Offsets
      BY <1>3, <3>1, <3>3, BufferAssumption DEF UnitsOf, Offsets
    <3> QED BY <1>11, <3>1, <3>2, <3>4
  <2>2. ASSUME NEW i \in Offsets, v.buf[i] # Freed
        PROVE  \E k \in 1 .. n - 1 : i \in UnitsOf(v, e[k])
    <3>1. ~(i \in c[1] .. (b - 1)) /\ v.buf[i] = u.buf[i]
      BY <1>10, <2>2
    <3>2. PICK k \in 1 .. n : i \in UnitsOf(u, c[k])
      BY <1>1, <1>2, <2>2, <3>1 DEF Filled
    <3>3. k # 1
      <4> SUFFICES ASSUME k = 1 PROVE FALSE
        OBVIOUS
      <4>1. i \in c[1] .. (End(u, c[1]) - 1)
        BY <3>2 DEF UnitsOf
      <4> QED BY <1>3, <1>6, <1>8, <3>1, <4>1
    <3>4. k - 1 \in 1 .. n - 1 /\ (k - 1) + 1 = k
      BY <1>2, <3>3
    <3>5. UnitsOf(v, e[k - 1]) = UnitsOf(u, c[k])
      BY <1>15, <3>4 DEF UnitsOf
    <3> QED BY <3>2, <3>4, <3>5
  <2> QED BY <1>14, <2>1, <2>2 DEF Filled
<1>21. Tiled(v, e, l)
  BY <1>10, <1>16, <1>19, <1>20 DEF Tiled
<1>22. v.top = c[m] /\ v.head = IF m = n THEN 0 ELSE End(u, c[n])
  BY <1>1, <1>10 DEF Wrapped
<1>23. RestKept(v, u, c)
  BY <1>1, <1>12 DEF RestKept
<1>24. CASE m = 1
  <2>1. l = n - 1 /\ n > m /\ e[l] = c[n] /\ End(v, e[l]) = End(u, c[n])
    BY <1>2, <1>15, <1>18, <1>24
  <2>2. End(u, c[n]) <= c[1]
    BY <1>1, <1>2, <2>1 DEF Laid
  <2>3. v.top >= e[l]
    <3>1. c[n] \in Nat /\ End(u, c[n]) \in Nat /\ End(u, c[n]) > c[n] /\ c[1] \in Nat
      BY <1>2, <1>3, <1>6
    <3> QED BY <1>22, <1>24, <2>1, <2>2, <3>1
  <2>4. Plain(v, e, l)
    BY <1>14, <1>22, <1>24, <2>1, <2>3 DEF Plain
  <2> QED BY <1>9, <1>10, <1>13, <1>17, <1>21, <1>23, <1>24, <2>4, <1>1
<1>25. CASE m # 1
  <2>1. l = m - 1 /\ e[l] = c[m] /\ e[n - 1] = c[n] /\ End(v, e[n - 1]) = End(u, c[n])
        /\ (l = n - 1 <=> m = n)
    BY <1>2, <1>15, <1>18, <1>25
  <2>2. Wrapped(v, e, l)
    BY <1>14, <1>22, <2>1 DEF Wrapped
  <2> QED BY <1>9, <1>10, <1>13, <1>17, <1>21, <1>23, <1>25, <2>2, <1>1
<1> QED BY <1>24, <1>25

-----------------------------------------------------------------------------
\* The loop that makes room.

\* Lemma: there are no more records than units, so that the loops that walk
\* through them come to an end.
LEMMA FewRecords ==
  ASSUME NEW u, NEW c, NEW m, Linked(u, c), Laid(u, c, m)
  PROVE  Len(c) <= BufSize
<1>1. c \in Seq(Offsets) /\ Len(c) \in Nat /\ BufSize \in Nat
  BY BufferAssumption DEF Linked
<1>2. c \in [1 .. Len(c) -> Offsets]
  BY <1>1
<1>3. /\ IsFiniteSet(1 .. Len(c)) /\ Cardinality(1 .. Len(c)) = Len(c)
      /\ IsFiniteSet(Offsets) /\ Cardinality(Offsets) = BufSize
  <2>1. IsFiniteSet(1 .. Len(c)) /\ Cardinality(1 .. Len(c)) = Len(c)
    <3>1. 1 \in Int /\ Len(c) \in Int
      BY <1>1
    <3>2. /\ IsFiniteSet(1 .. Len(c))
          /\ Cardinality(1 .. Len(c)) = IF 1 > Len(c) THEN 0 ELSE Len(c) - 1 + 1
      BY <3>1, FS_Interval
    <3> QED BY <1>1, <3>2
  <2>2. IsFiniteSet(Offsets) /\ Cardinality(Offsets) = BufSize
    <3>1. 0 \in Int /\ BufSize - 1 \in Int
      BY <1>1
    <3>2. /\ IsFiniteSet(0 .. (BufSize - 1))
          /\ Cardinality(0 .. (BufSize - 1)) =
               IF 0 > BufSize - 1 THEN 0 ELSE (BufSize - 1) - 0 + 1
      BY <3>1, FS_Interval
    <3> QED BY <1>1, <3>2 DEF Offsets
  <2> QED BY <2>1, <2>2
<1>4. SUFFICES ASSUME BufSize < Len(c) PROVE FALSE
  BY <1>1
<1>5. PICK i \in 1 .. Len(c), j \in 1 .. Len(c) : i # j /\ c[i] = c[j]
  BY <1>2, <1>3, <1>4, FS_PigeonHole
<1>6. CASE i < j
  BY <1>5, <1>6, UnitsApart
<1>7. CASE j < i
  BY <1>5, <1>7, UnitsApart
<1> QED BY <1>5, <1>6, <1>7

\* There is room for a record of this size behind the head.
Room(u, c, m, size) ==
  \/ Plain(u, c, m) /\ BufSize - u.head >= size
  \/ Wrapped(u, c, m) /\ u.tail - u.head >= size

\* The state of the loop, with the records c.
Going(a, c, size) ==
  \E m \in 1 .. Len(c) :
    /\ Tiled(a.undo, c, m)
    /\ IF a.done THEN Room(a.undo, c, m, size) ELSE Wrapped(a.undo, c, m)

\* Lemma: the fields after wrap.
LEMMA WrapFields ==
  ASSUME NEW u \in Context
  PROVE  /\ wrap(u) \in Context /\ wrap(u).head = 0 /\ wrap(u).top = u.prv
         /\ wrap(u).tail = u.tail /\ wrap(u).prv = u.prv /\ wrap(u).buf = u.buf
<1>1. wrap(u) = [[u EXCEPT !.top = u.prv] EXCEPT !.head = 0]
  BY DEF wrap
<1>2. 0 \in 0 .. BufSize
  BY BufferAssumption
<1> QED BY <1>1, <1>2 DEF Context

\* Lemma: wrapping moves no record.
LEMMA WrapTiled ==
  ASSUME NEW u, NEW c, NEW m, Tiled(u, c, m), Plain(u, c, m)
  PROVE  /\ Tiled(wrap(u), c, m) /\ Wrapped(wrap(u), c, m)
         /\ wrap(u).buf = u.buf /\ wrap(u).tail = u.tail
<1>1. u \in Context /\ Linked(u, c) /\ Laid(u, c, m) /\ Filled(u, c)
  BY DEF Tiled
<1>2. PICK v : v = wrap(u)
  OBVIOUS
<1>3. /\ v \in Context /\ v.head = 0 /\ v.top = u.prv
      /\ v.tail = u.tail /\ v.prv = u.prv /\ v.buf = u.buf
  BY <1>1, <1>2, WrapFields
<1>4. \A i : End(v, i) = End(u, i)
  BY <1>3 DEF End
<1>5. Linked(v, c)
  BY <1>1, <1>3 DEF Linked
<1>6. Laid(v, c, m)
  BY <1>1, <1>4 DEF Laid
<1>7. Filled(v, c)
  BY <1>1, <1>3, <1>4 DEF Filled, UnitsOf
<1>8. Wrapped(v, c, m)
  BY <1>1, <1>3 DEF Wrapped, Plain, Linked
<1> QED BY <1>2, <1>3, <1>5, <1>6, <1>7, <1>8 DEF Tiled

\* Lemma: the fields of an empty buffer.
LEMMA NoUndoFacts ==
  /\ NoUndo \in Context /\ NoUndo.head = 0 /\ NoUndo.tail = 0 /\ NoUndo.prv = 0 /\ NoUndo.top = 0
  /\ \A i \in Offsets : NoUndo.buf[i] = Freed
<1>1. 0 \in Offsets /\ 0 \in 0 .. BufSize
  BY BufferAssumption DEF Offsets
<1>2. Freed \in Cells
  BY <1>1 DEF Freed, Unit, Cells
<1> QED BY <1>1, <1>2 DEF NoUndo, Context

\* Lemma: one turn drops the oldest record, the last of which flushes all.
LEMMA AdvanceTiled ==
  ASSUME NEW u, NEW c, NEW m, Tiled(u, c, m), Wrapped(u, c, m), NEW size \in 1 .. BufSize
  PROVE  LET a == Advance(u, size)
         IN  \/ Len(c) = 1 /\ a.done /\ a.undo = NoUndo
             \/ /\ Len(c) >= 2 /\ a.done \in BOOLEAN /\ Going(a, Tail(c), size)
                /\ \A k \in 2 .. Len(c) : a.undo.buf[c[k]] = u.buf[c[k]]
<1>1. PICK a : a = Advance(u, size)
  OBVIOUS
<1>2. PICK v : v = objutadv(u)
  OBVIOUS
<1>3. a = IF v.tail > v.head THEN [undo |-> v, done |-> v.tail - v.head >= size]
          ELSE [undo |-> IF BufSize - v.head >= size THEN v ELSE wrap(v),
                done |-> BufSize - v.head >= size]
  BY <1>1, <1>2 DEF Advance
<1>4. /\ u \in Context /\ Linked(u, c) /\ Laid(u, c, m) /\ Len(c) \in Nat
      /\ c \in Seq(Offsets) /\ u.tail = c[1] /\ u.prv = c[Len(c)] /\ Len(c) >= 1
      /\ m \in 1 .. Len(c) /\ 1 \in 1 .. Len(c)
  <2>1. u \in Context /\ Linked(u, c) /\ Laid(u, c, m)
    BY DEF Tiled
  <2>2. c \in Seq(Offsets) /\ u.tail = c[1] /\ u.prv = c[Len(c)] /\ Len(c) >= 1
    BY <2>1 DEF Linked
  <2>3. Len(c) \in Nat /\ 1 \in 1 .. Len(c)
    BY <2>2
  <2> QED BY <2>1, <2>2, <2>3 DEF Laid
<1>5. CASE Len(c) = 1
  <2>1. v = NoUndo
    BY <1>2, <1>4, <1>5 DEF objutadv
  <2>2. v.tail = 0 /\ v.head = 0 /\ BufSize - v.head >= size
    BY <2>1, NoUndoFacts, BufferAssumption
  <2>3. ~(v.tail > v.head)
    BY <2>2
  <2>4. a = [undo |-> NoUndo, done |-> BufSize - v.head >= size]
    BY <1>3, <2>1, <2>2, <2>3
  <2>5. a.done /\ a.undo = NoUndo
    BY <2>2, <2>4
  <2> QED BY <1>1, <1>5, <2>5
<1>6. CASE Len(c) >= 2
  <2>1. Len(c) >= 2
    BY <1>6
  <2>2. PICK n : n = Next1(c, m)
    OBVIOUS
  <2>3. PICK e : e = Tail(c)
    OBVIOUS
  <2>4. /\ Tiled(v, e, n)
        /\ m = 1 => Plain(v, e, n)
        /\ m # 1 => Wrapped(v, e, n)
        /\ v.head = u.head
        /\ \A k \in 2 .. Len(c) : v.buf[c[k]] = u.buf[c[k]]
    <3>1. /\ Tiled(objutadv(u), Tail(c), Next1(c, m))
          /\ m = 1 => Plain(objutadv(u), Tail(c), Next1(c, m))
          /\ m # 1 => Wrapped(objutadv(u), Tail(c), Next1(c, m))
          /\ objutadv(u).head = u.head
          /\ \A k \in 2 .. Len(c) : objutadv(u).buf[c[k]] = u.buf[c[k]]
      <4>1. Tiled(u, c, m) /\ Wrapped(u, c, m) /\ Len(c) >= 2
        BY <2>1
      <4>2. Tiled(objutadv(u), Tail(c), Next1(c, m)) /\ objutadv(u).head = u.head
        BY <4>1, DropTiled
      <4>3. m = 1 => Plain(objutadv(u), Tail(c), Next1(c, m))
        BY <4>1, DropTiled
      <4>4. m # 1 => Wrapped(objutadv(u), Tail(c), Next1(c, m))
        BY <4>1, DropTiled
      <4>5. RestKept(objutadv(u), u, c)
        BY <4>1, DropTiled
      <4> QED BY <4>2, <4>3, <4>4, <4>5 DEF RestKept
    <3> QED BY <1>2, <2>2, <2>3, <3>1
  <2>5. v \in Context /\ n \in 1 .. Len(e)
    BY <2>4 DEF Tiled, Laid
  <2>6. v.tail = c[2] /\ 2 \in 1 .. Len(c)
    <3>1. v.tail = e[1] /\ e[1] = c[1 + 1]
      BY <1>4, <2>1, <2>3, <2>4, TailFacts DEF Tiled, Linked
    <3> QED BY <1>4, <2>1, <3>1
  <2>7. /\ c[1] \in Nat /\ c[2] \in Nat /\ End(u, c[1]) \in Nat /\ End(u, c[1]) > c[1]
        /\ u.head \in Nat /\ v.head \in Nat /\ size \in Nat /\ BufSize \in Nat
    <3>1. c[1] \in Nat /\ c[2] \in Nat /\ End(u, c[1]) \in Nat /\ End(u, c[1]) > c[1]
      BY <1>4, <2>6, EndFacts
    <3>2. u.head \in Nat
      BY <1>4, BufferAssumption DEF Context
    <3> QED BY <2>4, <3>1, <3>2, BufferAssumption
  <2>8. c[2] = IF m = 1 THEN 0 ELSE End(u, c[1])
    <3>1. 1 \in 1 .. Len(c) - 1
      BY <1>4, <2>1
    <3>2. c[1 + 1] = IF 1 = m THEN 0 ELSE End(u, c[1])
      BY <1>4, <3>1 DEF Laid
    <3> QED BY <3>2
  <2>9. CASE m # 1
    <3>1. u.head <= c[1]
      <4>1. CASE m = Len(c)
        BY <2>7, <4>1 DEF Wrapped
      <4>2. CASE m # Len(c)
        <5>1. u.head = End(u, c[Len(c)]) /\ Len(c) > m /\ Len(c) \in 1 .. Len(c)
          BY <1>4, <4>2 DEF Wrapped
        <5> QED BY <1>4, <5>1 DEF Laid
      <4> QED BY <4>1, <4>2
    <3>2. v.tail > v.head
      BY <2>4, <2>6, <2>7, <2>8, <2>9, <3>1
    <3>3. PICK b : b = (v.tail - v.head >= size)
      OBVIOUS
    <3>4. a.undo = v /\ a.done = b /\ b \in BOOLEAN
      BY <1>3, <3>2, <3>3
    <3>5. IF b THEN Room(v, e, n, size) ELSE Wrapped(v, e, n)
      BY <2>4, <2>9, <3>3 DEF Room
    <3>6. Going(a, e, size)
      BY <2>4, <2>5, <3>4, <3>5 DEF Going
    <3> QED BY <1>1, <2>1, <2>3, <2>4, <3>4, <3>6
  <2>10. CASE m = 1
    <3>1. ~(v.tail > v.head)
      BY <2>6, <2>7, <2>8, <2>10
    <3>2. PICK b : b = (BufSize - v.head >= size)
      OBVIOUS
    <3>3. a.undo = (IF b THEN v ELSE wrap(v)) /\ a.done = b /\ b \in BOOLEAN
      <4>1. a = [undo |-> IF b THEN v ELSE wrap(v), done |-> b]
        BY <1>3, <3>1, <3>2
      <4>2. b \in BOOLEAN
        BY <3>2
      <4> HIDE <3>2
      <4> QED BY <4>1, <4>2
    <3>4. CASE b
      <4>1. Room(v, e, n, size)
        BY <2>4, <2>10, <3>2, <3>4 DEF Room
      <4>2. Going(a, e, size)
        BY <2>4, <2>5, <3>3, <3>4, <4>1 DEF Going
      <4> QED BY <1>1, <2>1, <2>3, <2>4, <3>3, <3>4, <4>2
    <3>5. CASE ~b
      <4>1. Tiled(wrap(v), e, n) /\ Wrapped(wrap(v), e, n) /\ wrap(v).buf = v.buf
        BY <2>4, <2>10, WrapTiled
      <4>2. Going(a, e, size)
        BY <2>5, <3>3, <3>5, <4>1 DEF Going
      <4> QED BY <1>1, <2>1, <2>3, <2>4, <3>3, <3>5, <4>1, <4>2
    <3> QED BY <3>3, <3>4, <3>5
  <2> QED BY <2>9, <2>10
<1>7. Len(c) = 1 \/ Len(c) >= 2
  <2>1. PICK n : n = Len(c)
    OBVIOUS
  <2>2. n \in Nat /\ n >= 1
    BY <1>4, <2>1
  <2>3. n = 1 \/ n >= 2
    BY <2>2
  <2> QED BY <2>1, <2>3
<1> QED BY <1>5, <1>6, <1>7
\* Lemma: what DropUntil computes, turn by turn.
LEMMA DropUntilDef ==
  ASSUME NEW u, NEW size
  PROVE  \E w : /\ w[0] = [undo |-> u, done |-> u.tail - u.head >= size]
                /\ \A n \in 1 .. BufSize :
                     w[n] = IF w[n - 1].done THEN w[n - 1] ELSE Advance(w[n - 1].undo, size)
                /\ DropUntil(u, size) = w[BufSize].undo
<1> DEFINE Step(w, n) == IF n = 0 THEN [undo |-> u, done |-> u.tail - u.head >= size]
                         ELSE LET last == w[n - 1]
                              IN  IF last.done THEN last ELSE Advance(last.undo, size)
           Is(w, m) == w = [n \in 0 .. m |-> Step(w, n)]
           G == {m \in Nat : \E w : Is(w, m)}
           F == CHOOSE w : Is(w, BufSize)
<1>1. 0 \in G
  <2>1. Is([n \in 0 .. 0 |-> [undo |-> u, done |-> u.tail - u.head >= size]], 0)
    OBVIOUS
  <2> QED BY <2>1
<1>2. ASSUME NEW m \in Nat, NEW w, Is(w, m) PROVE \E v : Is(v, m + 1)
  <2> DEFINE v == [n \in 0 .. (m + 1) |-> IF n = m + 1 THEN Step(w, n) ELSE w[n]]
  <2> HIDE DEF Step
  <2>1. \A n \in 0 .. m : w[n] = Step(w, n) /\ v[n] = w[n]
    <3>1. \A n \in 0 .. m : n \in 0 .. (m + 1) /\ n # m + 1
      OBVIOUS
    <3>2. \A n \in 0 .. m : v[n] = w[n]
      BY <3>1
    <3>3. w = [n \in 0 .. m |-> Step(w, n)]
      BY <1>2
    <3> HIDE DEF v
    <3>4. \A n \in 0 .. m : w[n] = Step(w, n)
      BY <3>3, Zenon
    <3> QED BY <3>2, <3>4
  <2>2. v[m + 1] = Step(w, m + 1) /\ v[m] = w[m]
    OBVIOUS
  <2>3. v = [n \in 0 .. (m + 1) |-> v[n]]
    OBVIOUS
  <2> HIDE DEF v
  <2>4. ASSUME NEW n \in 0 .. (m + 1) PROVE v[n] = Step(v, n)
    <3>1. CASE n = m + 1
      <4>1. v[n - 1] = w[n - 1] /\ n # 0
        BY <2>2, <3>1
      <4> QED BY <2>2, <3>1, <4>1 DEF Step
    <3>2. CASE n # m + 1
      <4>1. n \in 0 .. m /\ (n # 0 => n - 1 \in 0 .. m)
        BY <3>2
      <4>2. n # 0 => v[n - 1] = w[n - 1]
        BY <2>1, <4>1
      <4>3. Step(v, n) = Step(w, n)
        BY <4>2 DEF Step
      <4> QED BY <2>1, <4>1, <4>3
    <3> QED BY <3>1, <3>2
  <2>5. Is(v, m + 1)
    BY <2>3, <2>4
  <2> QED BY <2>5
<1>3. BufSize \in G
  <2> HIDE DEF Is
  <2>1. \A m \in Nat : m \in G => m + 1 \in G
    BY <1>2
  <2> HIDE DEF G
  <2> QED BY <1>1, <2>1, Nats!NatInSet, BufferAssumption
<1>4. Is(F, BufSize)
  BY <1>3
<1>5. DropUntil(u, size) = F[BufSize].undo
  BY DEF DropUntil
<1> HIDE DEF F
<1>6. \A n \in 0 .. BufSize : F[n] = Step(F, n)
  BY <1>4
<1>7. 0 \in 0 .. BufSize /\ \A n \in 1 .. BufSize : n \in 0 .. BufSize /\ n # 0
  BY BufferAssumption
<1> QED BY <1>5, <1>6, <1>7

\* The records c without the d oldest ones.
Rest(c, d) == SubSeq(c, d + 1, Len(c))

\* Lemma: the elements of Rest.
LEMMA RestFacts ==
  ASSUME NEW S, NEW c \in Seq(S), NEW d \in 0 .. Len(c)
  PROVE  /\ Rest(c, d) \in Seq(S) /\ Len(Rest(c, d)) = Len(c) - d
         /\ \A k \in 1 .. Len(c) - d : Rest(c, d)[k] = c[d + k]
<1>1. PICK n \in Nat : n = Len(c)
  OBVIOUS
<1>2. d \in Nat /\ d <= n /\ d + 1 \in 1 .. (n + 1)
  BY <1>1
<1>3. Rest(c, d) = [k \in 1 .. (n - d) |-> c[d + k]]
  BY <1>1, <1>2 DEF Rest
<1>4. \A k \in 1 .. (n - d) : c[d + k] \in S
  <2> TAKE k \in 1 .. (n - d)
  <2>1. d + k \in 1 .. n
    BY <1>2
  <2> QED BY <1>1, <2>1
<1> QED BY <1>1, <1>2, <1>3, <1>4

\* Lemma: dropping one record after d of them.
LEMMA RestTail ==
  ASSUME NEW S, NEW c \in Seq(S), NEW d \in 0 .. Len(c) - 1
  PROVE  Tail(Rest(c, d)) = Rest(c, d + 1)
<1>1. PICK n \in Nat : n = Len(c)
  OBVIOUS
<1>2. d \in Nat /\ d + 1 <= n /\ d \in 0 .. Len(c) /\ d + 1 \in 0 .. Len(c)
  BY <1>1
<1>3. PICK a : a = Rest(c, d)
  OBVIOUS
<1>4. PICK b : b = Rest(c, d + 1)
  OBVIOUS
<1>5. a \in Seq(S) /\ Len(a) = n - d /\ \A k \in 1 .. n - d : a[k] = c[d + k]
  BY <1>1, <1>2, <1>3, RestFacts
<1>6. b \in Seq(S) /\ Len(b) = n - (d + 1) /\ \A k \in 1 .. n - (d + 1) : b[k] = c[(d + 1) + k]
  BY <1>1, <1>2, <1>4, RestFacts
<1>7. /\ Tail(a) \in Seq(S) /\ Len(Tail(a)) = (n - d) - 1
      /\ \A k \in 1 .. (n - d) - 1 : Tail(a)[k] = a[k + 1]
  <2>1. Len(a) >= 1
    BY <1>2, <1>5
  <2> QED BY <1>5, <2>1, TailFacts
<1>8. \A k \in 1 .. n - (d + 1) : Tail(a)[k] = b[k]
  <2> TAKE k \in 1 .. n - (d + 1)
  <2>1. k \in 1 .. (n - d) - 1 /\ k + 1 \in 1 .. n - d /\ d + (k + 1) = (d + 1) + k
    BY <1>2
  <2> QED BY <1>5, <1>6, <1>7, <2>1
<1>9. Len(Tail(a)) = Len(b) /\ Len(b) = n - (d + 1) /\ n - (d + 1) \in Nat
  BY <1>2, <1>6, <1>7
<1> QED BY <1>3, <1>4, <1>6, <1>7, <1>8, <1>9
\* The records c[d + 1], c[d + 2], ... are the same in u and in v.
Kept(u, v, c, d) == \A k \in d + 1 .. Len(c) : v.buf[c[k]] = u.buf[c[k]]

\* The state a of the loop after n turns that began with u and the records c.
Turned(a, n, u, c, size) ==
  \/ a.done /\ a.undo = NoUndo
  \/ \E d \in 0 .. Len(c) - 1 :
       /\ Going(a, Rest(c, d), size)
       /\ Kept(u, a.undo, c, d)
       /\ a.done \/ d >= n

\* Lemma: one more turn.
LEMMA TurnedStep ==
  ASSUME NEW u, NEW c \in Seq(Offsets), NEW n \in Nat, NEW size \in 1 .. BufSize,
         NEW a, Turned(a, n, u, c, size)
  PROVE  Turned(IF a.done THEN a ELSE Advance(a.undo, size), n + 1, u, c, size)
<1>1. CASE a.done
  BY <1>1 DEF Turned
<1>2. CASE ~a.done
  <2>1. PICK d \in 0 .. Len(c) - 1 : /\ Going(a, Rest(c, d), size)
                                     /\ Kept(u, a.undo, c, d) /\ d >= n
    BY <1>2 DEF Turned
  <2>2. PICK l : l = Len(c)
    OBVIOUS
  <2>3. l \in Nat /\ d \in 0 .. l /\ d \in Nat /\ d + 1 \in Nat /\ d <= l - 1
    BY <2>2
  <2>4. PICK e : e = Rest(c, d)
    OBVIOUS
  <2>5. /\ e \in Seq(Offsets) /\ Len(e) = l - d /\ \A k \in 1 .. l - d : e[k] = c[d + k]
        /\ Tail(e) = Rest(c, d + 1)
    <3>1. e \in Seq(Offsets) /\ Len(e) = l - d /\ \A k \in 1 .. l - d : e[k] = c[d + k]
      BY <2>2, <2>3, <2>4, RestFacts
    <3>2. Tail(e) = Rest(c, d + 1)
      BY <2>2, <2>4, RestTail
    <3> QED BY <3>1, <3>2
  <2>6. PICK m \in 1 .. Len(e) : Tiled(a.undo, e, m) /\ Wrapped(a.undo, e, m)
    BY <1>2, <2>1, <2>4 DEF Going
  <2>7. PICK b : b = Advance(a.undo, size)
    OBVIOUS
  <2>8. \/ Len(e) = 1 /\ b.done /\ b.undo = NoUndo
        \/ /\ Len(e) >= 2 /\ b.done \in BOOLEAN /\ Going(b, Tail(e), size)
           /\ \A k \in 2 .. Len(e) : b.undo.buf[e[k]] = a.undo.buf[e[k]]
    BY <2>6, <2>7, AdvanceTiled
  <2>9. CASE b.done /\ b.undo = NoUndo
    BY <1>2, <2>7, <2>9 DEF Turned
  <2>10. CASE /\ Len(e) >= 2 /\ Going(b, Tail(e), size)
              /\ \A k \in 2 .. Len(e) : b.undo.buf[e[k]] = a.undo.buf[e[k]]
    <3>1. d + 1 \in 0 .. Len(c) - 1 /\ d + 1 >= n + 1
      BY <2>1, <2>2, <2>3, <2>5, <2>10
    <3>2. ASSUME NEW k \in (d + 1) + 1 .. Len(c)
          PROVE  b.undo.buf[c[k]] = u.buf[c[k]]
      <4>1. /\ k - d \in 2 .. Len(e) /\ k - d \in 1 .. l - d /\ d + (k - d) = k
            /\ k \in d + 1 .. Len(c)
        BY <2>2, <2>3, <2>5
      <4>2. e[k - d] = c[k]
        BY <2>5, <4>1
      <4>3. b.undo.buf[c[k]] = a.undo.buf[c[k]]
        BY <2>10, <4>1, <4>2, SMTT(20)
      <4> QED BY <2>1, <4>1, <4>3 DEF Kept
    <3>3. Kept(u, b.undo, c, d + 1)
      BY <3>2 DEF Kept
    <3>4. Going(b, Rest(c, d + 1), size)
      BY <2>5, <2>10
    <3>5. Turned(b, n + 1, u, c, size)
      BY <3>1, <3>3, <3>4 DEF Turned
    <3> QED BY <1>2, <2>7, <3>5
  <2> QED BY <2>8, <2>9, <2>10
<1> QED BY <1>1, <1>2

\* The newest records are tiled, and there is room for another of this size.
Roomy(v, c, size) == \E m \in 1 .. Len(c) : Tiled(v, c, m) /\ Room(v, c, m, size)

\* Lemma: the loop ends with room for the record, or with all flushed; a record
\* that fits before drops nothing.
LEMMA DropUntilTiled ==
  ASSUME NEW u, NEW c, NEW m, Tiled(u, c, m), Wrapped(u, c, m), NEW size \in 1 .. BufSize
  PROVE  /\ u.tail - u.head >= size => DropUntil(u, size) = u
         /\ \/ DropUntil(u, size) = NoUndo
            \/ \E d \in 0 .. Len(c) - 1 :
                 Roomy(DropUntil(u, size), Rest(c, d), size) /\ Kept(u, DropUntil(u, size), c, d)
<1>1. PICK w : /\ w[0] = [undo |-> u, done |-> u.tail - u.head >= size]
               /\ \A n \in 1 .. BufSize :
                    w[n] = IF w[n - 1].done THEN w[n - 1] ELSE Advance(w[n - 1].undo, size)
               /\ DropUntil(u, size) = w[BufSize].undo
  BY DropUntilDef
<1>2. /\ Linked(u, c) /\ Laid(u, c, m) /\ m \in 1 .. Len(c)
      /\ c \in Seq(Offsets) /\ Len(c) >= 1 /\ Len(c) \in Nat
  <2>1. Linked(u, c) /\ Laid(u, c, m)
    BY DEF Tiled
  <2>2. c \in Seq(Offsets) /\ Len(c) >= 1
    BY <2>1 DEF Linked
  <2> QED BY <2>1, <2>2 DEF Laid
<1>3. BufSize \in Nat /\ 0 \in 0 .. BufSize
  BY BufferAssumption
<1>4. ASSUME u.tail - u.head >= size PROVE DropUntil(u, size) = u
  <2> DEFINE G == {n \in 0 .. BufSize : w[n] = w[0]}
  <2>1. 0 \in G
    BY <1>3
  <2>2. ASSUME NEW k \in 0 .. (BufSize - 1), k \in G PROVE k + 1 \in G
    <3>1. k + 1 \in 1 .. BufSize /\ k + 1 \in 0 .. BufSize /\ (k + 1) - 1 = k
      BY <1>3
    <3>2. w[k] = w[0]
      BY <2>2
    <3>3. PICK z : z = (u.tail - u.head >= size)
      OBVIOUS
    <3>4. w[0].done
      <4>1. w[0].done = z
        BY <1>1, <3>3
      <4>2. z
        BY <1>4, <3>3
      <4> QED BY <4>1, <4>2
    <3> HIDE DEF G
    <3>5. w[k + 1] = w[k]
      BY <1>1, <3>1, <3>2, <3>4
    <3> QED BY <3>1, <3>2, <3>5 DEF G
  <2> HIDE DEF G
  <2>3. 0 .. BufSize \subseteq G
    BY <1>3, <2>1, <2>2, Nats!UpToInSet
  <2>4. w[BufSize] = w[0]
    BY <1>3, <2>3 DEF G
  <2> QED BY <1>1, <2>4
<1>5. Turned(w[0], 0, u, c, size)
  <2>1. PICK z : z = (u.tail - u.head >= size)
    OBVIOUS
  <2>2. w[0].undo = u /\ w[0].done = z
    BY <1>1, <2>1
  <2>3. z => Room(u, c, m, size)
    BY <2>1 DEF Room
  <2>4. Going(w[0], c, size)
    BY <1>2, <2>2, <2>3 DEF Going
  <2>5. Rest(c, 0) = c
    BY <1>2 DEF Rest
  <2>6. 0 \in 0 .. Len(c) - 1 /\ 0 >= 0
    BY <1>2
  <2>7. Kept(u, w[0].undo, c, 0)
    BY <2>2 DEF Kept
  <2> QED BY <2>4, <2>5, <2>6, <2>7 DEF Turned
<1> DEFINE G == {n \in 0 .. BufSize : Turned(w[n], n, u, c, size)}
<1>6. 0 \in G
  BY <1>3, <1>5
<1>7. ASSUME NEW k \in 0 .. (BufSize - 1), k \in G PROVE k + 1 \in G
  <2>1. k + 1 \in 1 .. BufSize /\ k + 1 \in 0 .. BufSize /\ (k + 1) - 1 = k /\ k \in Nat
    BY <1>3
  <2>2. Turned(w[k], k, u, c, size)
    BY <1>7
  <2>3. PICK a : a = w[k]
    OBVIOUS
  <2>4. Turned(IF a.done THEN a ELSE Advance(a.undo, size), k + 1, u, c, size)
    BY <1>2, <2>1, <2>2, <2>3, TurnedStep
  <2>5. w[k + 1] = IF a.done THEN a ELSE Advance(a.undo, size)
    BY <1>1, <2>1, <2>3
  <2>6. Turned(w[k + 1], k + 1, u, c, size)
    BY <2>4, <2>5
  <2> QED BY <2>1, <2>6
<1> HIDE DEF G
<1>8. 0 .. BufSize \subseteq G
  BY <1>3, <1>6, <1>7, Nats!UpToInSet
<1>9. Turned(w[BufSize], BufSize, u, c, size)
  BY <1>3, <1>8 DEF G
<1>10. CASE w[BufSize].undo = NoUndo
  BY <1>1, <1>4, <1>10
<1>11. CASE \E d \in 0 .. Len(c) - 1 :
              /\ Going(w[BufSize], Rest(c, d), size)
              /\ Kept(u, w[BufSize].undo, c, d)
              /\ w[BufSize].done \/ d >= BufSize
  <2>1. PICK d \in 0 .. Len(c) - 1 :
              /\ Going(w[BufSize], Rest(c, d), size)
              /\ Kept(u, w[BufSize].undo, c, d)
              /\ w[BufSize].done \/ d >= BufSize
    BY <1>11
  <2>2. Len(c) <= BufSize
    BY <1>2, FewRecords
  <2>3. w[BufSize].done
    BY <1>2, <1>3, <2>1, <2>2
  <2>4. Roomy(w[BufSize].undo, Rest(c, d), size)
    BY <2>1, <2>3 DEF Going, Roomy
  <2> QED BY <1>1, <1>4, <2>1, <2>4
<1> QED BY <1>9, <1>10, <1>11 DEF Turned

-----------------------------------------------------------------------------
\* A new record.

Headed(u, c, m) == (Plain(u, c, m) \/ Wrapped(u, c, m)) /\ u.head # u.prv

\* The records in the buffer are c, the oldest first.
Ring(u, c) ==
  /\ u \in Context /\ c \in Seq(Offsets)
  /\ c = << >> => Empty(u) /\ \A i \in Offsets : u.buf[i] = Freed
  /\ c # << >> => \E m \in 1 .. Len(c) : Tiled(u, c, m) /\ Headed(u, c, m)

\* The buffer r with a new record at its head, as Reserve writes it.
Written(r, rec, size) ==
  [head |-> r.head + size, tail |-> r.tail, prv |-> r.head,
   top  |-> Higher(r.top, r.head),
   buf  |-> [i \in Offsets |->
               IF i = r.head THEN Unit(rec, r.prv)
               ELSE IF i \in r.head .. (r.head + size - 1) THEN Body
               ELSE r.buf[i]]]

\* Lemma: the fields of the buffer with the new record.
LEMMA ReserveFields ==
  ASSUME NEW r \in Context, NEW rec \in Records, NEW size \in 1 .. BufSize,
         r.head + size <= BufSize,
         NEW v, v = Written(r, rec, size)
  PROVE  /\ v \in Context /\ r.head \in Offsets
         /\ v.head = r.head + size /\ v.tail = r.tail /\ v.prv = r.head
         /\ v.top = Higher(r.top, r.head)
         /\ v.buf[r.head] = Unit(rec, r.prv)
         /\ \A i \in Offsets : i \in r.head .. (r.head + size - 1) /\ i # r.head => v.buf[i] = Body
         /\ \A i \in Offsets : ~(i \in r.head .. (r.head + size - 1)) => v.buf[i] = r.buf[i]
<1>1. PICK w : w = [i \in Offsets |->
                      IF i = r.head THEN Unit(rec, r.prv)
                      ELSE IF i \in r.head .. (r.head + size - 1) THEN Body
                      ELSE r.buf[i]]
  OBVIOUS
<1>2. v = [head |-> r.head + size, tail |-> r.tail, prv |-> r.head,
           top |-> Higher(r.top, r.head), buf |-> w]
  BY <1>1 DEF Written
<1>3. /\ r.head \in Nat /\ r.head \in Offsets /\ r.prv \in Offsets /\ r.tail \in Offsets
      /\ r.top \in Offsets /\ r.buf \in [Offsets -> Cells] /\ 0 \in Offsets
      /\ r.head + size \in 0 .. BufSize
  BY BufferAssumption DEF Context, Offsets
<1>4. Unit(rec, r.prv) \in Cells /\ Body \in Cells
  BY <1>3 DEF Unit, Cells, Body
<1>5. w \in [Offsets -> Cells]
  BY <1>1, <1>3, <1>4
<1>6. Higher(r.top, r.head) \in Offsets
  BY <1>3 DEF Higher
<1>7. v \in Context
  BY <1>2, <1>3, <1>5, <1>6 DEF Context
<1>8. v.head = r.head + size /\ v.tail = r.tail /\ v.prv = r.head
      /\ v.top = Higher(r.top, r.head) /\ v.buf = w
  BY <1>2
<1>9. w[r.head] = Unit(rec, r.prv)
  BY <1>1, <1>3
<1>10. /\ \A i \in Offsets : i \in r.head .. (r.head + size - 1) /\ i # r.head => w[i] = Body
       /\ \A i \in Offsets : ~(i \in r.head .. (r.head + size - 1)) => w[i] = r.buf[i]
  <2>1. ASSUME NEW i \in Offsets, i \in r.head .. (r.head + size - 1), i # r.head
        PROVE  w[i] = Body
    BY <1>1, <2>1
  <2>2. ASSUME NEW i \in Offsets, ~(i \in r.head .. (r.head + size - 1))
        PROVE  w[i] = r.buf[i]
    <3>1. i # r.head
      BY <1>3, <2>2
    <3> QED BY <1>1, <2>2, <3>1
  <2> QED BY <2>1, <2>2
<1> QED BY <1>3, <1>7, <1>8, <1>9, <1>10

\* Lemma: the elements of a longer sequence.
LEMMA AppendFacts ==
  ASSUME NEW S, NEW c \in Seq(S), NEW p \in S
  PROVE  /\ Append(c, p) \in Seq(S) /\ Len(Append(c, p)) = Len(c) + 1
         /\ \A k \in 1 .. Len(c) : Append(c, p)[k] = c[k]
         /\ Append(c, p)[Len(c) + 1] = p
  OBVIOUS

\* Lemma: a record that is written where there is room for it joins the others.
LEMMA ReserveTiled ==
  ASSUME NEW r, NEW e, NEW l, Tiled(r, e, l), NEW rec \in Records, NEW size,
         size = WrittenSize(rec), Room(r, e, l, size),
         NEW v, v = Written(r, rec, size)
  PROVE  /\ Ring(v, Append(e, v.prv)) /\ v.buf[v.prv].rec = rec
         /\ \A k \in 1 .. Len(e) : v.buf[e[k]] = r.buf[e[k]]
<1>1. PICK n : n = Len(e)
  OBVIOUS
<1>2. /\ r \in Context /\ Linked(r, e) /\ Laid(r, e, l) /\ Filled(r, e)
      /\ n \in Nat /\ n >= 1 /\ l \in 1 .. n /\ e \in Seq(Offsets)
      /\ r.tail = e[1] /\ r.prv = e[n] /\ 1 \in 1 .. n /\ n \in 1 .. n
  <2>1. r \in Context /\ Linked(r, e) /\ Laid(r, e, l) /\ Filled(r, e)
    BY DEF Tiled
  <2>2. e \in Seq(Offsets) /\ r.tail = e[1] /\ r.prv = e[n] /\ n >= 1
    BY <1>1, <2>1 DEF Linked
  <2>3. n \in Nat
    BY <1>1, <2>2
  <2>4. l \in 1 .. n
    BY <1>1, <2>1 DEF Laid
  <2>5. 1 \in 1 .. n /\ n \in 1 .. n
    BY <2>2, <2>3
  <2> QED BY <2>1, <2>2, <2>3, <2>4, <2>5
<1>3. \A k \in 1 .. n : /\ e[k] \in Offsets /\ e[k] \in Nat /\ e[k] < BufSize
                        /\ End(r, e[k]) \in Nat /\ End(r, e[k]) > e[k]
                        /\ End(r, e[k]) <= BufSize /\ e[k] \in UnitsOf(r, e[k])
  BY <1>1, <1>2, EndFacts, EndLimit
<1>4. size \in 1 .. BufSize /\ size \in Nat /\ size >= 1 /\ BufSize \in Nat
  BY SizeFacts, BufferAssumption
<1>5. PICK p : p = r.head
  OBVIOUS
<1>6. p \in Nat
  BY <1>2, <1>5 DEF Context
<1>7. \A i \in 1 .. n : i < n /\ (n <= l \/ i > l) => End(r, e[i]) <= e[n]
  BY <1>1, <1>2 DEF Laid
<1>8. e[1] <= e[l]
  <2>1. l = 1 \/ End(r, e[1]) <= e[l]
    BY <1>1, <1>2 DEF Laid
  <2> QED BY <1>2, <1>3, <2>1
<1>9. PICK b : b = IF Plain(r, e, l) THEN n + 1 ELSE l
  OBVIOUS
<1>10. /\ p + size <= BufSize
       /\ \A k \in 1 .. n : End(r, e[k]) <= p \/ p + size <= e[k]
       /\ \A i \in 1 .. n : b = n + 1 \/ i > b => End(r, e[i]) <= p
       /\ b # n + 1 => b = l /\ p + size <= e[1] /\ r.top = e[l]
       /\ b = n + 1 => l = n
       /\ p = IF n = b THEN 0 ELSE End(r, e[n])
       /\ b \in 1 .. n + 1
  <2>1. CASE Plain(r, e, l)
    <3>1. b = n + 1 /\ l = n /\ p = End(r, e[n])
      BY <1>1, <1>5, <1>9, <2>1 DEF Plain
    <3>2. ~Wrapped(r, e, l)
      <4>1. p # 0
        BY <1>2, <1>3, <3>1
      <4> QED BY <1>1, <1>5, <3>1, <4>1 DEF Wrapped
    <3>3. BufSize - p >= size
      BY <1>5, <3>2 DEF Room
    <3>4. ASSUME NEW i \in 1 .. n PROVE End(r, e[i]) <= p
      <4>1. CASE i = n
        BY <1>3, <3>1, <4>1
      <4>2. CASE i # n
        <5>1. End(r, e[i]) <= e[n]
          BY <1>2, <1>7, <3>1, <4>2
        <5> QED BY <1>2, <1>3, <3>1, <5>1
      <4> QED BY <4>1, <4>2
    <3>5. p + size <= BufSize
      BY <1>4, <1>6, <3>3
    <3> QED BY <1>2, <3>1, <3>4, <3>5
  <2>2. CASE ~Plain(r, e, l)
    <3>1. b = l /\ Wrapped(r, e, l) /\ e[1] - p >= size
      BY <1>2, <1>5, <1>9, <2>2 DEF Room
    <3>2. p + size <= e[1]
      <4>1. e[1] \in Nat
        BY <1>2, <1>3
      <4> QED BY <1>4, <1>6, <3>1, <4>1
    <3>3. r.top = e[l] /\ p = IF l = n THEN 0 ELSE End(r, e[n])
      BY <1>1, <1>5, <3>1 DEF Wrapped
    <3>4. ASSUME NEW i \in 1 .. n, i > l PROVE End(r, e[i]) <= p
      <4>1. n > l /\ p = End(r, e[n])
        BY <1>2, <3>3, <3>4
      <4>2. CASE i = n
        BY <1>3, <4>1, <4>2
      <4>3. CASE i # n
        <5>1. End(r, e[i]) <= e[n]
          BY <1>2, <1>7, <3>4, <4>3
        <5> QED BY <1>2, <1>3, <4>1, <5>1
      <4> QED BY <4>2, <4>3
    <3>5. ASSUME NEW i \in 1 .. n, ~(i > l) PROVE p + size <= e[i]
      <4>1. i = 1 \/ End(r, e[1]) <= e[i]
        BY <1>1, <1>2, <3>5 DEF Laid
      <4> QED BY <1>2, <1>3, <1>4, <1>6, <3>2, <4>1, SMTT(20)
    <3>6. p + size <= BufSize
      BY <1>2, <1>3, <1>4, <1>6, <3>2
    <3>7. b # n + 1 /\ b \in 1 .. n + 1
      BY <1>2, <3>1
    <3> QED BY <3>1, <3>2, <3>3, <3>4, <3>5, <3>6, <3>7
  <2> QED BY <2>1, <2>2
<1>11. /\ v \in Context /\ p \in Offsets
       /\ v.head = p + size /\ v.tail = r.tail /\ v.prv = p
       /\ v.top = Higher(r.top, p)
       /\ v.buf[p] = Unit(rec, r.prv)
       /\ \A i \in Offsets : i \in p .. (p + size - 1) /\ i # p => v.buf[i] = Body
       /\ \A i \in Offsets : ~(i \in p .. (p + size - 1)) => v.buf[i] = r.buf[i]
  <2>1. r.head + size <= BufSize
    BY <1>5, <1>10
  <2>2. /\ v \in Context /\ r.head \in Offsets
        /\ v.head = r.head + size /\ v.tail = r.tail /\ v.prv = r.head
        /\ v.top = Higher(r.top, r.head)
        /\ v.buf[r.head] = Unit(rec, r.prv)
        /\ \A i \in Offsets : i \in r.head .. (r.head + size - 1) /\ i # r.head => v.buf[i] = Body
        /\ \A i \in Offsets : ~(i \in r.head .. (r.head + size - 1)) => v.buf[i] = r.buf[i]
    BY <1>2, <1>4, <2>1, ReserveFields
  <2> QED BY <1>5, <2>2
<1>12. ASSUME NEW k \in 1 .. n, NEW i \in UnitsOf(r, e[k])
       PROVE  i \in Offsets /\ v.buf[i] = r.buf[i]
  <2>1. i \in Int /\ i >= e[k] /\ i < End(r, e[k])
    BY <1>3, <1>12 DEF UnitsOf
  <2>2. i \in Offsets
    BY <1>3, <1>4, <2>1 DEF Offsets
  <2>3. End(r, e[k]) <= p \/ p + size <= e[k]
    BY <1>10
  <2>4. ~(i \in p .. (p + size - 1))
    BY <1>3, <1>4, <1>6, <2>1, <2>3
  <2> QED BY <1>11, <2>2, <2>4
<1>13. ASSUME NEW k \in 1 .. n
       PROVE  v.buf[e[k]] = r.buf[e[k]] /\ End(v, e[k]) = End(r, e[k])
  <2>1. v.buf[e[k]] = r.buf[e[k]]
    BY <1>3, <1>12
  <2> QED BY <2>1 DEF End
<1>14. /\ v.buf[p].rec = rec /\ v.buf[p].prv = e[n] /\ End(v, p) = p + size
       /\ UnitsOf(v, p) = p .. (p + size - 1)
  <2>1. v.buf[p].rec = rec /\ v.buf[p].prv = e[n]
    BY <1>2, <1>11 DEF Unit
  <2>2. End(v, p) = p + size
    BY <2>1 DEF End
  <2>3. UnitsOf(v, p) = p .. (p + size - 1)
    BY <1>4, <1>6, <2>2 DEF UnitsOf
  <2> QED BY <2>1, <2>2, <2>3
<1>15. PICK f : f = Append(e, p)
  OBVIOUS
<1>16. /\ f \in Seq(Offsets) /\ Len(f) = n + 1 /\ f[n + 1] = p
       /\ \A k \in 1 .. n : f[k] = e[k]
       /\ \A k \in 1 .. n + 1 : k \in 1 .. n \/ k = n + 1
       /\ n + 1 \in 1 .. n + 1 /\ (n + 1) - 1 = n
       /\ f[1] = e[1]
  <2>1. /\ f \in Seq(Offsets) /\ Len(f) = n + 1 /\ f[n + 1] = p
        /\ \A k \in 1 .. n : f[k] = e[k]
    BY <1>1, <1>2, <1>11, <1>15, AppendFacts
  <2>2. \A k \in 1 .. n + 1 : k \in 1 .. n \/ k = n + 1
    BY <1>2
  <2>3. n + 1 \in 1 .. n + 1 /\ (n + 1) - 1 = n
    BY <1>2
  <2> QED BY <1>2, <2>1, <2>2, <2>3
<1>17. Linked(v, f)
  <2>1. v.tail = f[1] /\ v.prv = f[n + 1]
    BY <1>2, <1>11, <1>16
  <2>2. ASSUME NEW k \in 1 .. n + 1 PROVE v.buf[f[k]].rec \in Records
    <3>1. CASE k = n + 1
      BY <1>14, <1>16, <3>1
    <3>2. CASE k \in 1 .. n
      BY <1>1, <1>2, <1>13, <1>16, <3>2 DEF Linked
    <3> QED BY <1>16, <3>1, <3>2
  <2>3. ASSUME NEW k \in 2 .. n + 1 PROVE v.buf[f[k]].prv = f[k - 1]
    <3>1. CASE k = n + 1
      BY <1>2, <1>14, <1>16, <3>1
    <3>2. CASE k # n + 1
      <4>1. k \in 2 .. n /\ k \in 1 .. n /\ k - 1 \in 1 .. n
        BY <1>2, <3>2
      <4>2. r.buf[e[k]].prv = e[k - 1]
        BY <1>1, <1>2, <4>1 DEF Linked
      <4> QED BY <1>13, <1>16, <4>1, <4>2
    <3> QED BY <3>1, <3>2
  <2>4. n + 1 >= 1
    BY <1>2
  <2> QED BY <1>16, <2>1, <2>2, <2>3, <2>4 DEF Linked
<1>18. Laid(v, f, b)
  <2>1. ASSUME NEW k \in 1 .. (n + 1) - 1
        PROVE  f[k + 1] = IF k = b THEN 0 ELSE End(v, f[k])
    <3>1. k \in 1 .. n
      BY <1>2
    <3>2. CASE k = n
      <4>1. f[k + 1] = p /\ f[k] = e[n] /\ End(v, f[k]) = End(r, e[n])
        BY <1>13, <1>16, <3>1, <3>2
      <4> QED BY <1>10, <3>2, <4>1
    <3>3. CASE k # n
      <4>1. k \in 1 .. n - 1 /\ k + 1 \in 1 .. n /\ k # n + 1
        BY <1>2, <3>1, <3>3
      <4>2. e[k + 1] = IF k = l THEN 0 ELSE End(r, e[k])
        BY <1>1, <1>2, <4>1 DEF Laid
      <4>3. k = l <=> k = b
        BY <1>10, <3>3, <4>1
      <4>4. f[k + 1] = e[k + 1] /\ End(v, f[k]) = End(r, e[k])
        BY <1>13, <1>16, <3>1, <4>1
      <4> QED BY <4>2, <4>3, <4>4
    <3> QED BY <3>2, <3>3
  <2>2. ASSUME NEW i \in 1 .. n + 1, NEW j \in 1 .. n + 1, i < j, j <= b \/ i > b
        PROVE  End(v, f[i]) <= f[j]
    <3>1. i \in 1 .. n /\ End(v, f[i]) = End(r, e[i])
      <4>1. i \in 1 .. n
        BY <1>2, <2>2
      <4> QED BY <1>13, <1>16, <4>1
    <3>2. CASE j = n + 1
      <4>1. b = n + 1 \/ i > b
        BY <1>2, <1>10, <2>2, <3>2
      <4>2. End(r, e[i]) <= p
        BY <1>10, <3>1, <4>1
      <4> QED BY <1>16, <3>1, <3>2, <4>2
    <3>3. CASE j \in 1 .. n
      <4>1. j <= l \/ i > l
        BY <1>2, <1>10, <2>2, <3>3
      <4>2. End(r, e[i]) <= e[j]
        BY <1>1, <1>2, <2>2, <3>1, <3>3, <4>1 DEF Laid
      <4> QED BY <1>16, <3>1, <3>3, <4>2
    <3> QED BY <1>16, <3>2, <3>3
  <2>3. ASSUME NEW j \in 1 .. n + 1, j > b PROVE End(v, f[j]) <= f[1]
    <3>1. b # n + 1
      BY <1>2, <1>10, <2>3
    <3>2. b = l /\ p + size <= e[1]
      BY <1>10, <3>1
    <3>3. CASE j = n + 1
      BY <1>14, <1>16, <3>2, <3>3
    <3>4. CASE j \in 1 .. n
      <4>1. End(r, e[j]) <= e[1]
        BY <1>1, <1>2, <2>3, <3>2, <3>4 DEF Laid
      <4> QED BY <1>13, <1>16, <3>4, <4>1
    <3> QED BY <1>16, <3>3, <3>4
  <2>4. End(v, f[b]) <= BufSize
    <3>1. CASE b = n + 1
      BY <1>10, <1>14, <1>16, <3>1
    <3>2. CASE b # n + 1
      <4>1. b \in 1 .. n
        BY <1>2, <1>10, <3>2
      <4> QED BY <1>3, <1>13, <1>16, <4>1
    <3> QED BY <3>1, <3>2
  <2> QED BY <1>10, <1>16, <2>1, <2>2, <2>3, <2>4 DEF Laid
<1>19. Filled(v, f)
  <2>1. ASSUME NEW k \in 1 .. n + 1, NEW i \in UnitsOf(v, f[k]), i # f[k]
        PROVE  v.buf[i] = Body
    <3>1. CASE k = n + 1
      <4>1. i \in p .. (p + size - 1) /\ i # p
        BY <1>14, <1>16, <2>1, <3>1
      <4>2. i \in Offsets
        BY <1>4, <1>6, <1>10, <4>1 DEF Offsets
      <4> QED BY <1>11, <4>1, <4>2
    <3>2. CASE k \in 1 .. n
      <4>1. i \in UnitsOf(r, e[k]) /\ i # e[k]
        BY <1>13, <1>16, <2>1, <3>2 DEF UnitsOf
      <4>2. r.buf[i] = Body
        BY <1>1, <1>2, <3>2, <4>1 DEF Filled
      <4> QED BY <1>12, <3>2, <4>1, <4>2
    <3> QED BY <1>16, <3>1, <3>2
  <2>2. ASSUME NEW i \in Offsets, v.buf[i] # Freed
        PROVE  \E k \in 1 .. n + 1 : i \in UnitsOf(v, f[k])
    <3>1. CASE i \in p .. (p + size - 1)
      <4>1. i \in UnitsOf(v, f[n + 1])
        BY <1>14, <1>16, <3>1
      <4> QED BY <1>16, <4>1
    <3>2. CASE ~(i \in p .. (p + size - 1))
      <4>1. r.buf[i] # Freed
        BY <1>11, <2>2, <3>2
      <4>2. PICK k \in 1 .. n : i \in UnitsOf(r, e[k])
        BY <1>1, <1>2, <4>1 DEF Filled
      <4>3. UnitsOf(v, f[k]) = UnitsOf(r, e[k])
        BY <1>13, <1>16 DEF UnitsOf
      <4>4. k \in 1 .. n + 1
        BY <1>2
      <4> QED BY <4>2, <4>3, <4>4
    <3> QED BY <3>1, <3>2
  <2> QED BY <1>16, <2>1, <2>2 DEF Filled
<1>20. Headed(v, f, b)
  <2>1. v.head # v.prv
    BY <1>4, <1>6, <1>11
  <2>2. CASE b = n + 1
    <3>1. r.top \in Nat
      BY <1>2 DEF Context, Offsets
    <3>2. v.top >= p
      BY <1>6, <1>11, <3>1 DEF Higher
    <3>3. Plain(v, f, b)
      BY <1>11, <1>14, <1>16, <2>2, <3>2 DEF Plain
    <3> QED BY <2>1, <3>3 DEF Headed
  <2>3. CASE b # n + 1
    <3>1. b = l /\ p + size <= e[1] /\ r.top = e[l]
      BY <1>10, <2>3
    <3>2. v.top = e[l]
      <4>1. e[1] \in Nat /\ e[l] \in Nat
        BY <1>2, <1>3
      <4>2. ~(p > e[l]) /\ (p = e[l] \/ e[l] > p)
        BY <1>4, <1>6, <1>8, <3>1, <4>1
      <4> QED BY <1>11, <3>1, <4>2 DEF Higher
    <3>3. f[b] = e[l] /\ b # Len(f)
      BY <1>2, <1>16, <3>1, <2>3
    <3>4. Wrapped(v, f, b)
      BY <1>11, <1>14, <1>16, <3>2, <3>3 DEF Wrapped
    <3> QED BY <2>1, <3>4 DEF Headed
  <2> QED BY <2>2, <2>3
<1>21. Ring(v, f)
  <2>1. Tiled(v, f, b) /\ b \in 1 .. Len(f)
    BY <1>10, <1>11, <1>16, <1>17, <1>18, <1>19 DEF Tiled
  <2>2. f # << >>
    BY <1>2, <1>16
  <2> QED BY <1>11, <1>16, <1>20, <2>1, <2>2 DEF Ring
<1> QED BY <1>1, <1>11, <1>13, <1>14, <1>15, <1>21

\* Lemma: a record that is written into an empty buffer.
LEMMA ReserveEmpty ==
  ASSUME NEW rec \in Records, NEW size, size = WrittenSize(rec),
         NEW v, v = Written(NoUndo, rec, size)
  PROVE  Ring(v, <<v.prv>>) /\ v.buf[v.prv].rec = rec
<1>1. /\ size \in 1 .. BufSize /\ size \in Nat /\ size >= 1 /\ BufSize \in Nat /\ size <= BufSize
      /\ 0 \in Offsets
  BY SizeFacts, BufferAssumption DEF Offsets
<1>2. PICK r : r = NoUndo
  OBVIOUS
<1>3. /\ r \in Context /\ r.head = 0 /\ r.tail = 0 /\ r.prv = 0 /\ r.top = 0
      /\ \A i \in Offsets : r.buf[i] = Freed
  BY <1>2, NoUndoFacts
<1>4. /\ v \in Context
      /\ v.head = size /\ v.tail = 0 /\ v.prv = 0 /\ v.top = 0
      /\ v.buf[0] = Unit(rec, 0)
      /\ \A i \in Offsets : i \in 0 .. (size - 1) /\ i # 0 => v.buf[i] = Body
      /\ \A i \in Offsets : ~(i \in 0 .. (size - 1)) => v.buf[i] = Freed
  <2>1. r.head + size <= BufSize /\ v = Written(r, rec, size) /\ r.head + size = size
    BY <1>1, <1>2, <1>3
  <2>2. /\ v \in Context /\ r.head \in Offsets
        /\ v.head = r.head + size /\ v.tail = r.tail /\ v.prv = r.head
        /\ v.top = Higher(r.top, r.head)
        /\ v.buf[r.head] = Unit(rec, r.prv)
        /\ \A i \in Offsets : i \in r.head .. (r.head + size - 1) /\ i # r.head => v.buf[i] = Body
        /\ \A i \in Offsets : ~(i \in r.head .. (r.head + size - 1)) => v.buf[i] = r.buf[i]
    BY <1>1, <1>3, <2>1, ReserveFields
  <2>3. Higher(r.top, r.head) = 0
    BY <1>3 DEF Higher
  <2> QED BY <1>1, <1>3, <2>1, <2>2, <2>3
<1>5. /\ v.buf[0].rec = rec /\ End(v, 0) = size
      /\ UnitsOf(v, 0) = 0 .. (size - 1)
  <2>1. v.buf[0].rec = rec
    BY <1>4 DEF Unit
  <2>2. End(v, 0) = size
    BY <1>1, <2>1 DEF End
  <2> QED BY <2>1, <2>2 DEF UnitsOf
<1>6. PICK f : f = <<v.prv>>
  OBVIOUS
<1>7. f \in Seq(Offsets) /\ Len(f) = 1 /\ f[1] = 0 /\ f # << >>
  BY <1>1, <1>4, <1>6
<1>8. Linked(v, f)
  <2>1. \A k \in 1 .. 1 : v.buf[f[k]].rec \in Records
    BY <1>5, <1>7
  <2>2. \A k \in 2 .. 1 : v.buf[f[k]].prv = f[k - 1]
    OBVIOUS
  <2> QED BY <1>4, <1>7, <2>1, <2>2 DEF Linked
<1>9. Laid(v, f, 1)
  <2>1. 1 \in 1 .. 1 /\ 1 .. 1 - 1 = {} /\ \A i \in 1 .. 1 : i = 1
    OBVIOUS
  <2>2. End(v, f[1]) <= BufSize
    BY <1>1, <1>5, <1>7
  <2> QED BY <1>7, <2>1, <2>2 DEF Laid
<1>10. Filled(v, f)
  <2>1. ASSUME NEW k \in 1 .. 1, NEW i \in UnitsOf(v, f[k]), i # f[k] PROVE v.buf[i] = Body
    <3>1. k = 1
      OBVIOUS
    <3>2. i \in 0 .. (size - 1) /\ i # 0
      BY <1>5, <1>7, <2>1, <3>1
    <3>3. i \in Offsets
      BY <1>1, <3>2 DEF Offsets
    <3> QED BY <1>4, <3>2, <3>3
  <2>2. ASSUME NEW i \in Offsets, v.buf[i] # Freed PROVE \E k \in 1 .. 1 : i \in UnitsOf(v, f[k])
    <3>1. i \in UnitsOf(v, f[1])
      BY <1>4, <1>5, <1>7, <2>2
    <3> QED BY <3>1
  <2> QED BY <1>7, <2>1, <2>2 DEF Filled
<1>11. Tiled(v, f, 1) /\ 1 \in 1 .. Len(f)
  BY <1>4, <1>7, <1>8, <1>9, <1>10 DEF Tiled
<1>12. Headed(v, f, 1)
  <2>1. v.head # v.prv /\ v.top >= f[1]
    BY <1>1, <1>4, <1>7
  <2>2. Plain(v, f, 1)
    BY <1>4, <1>5, <1>7, <2>1 DEF Plain
  <2> QED BY <2>1, <2>2 DEF Headed
<1>13. Ring(v, f)
  BY <1>4, <1>7, <1>11, <1>12 DEF Ring
<1> QED BY <1>4, <1>5, <1>6, <1>13

\* Lemma: the head tells whether the buffer has wrapped.
LEMMA HeadCases ==
  ASSUME NEW u, NEW c, NEW m, Tiled(u, c, m), Headed(u, c, m)
  PROVE  /\ u.tail >= u.head => Wrapped(u, c, m)
         /\ u.tail < u.head => Plain(u, c, m)
         /\ u.tail \in Nat /\ u.head \in Nat
<1>1. /\ u \in Context /\ Linked(u, c) /\ Laid(u, c, m) /\ m \in 1 .. Len(c)
      /\ u.tail = c[1] /\ Len(c) \in Nat /\ Len(c) >= 1 /\ 1 \in 1 .. Len(c)
  <2>1. u \in Context /\ Linked(u, c) /\ Laid(u, c, m)
    BY DEF Tiled
  <2>2. c \in Seq(Offsets) /\ u.tail = c[1] /\ Len(c) >= 1
    BY <2>1 DEF Linked
  <2>3. Len(c) \in Nat /\ 1 \in 1 .. Len(c)
    BY <2>2
  <2> QED BY <2>1, <2>2, <2>3 DEF Laid
<1>2. u.head \in Nat /\ u.tail \in Nat
  BY <1>1, BufferAssumption DEF Context, Offsets
<1>3. /\ c[1] \in Nat /\ c[m] \in Nat /\ End(u, c[1]) \in Nat /\ End(u, c[m]) \in Nat
      /\ End(u, c[1]) > c[1] /\ End(u, c[m]) > c[m]
  BY <1>1, EndFacts
<1>4. Plain(u, c, m) => u.tail < u.head
  <2> SUFFICES ASSUME Plain(u, c, m) PROVE u.tail < u.head
    OBVIOUS
  <2>1. u.head = End(u, c[m])
    BY DEF Plain
  <2>2. m = 1 \/ End(u, c[1]) <= c[m]
    BY <1>1 DEF Laid
  <2> QED BY <1>1, <1>2, <1>3, <2>1, <2>2
<1>5. Wrapped(u, c, m) => u.tail >= u.head
  <2> SUFFICES ASSUME Wrapped(u, c, m) PROVE u.tail >= u.head
    OBVIOUS
  <2>1. CASE m = Len(c)
    BY <1>2, <2>1 DEF Wrapped
  <2>2. CASE m # Len(c)
    <3>1. u.head = End(u, c[Len(c)]) /\ Len(c) > m /\ Len(c) \in 1 .. Len(c)
      BY <1>1, <2>2 DEF Wrapped
    <3>2. End(u, c[Len(c)]) <= c[1]
      BY <1>1, <3>1 DEF Laid
    <3> QED BY <1>1, <1>2, <3>1, <3>2
  <2> QED BY <2>1, <2>2
<1> QED BY <1>2, <1>4, <1>5 DEF Headed

\* The unit of free space that can be had without dropping a record.
Suffices(u, size) ==
  IF u.tail < u.head THEN BufSize - u.head >= size \/ u.tail >= size
  ELSE u.tail - u.head >= size

\* Lemma: what MakeRoom returns.
LEMMA MakeRoomTiled ==
  ASSUME NEW u, NEW c, Ring(u, c), c # << >>, NEW size \in 1 .. BufSize,
         NEW r, r = MakeRoom(u, size)
  PROVE  /\ Suffices(u, size) => r.tail = u.tail
         /\ \/ r = NoUndo
            \/ \E d \in 0 .. Len(c) - 1 : Roomy(r, Rest(c, d), size) /\ Kept(u, r, c, d)
<1>1. PICK m \in 1 .. Len(c) : Tiled(u, c, m) /\ Headed(u, c, m)
  BY DEF Ring
<1>2. /\ u.tail >= u.head => Wrapped(u, c, m)
      /\ u.tail < u.head => Plain(u, c, m)
      /\ u.tail \in Nat /\ u.head \in Nat
  BY <1>1, HeadCases
<1>3. ~Empty(u) /\ c \in Seq(Offsets) /\ Rest(c, 0) = c /\ 0 \in 0 .. Len(c) - 1
  BY <1>1 DEF Headed, Empty, Ring, Rest
<1>4. CASE u.tail >= u.head
  <2>1. r = DropUntil(u, size)
    BY <1>3, <1>4 DEF MakeRoom
  <2>2. Suffices(u, size) => u.tail - u.head >= size
    BY <1>2, <1>4 DEF Suffices
  <2>3. Wrapped(u, c, m)
    BY <1>2, <1>4
  <2> QED BY <1>1, <2>1, <2>2, <2>3, DropUntilTiled
<1>5. CASE u.tail < u.head /\ BufSize - u.head >= size
  <2>1. r = u
    BY <1>2, <1>3, <1>5 DEF MakeRoom
  <2>2. Room(u, c, m, size)
    BY <1>2, <1>5 DEF Room
  <2>3. Roomy(r, Rest(c, 0), size)
    BY <1>1, <1>3, <2>1, <2>2 DEF Roomy
  <2>4. Kept(u, r, c, 0)
    BY <2>1 DEF Kept
  <2> QED BY <1>3, <2>1, <2>3, <2>4
<1>6. CASE u.tail < u.head /\ ~(BufSize - u.head >= size)
  <2>1. PICK w : w = wrap(u)
    OBVIOUS
  <2>2. Tiled(w, c, m) /\ Wrapped(w, c, m) /\ w.buf = u.buf /\ w.tail = u.tail
    BY <1>1, <1>2, <1>6, <2>1, WrapTiled
  <2>3. w.head = 0
    <3>1. u \in Context
      BY <1>1 DEF Tiled
    <3> QED BY <2>1, <3>1, WrapFields
  <2>4. r = DropUntil(w, size)
    BY <1>2, <1>3, <1>6, <2>1 DEF MakeRoom
  <2>5. /\ w.tail - w.head >= size => DropUntil(w, size) = w
        /\ \/ DropUntil(w, size) = NoUndo
           \/ \E d \in 0 .. Len(c) - 1 :
                Roomy(DropUntil(w, size), Rest(c, d), size) /\ Kept(w, DropUntil(w, size), c, d)
    BY <2>2, DropUntilTiled
  <2>6. Suffices(u, size) => w.tail - w.head >= size
    BY <1>2, <1>6, <2>2, <2>3 DEF Suffices
  <2>7. Suffices(u, size) => r.tail = u.tail
    BY <2>2, <2>4, <2>5, <2>6
  <2>8. \A d : Kept(w, r, c, d) => Kept(u, r, c, d)
    BY <2>2 DEF Kept
  <2> QED BY <2>4, <2>5, <2>7, <2>8
<1> QED BY <1>2, <1>4, <1>5, <1>6

\* Lemma: a new record becomes the newest; older ones may go, the oldest first.
LEMMA RingAppend ==
  ASSUME NEW u, NEW c, Ring(u, c), NEW rec \in Records, NEW v, v = objures(u, rec)
  PROVE  \E d \in 0 .. Len(c) :
           /\ Ring(v, Append(Rest(c, d), v.prv))
           /\ Kept(u, v, c, d)
           /\ v.buf[v.prv].rec = rec
<1>1. PICK size : size = WrittenSize(rec)
  OBVIOUS
<1>2. size \in 1 .. BufSize
  BY <1>1, SizeFacts
<1>3. PICK r : r = MakeRoom(u, size)
  OBVIOUS
<1>4. v = Written(r, rec, size)
  BY <1>1, <1>3 DEF objures, Reserve, Written
<1>5. c \in Seq(Offsets) /\ Len(c) \in Nat
  BY DEF Ring
<1>6. CASE r = NoUndo
  <2>1. Ring(v, <<v.prv>>) /\ v.buf[v.prv].rec = rec
    BY <1>1, <1>4, <1>6, ReserveEmpty
  <2>2. Rest(c, Len(c)) = << >> /\ Append(<< >>, v.prv) = <<v.prv>>
    <3>1. Rest(c, Len(c)) = << >>
      BY <1>5 DEF Rest
    <3> QED BY <3>1
  <2>3. Kept(u, v, c, Len(c))
    BY <1>5 DEF Kept
  <2>4. PICK d : d = Len(c)
    OBVIOUS
  <2>5. d \in 0 .. Len(c)
    BY <1>5, <2>4
  <2>6. Append(Rest(c, d), v.prv) = <<v.prv>>
    BY <2>2, <2>4
  <2>7. Ring(v, Append(Rest(c, d), v.prv)) /\ Kept(u, v, c, d)
    BY <2>1, <2>3, <2>4, <2>6
  <2> QED BY <2>1, <2>5, <2>7
<1>7. CASE c # << >> /\ r # NoUndo
  <2>1. PICK d \in 0 .. Len(c) - 1 : Roomy(r, Rest(c, d), size) /\ Kept(u, r, c, d)
    BY <1>2, <1>3, <1>7, MakeRoomTiled
  <2>2. PICK e : e = Rest(c, d)
    OBVIOUS
  <2>3. d \in 0 .. Len(c) /\ d \in Nat
    BY <1>5
  <2>4. Len(e) = Len(c) - d /\ \A k \in 1 .. Len(c) - d : e[k] = c[d + k]
    BY <1>5, <2>2, <2>3, RestFacts
  <2>5. PICK l \in 1 .. Len(e) : Tiled(r, e, l) /\ Room(r, e, l, size)
    BY <2>1, <2>2 DEF Roomy
  <2>6. /\ Ring(v, Append(e, v.prv)) /\ v.buf[v.prv].rec = rec
        /\ \A k \in 1 .. Len(e) : v.buf[e[k]] = r.buf[e[k]]
    BY <1>1, <1>4, <2>5, ReserveTiled
  <2>7. ASSUME NEW k \in d + 1 .. Len(c) PROVE v.buf[c[k]] = u.buf[c[k]]
    <3>1. k - d \in 1 .. Len(c) - d /\ d + (k - d) = k
      BY <1>5, <2>3
    <3>2. e[k - d] = c[k] /\ k - d \in 1 .. Len(e)
      BY <2>4, <3>1
    <3>3. r.buf[c[k]] = u.buf[c[k]]
      BY <2>1 DEF Kept
    <3> QED BY <2>6, <3>2, <3>3
  <2>8. Kept(u, v, c, d)
    BY <2>7 DEF Kept
  <2> QED BY <2>2, <2>3, <2>6, <2>8
<1>8. CASE c = << >>
  <2>1. Empty(u)
    BY <1>8 DEF Ring
  <2>2. r = NoUndo
    BY <1>3, <2>1 DEF MakeRoom
  <2> QED BY <1>6, <2>2
<1> QED BY <1>6, <1>7, <1>8

-----------------------------------------------------------------------------
\* Undoing the newest record.

\* Lemma: the list of records without the newest.
LEMMA FrontFacts ==
  ASSUME NEW S, NEW c \in Seq(S), NEW n \in Nat, n = Len(c), n >= 1
  PROVE  /\ Front(c) \in Seq(S) /\ Len(Front(c)) = n - 1
         /\ \A k \in 1 .. n - 1 : Front(c)[k] = c[k]
<1>1. Front(c) = SubSeq(c, 1, n - 1)
  BY DEF Front
<1> QED BY <1>1

\* Lemma: the fields after the newest record is undone.
LEMMA PopFields ==
  ASSUME NEW u \in Context, NEW v, v = Pop(u)
  PROVE  /\ v \in Context /\ v.head = u.prv /\ v.tail = u.tail /\ v.top = u.top
         /\ v.prv = IF u.prv = u.tail THEN u.prv ELSE u.buf[u.prv].prv
         /\ \A i \in Offsets : i \in UnitsOf(u, u.prv) => v.buf[i] = Freed
         /\ \A i \in Offsets : ~(i \in UnitsOf(u, u.prv)) => v.buf[i] = u.buf[i]
<1>1. PICK w : w = Release(u, u.prv, u.prv + WrittenSize(u.buf[u.prv].rec))
  OBVIOUS
<1>2. w = [i \in Offsets |-> IF i \in UnitsOf(u, u.prv) THEN Freed ELSE u.buf[i]]
  BY <1>1 DEF Release, UnitsOf, End
<1>3. /\ u.prv \in Offsets /\ u.tail \in Offsets /\ u.top \in Offsets
      /\ u.buf \in [Offsets -> Cells] /\ u.buf[u.prv].prv \in Offsets
      /\ u.prv \in 0 .. BufSize
  BY BufferAssumption DEF Context, Cells, Offsets
<1>4. Freed \in Cells
  BY BufferAssumption DEF Freed, Unit, Cells, Offsets
<1>5. w \in [Offsets -> Cells]
  BY <1>2, <1>3, <1>4
<1>6. v = [head |-> u.prv, tail |-> u.tail,
           prv |-> IF u.prv = u.tail THEN u.prv ELSE u.buf[u.prv].prv,
           top |-> u.top, buf |-> w]
  BY <1>1 DEF Pop
<1>7. v \in Context
  BY <1>3, <1>5, <1>6 DEF Context
<1>8. /\ \A i \in Offsets : i \in UnitsOf(u, u.prv) => w[i] = Freed
      /\ \A i \in Offsets : ~(i \in UnitsOf(u, u.prv)) => w[i] = u.buf[i]
  BY <1>2
<1> QED BY <1>6, <1>7, <1>8

\* Lemma: the records before the newest stay as they are.
LEMMA RingPop ==
  ASSUME NEW u, NEW c, Ring(u, c), c # << >>, NEW n, n = Len(c), NEW v, v = Pop(u)
  PROVE  /\ Ring(v, Front(c)) /\ v.head = u.prv /\ u.prv = c[n]
         /\ \A k \in 1 .. n - 1 : v.buf[c[k]] = u.buf[c[k]]
<1>1. PICK m \in 1 .. n : Tiled(u, c, m) /\ Headed(u, c, m)
  BY DEF Ring
<1>2. /\ u \in Context /\ Linked(u, c) /\ Laid(u, c, m) /\ Filled(u, c)
      /\ n \in Nat /\ n >= 1 /\ c \in Seq(Offsets)
      /\ u.tail = c[1] /\ u.prv = c[n] /\ 1 \in 1 .. n /\ n \in 1 .. n
  <2>1. u \in Context /\ Linked(u, c) /\ Laid(u, c, m) /\ Filled(u, c)
    BY <1>1 DEF Tiled
  <2>2. c \in Seq(Offsets) /\ u.tail = c[1] /\ u.prv = c[n] /\ n >= 1
    BY <2>1 DEF Linked
  <2>3. n \in Nat
    BY <2>2
  <2>4. 1 \in 1 .. n /\ n \in 1 .. n
    BY <2>2, <2>3
  <2> QED BY <2>1, <2>2, <2>3, <2>4
<1>3. \A k \in 1 .. n : /\ c[k] \in Offsets /\ c[k] \in Nat /\ c[k] < BufSize
                        /\ End(u, c[k]) \in Nat /\ End(u, c[k]) > c[k]
                        /\ End(u, c[k]) <= BufSize /\ c[k] \in UnitsOf(u, c[k])
  BY <1>2, EndFacts, EndLimit
<1>4. \A k \in 1 .. n - 1 : /\ k \in 1 .. n /\ c[k] # c[n]
                            /\ End(u, c[k]) <= c[n] \/ End(u, c[n]) <= c[k]
  <2> TAKE k \in 1 .. n - 1
  <2>1. k \in 1 .. n /\ k < n
    BY <1>2
  <2> QED BY <1>2, <2>1, UnitsApart
<1>5. /\ v \in Context /\ v.head = c[n] /\ v.tail = c[1] /\ v.top = u.top
      /\ v.prv = IF c[n] = c[1] THEN c[n] ELSE u.buf[c[n]].prv
      /\ \A i \in Offsets : i \in UnitsOf(u, c[n]) => v.buf[i] = Freed
      /\ \A i \in Offsets : ~(i \in UnitsOf(u, c[n])) => v.buf[i] = u.buf[i]
  BY <1>2, PopFields
<1>6. ASSUME NEW k \in 1 .. n - 1, NEW i \in UnitsOf(u, c[k])
      PROVE  i \in Offsets /\ v.buf[i] = u.buf[i]
  <2>1. k \in 1 .. n /\ (End(u, c[k]) <= c[n] \/ End(u, c[n]) <= c[k])
    BY <1>4
  <2>2. i \in Int /\ i >= c[k] /\ i < End(u, c[k])
    BY <1>3, <1>6, <2>1 DEF UnitsOf
  <2>3. i \in Offsets
    BY <1>3, <2>1, <2>2, BufferAssumption DEF Offsets
  <2>4. ~(i \in UnitsOf(u, c[n]))
    <3> SUFFICES ASSUME i \in UnitsOf(u, c[n]) PROVE FALSE
      OBVIOUS
    <3>1. i >= c[n] /\ i < End(u, c[n])
      BY <1>2, <1>3 DEF UnitsOf
    <3> QED BY <1>2, <1>3, <2>1, <2>2, <3>1
  <2> QED BY <1>5, <2>3, <2>4
<1>7. ASSUME NEW k \in 1 .. n - 1
      PROVE  v.buf[c[k]] = u.buf[c[k]] /\ End(v, c[k]) = End(u, c[k])
  <2>1. k \in 1 .. n
    BY <1>4
  <2>2. v.buf[c[k]] = u.buf[c[k]]
    BY <1>3, <1>6, <2>1
  <2> QED BY <2>2 DEF End
<1>8. PICK f : f = Front(c)
  OBVIOUS
<1>9. f \in Seq(Offsets) /\ Len(f) = n - 1 /\ \A k \in 1 .. n - 1 : f[k] = c[k]
  BY <1>2, <1>8, FrontFacts
<1>10. ASSUME NEW i \in Offsets, v.buf[i] # Freed
       PROVE  \E k \in 1 .. n - 1 : i \in UnitsOf(v, c[k])
  <2>1. ~(i \in UnitsOf(u, c[n])) /\ u.buf[i] # Freed
    BY <1>5, <1>10
  <2>2. PICK k \in 1 .. n : i \in UnitsOf(u, c[k])
    BY <1>2, <2>1 DEF Filled
  <2>3. k \in 1 .. n - 1
    BY <1>2, <2>1, <2>2
  <2>4. UnitsOf(v, c[k]) = UnitsOf(u, c[k])
    BY <1>7, <2>3 DEF UnitsOf
  <2> QED BY <2>2, <2>3, <2>4
<1>11. CASE n = 1
  <2>1. f = << >>
    BY <1>9, <1>11
  <2>2. Empty(v)
    BY <1>5, <1>11 DEF Empty
  <2>3. \A i \in Offsets : v.buf[i] = Freed
    BY <1>10, <1>11
  <2>4. Ring(v, f)
    BY <1>5, <1>9, <2>1, <2>2, <2>3 DEF Ring
  <2> QED BY <1>2, <1>5, <1>7, <1>8, <2>4
<1>12. CASE n >= 2
  <2>1. /\ n - 1 \in 1 .. n - 1 /\ n - 1 \in 1 .. n /\ (n - 1) + 1 = n /\ n \in 2 .. n
        /\ 1 \in 1 .. n - 1 /\ n - 1 \in Nat
    BY <1>2, <1>12
  <2>2. c[1] # c[n]
    BY <1>4, <2>1
  <2>3. v.prv = c[n - 1]
    <3>1. u.buf[c[n]].prv = c[n - 1]
      BY <1>2, <2>1 DEF Linked
    <3> QED BY <1>5, <2>2, <3>1
  <2>4. PICK l : l = IF m = n THEN n - 1 ELSE m
    OBVIOUS
  <2>5. l \in 1 .. n - 1 /\ (m = n => l = n - 1) /\ (m # n => l = m)
    BY <1>2, <2>1, <2>4
  <2>6. c[n] = IF n - 1 = m THEN 0 ELSE End(u, c[n - 1])
    BY <1>2, <2>1 DEF Laid
  <2>7. Linked(v, f)
    <3>1. \A k \in 1 .. n - 1 : v.buf[f[k]].rec \in Records
      BY <1>2, <1>4, <1>7, <1>9 DEF Linked
    <3>2. ASSUME NEW k \in 2 .. n - 1 PROVE v.buf[f[k]].prv = f[k - 1]
      <4>1. k \in 2 .. n /\ k \in 1 .. n - 1 /\ k - 1 \in 1 .. n - 1
        BY <1>2
      <4>2. u.buf[c[k]].prv = c[k - 1]
        BY <1>2, <4>1 DEF Linked
      <4> QED BY <1>7, <1>9, <4>1, <4>2
    <3>3. v.tail = f[1] /\ v.prv = f[n - 1] /\ n - 1 >= 1
      BY <1>5, <1>9, <2>1, <2>3
    <3> QED BY <1>9, <3>1, <3>2, <3>3 DEF Linked
  <2>8. Laid(v, f, l)
    <3>1. ASSUME NEW k \in 1 .. (n - 1) - 1
          PROVE  f[k + 1] = IF k = l THEN 0 ELSE End(v, f[k])
      <4>1. /\ k \in 1 .. n - 1 /\ k + 1 \in 1 .. n - 1 /\ (k = l <=> k = m)
        BY <1>2, <2>5
      <4>2. c[k + 1] = IF k = m THEN 0 ELSE End(u, c[k])
        BY <1>2, <4>1 DEF Laid
      <4> QED BY <1>7, <1>9, <4>1, <4>2
    <3>2. ASSUME NEW i \in 1 .. n - 1, NEW j \in 1 .. n - 1, i < j, j <= l \/ i > l
          PROVE  End(v, f[i]) <= f[j]
      <4>1. i \in 1 .. n /\ j \in 1 .. n /\ (j <= m \/ i > m)
        BY <1>2, <2>5, <3>2
      <4>2. End(u, c[i]) <= c[j]
        BY <1>2, <3>2, <4>1 DEF Laid
      <4> QED BY <1>7, <1>9, <4>2
    <3>3. ASSUME NEW j \in 1 .. n - 1, j > l PROVE End(v, f[j]) <= f[1]
      <4>1. j \in 1 .. n /\ j > m
        BY <1>2, <2>5, <3>3
      <4>2. End(u, c[j]) <= c[1]
        BY <1>2, <4>1 DEF Laid
      <4> QED BY <1>7, <1>9, <2>1, <4>2
    <3>4. End(v, f[l]) <= BufSize
      <4>1. l \in 1 .. n
        BY <1>4, <2>5
      <4> QED BY <1>3, <1>7, <1>9, <2>5, <4>1
    <3> QED BY <1>9, <2>5, <3>1, <3>2, <3>3, <3>4 DEF Laid
  <2>9. Filled(v, f)
    <3>1. ASSUME NEW k \in 1 .. n - 1, NEW i \in UnitsOf(v, f[k]), i # f[k]
          PROVE  v.buf[i] = Body
      <4>1. k \in 1 .. n /\ i \in UnitsOf(u, c[k]) /\ i # c[k]
        BY <1>4, <1>7, <1>9, <3>1 DEF UnitsOf
      <4>2. u.buf[i] = Body
        BY <1>2, <4>1 DEF Filled
      <4> QED BY <1>6, <4>1, <4>2
    <3>2. \A i \in Offsets : v.buf[i] # Freed => \E k \in 1 .. n - 1 : i \in UnitsOf(v, f[k])
      BY <1>9, <1>10
    <3> QED BY <1>9, <3>1, <3>2 DEF Filled
  <2>10. Headed(v, f, l)
    <3>1. v.head # v.prv
      BY <1>4, <1>5, <2>1, <2>3
    <3>2. CASE m = n
      <4>1. l = n - 1 /\ n - 1 # m
        BY <1>2, <2>5, <3>2
      <4>2. v.head = End(v, f[l])
        BY <1>5, <1>7, <1>9, <2>1, <2>6, <4>1
      <4>3. v.top >= f[l]
        <5>1. u.top >= c[n]
          <6>1. Plain(u, c, m) => u.top >= c[m]
            BY DEF Plain
          <6>2. Wrapped(u, c, m) => u.top = c[m]
            BY DEF Wrapped
          <6>3. c[m] \in Nat /\ u.top \in Nat
            BY <1>2, <1>3 DEF Context, Offsets
          <6> QED BY <1>1, <3>2, <6>1, <6>2, <6>3 DEF Headed
        <5>2. u.top \in Nat
          BY <1>2 DEF Context, Offsets
        <5>3. End(u, c[n - 1]) = c[n] /\ End(u, c[n - 1]) > c[n - 1] /\ c[n - 1] \in Nat
          BY <1>3, <2>1, <2>6, <4>1
        <5>4. c[n] \in Nat /\ f[l] = c[n - 1]
          BY <1>2, <1>3, <1>9, <2>1, <4>1
        <5>5. u.top >= f[l]
          BY <5>1, <5>2, <5>3, <5>4
        <5> QED BY <1>5, <5>5
      <4>4. Plain(v, f, l)
        BY <1>9, <4>1, <4>2, <4>3 DEF Plain
      <4> QED BY <3>1, <4>4 DEF Headed
    <3>3. CASE m # n
      <4>1. l = m /\ f[l] = c[m]
        BY <1>9, <2>5, <3>3
      <4>2. u.top = c[m]
        <5>1. ~Plain(u, c, m)
          BY <3>3 DEF Plain
        <5> QED BY <1>1, <5>1 DEF Headed, Wrapped
      <4>3. v.head = IF l = n - 1 THEN 0 ELSE End(v, f[n - 1])
        BY <1>5, <1>7, <1>9, <2>1, <2>6, <4>1
      <4>4. Wrapped(v, f, l)
        BY <1>5, <1>9, <4>1, <4>2, <4>3 DEF Wrapped
      <4> QED BY <3>1, <4>4 DEF Headed
    <3> QED BY <3>2, <3>3
  <2>11. Tiled(v, f, l)
    BY <1>5, <2>7, <2>8, <2>9 DEF Tiled
  <2>12. f # << >>
    BY <1>9, <1>12, <1>2
  <2>13. Ring(v, f)
    BY <1>5, <1>9, <2>5, <2>10, <2>11, <2>12 DEF Ring
  <2> QED BY <1>2, <1>5, <1>7, <1>8, <2>13
<1> QED BY <1>2, <1>11, <1>12

-----------------------------------------------------------------------------
\* Walking back through the records.

\* The j newest of the records c, the newest first.
Newest(c, j) == [k \in 1 .. j |-> c[Len(c) + 1 - k]]

\* Lemma: the list of the newest records, and one more.
LEMMA NewestFacts ==
  ASSUME NEW S, NEW c \in Seq(S), NEW j \in 1 .. Len(c)
  PROVE  /\ Newest(c, j) \in Seq(S) /\ Len(Newest(c, j)) = j
         /\ Last(Newest(c, j)) = c[Len(c) + 1 - j]
         /\ j < Len(c) => Append(Newest(c, j), c[Len(c) - j]) = Newest(c, j + 1)
<1>1. PICK n \in Nat : n = Len(c)
  OBVIOUS
<1>2. \A k \in 1 .. n : n + 1 - k \in 1 .. n /\ c[n + 1 - k] \in S
  <2> TAKE k \in 1 .. n
  <2>1. n + 1 - k \in 1 .. n
    BY <1>1
  <2> QED BY <1>1, <2>1
<1>3. ASSUME NEW i \in 1 .. n PROVE Newest(c, i) \in Seq(S) /\ Len(Newest(c, i)) = i
  <2>1. \A k \in 1 .. i : k \in 1 .. n
    BY <1>1
  <2>2. i \in Nat /\ Newest(c, i) = [k \in 1 .. i |-> c[n + 1 - k]]
    BY <1>1 DEF Newest
  <2> QED BY <1>2, <2>1, <2>2
<1>4. PICK s : s = Newest(c, j)
  OBVIOUS
<1>5. /\ s \in Seq(S) /\ Len(s) = j /\ j \in Nat /\ j >= 1 /\ j <= n
      /\ \A k \in 1 .. j : s[k] = c[n + 1 - k]
  <2>1. s \in Seq(S) /\ Len(s) = j /\ j \in Nat /\ j >= 1 /\ j <= n
    BY <1>1, <1>3, <1>4
  <2>2. \A k \in 1 .. j : s[k] = c[n + 1 - k]
    BY <1>1, <1>4 DEF Newest
  <2> QED BY <2>1, <2>2
<1>6. Last(s) = c[n + 1 - j]
  <2>1. Last(s) = s[j] /\ j \in 1 .. j
    BY <1>5 DEF Last
  <2> QED BY <1>5, <2>1
<1>7. ASSUME j < n PROVE Append(s, c[n - j]) = Newest(c, j + 1)
  <2>1. j + 1 \in 1 .. n /\ n - j \in 1 .. n
    BY <1>5, <1>7
  <2>2. PICK t : t = Newest(c, j + 1)
    OBVIOUS
  <2>3. t \in Seq(S) /\ Len(t) = j + 1
    BY <1>3, <2>1, <2>2
  <2>4. \A k \in 1 .. j + 1 : t[k] = c[n + 1 - k]
    BY <1>1, <2>2 DEF Newest
  <2>5. c[n - j] \in S
    BY <1>1, <2>1
  <2>6. PICK r : r = Append(s, c[n - j])
    OBVIOUS
  <2>7. /\ r \in Seq(S) /\ Len(r) = j + 1 /\ r[j + 1] = c[n - j]
        /\ \A k \in 1 .. j : r[k] = s[k]
    BY <1>5, <2>5, <2>6, AppendFacts
  <2>8. ASSUME NEW k \in 1 .. j + 1 PROVE r[k] = t[k]
    <3>1. CASE k = j + 1
      <4>1. n + 1 - k = n - j
        BY <1>5, <3>1
      <4> QED BY <2>4, <2>7, <3>1, <4>1
    <3>2. CASE k # j + 1
      <4>1. k \in 1 .. j
        BY <1>5, <3>2
      <4> QED BY <1>5, <2>4, <2>7, <4>1
    <3> QED BY <3>1, <3>2
  <2>9. r = t
    BY <1>5, <2>3, <2>7, <2>8
  <2> QED BY <2>2, <2>6, <2>9
<1> QED BY <1>1, <1>4, <1>5, <1>6, <1>7

\* Lemma: what the ring says of the records, put together.
LEMMA RingFacts ==
  ASSUME NEW u, NEW c, Ring(u, c), c # << >>, NEW n, n = Len(c)
  PROVE  /\ c \in Seq(Offsets) /\ n \in Nat /\ n >= 1 /\ n <= BufSize /\ n \in 1 .. n
         /\ u \in Context /\ ~Empty(u) /\ u.prv = c[n] /\ u.tail = c[1]
         /\ \A k \in 1 .. n : c[k] \in Offsets /\ u.buf[c[k]].rec \in Records
         /\ \A k \in 2 .. n : u.buf[c[k]].prv = c[k - 1] /\ c[k] # c[1]
         /\ \A i, j \in 1 .. n : i # j => c[i] # c[j]
<1>1. PICK m \in 1 .. n : Tiled(u, c, m) /\ Headed(u, c, m)
  BY DEF Ring
<1>2. Linked(u, c) /\ Laid(u, c, m) /\ u \in Context
  BY <1>1 DEF Tiled
<1>3. c \in Seq(Offsets) /\ n >= 1 /\ u.prv = c[n] /\ u.tail = c[1]
      /\ \A k \in 1 .. n : u.buf[c[k]].rec \in Records
  BY <1>2 DEF Linked
<1>4. n \in Nat /\ n \in 1 .. n /\ \A k \in 1 .. n : c[k] \in Offsets
  BY <1>3
<1>5. \A i, j \in 1 .. n : i # j => c[i] # c[j]
  <2> SUFFICES ASSUME NEW i \in 1 .. n, NEW j \in 1 .. n, i # j PROVE c[i] # c[j]
    OBVIOUS
  <2>1. CASE i < j
    BY <1>2, <2>1, UnitsApart
  <2>2. CASE j < i
    BY <1>2, <2>2, UnitsApart
  <2> QED BY <1>4, <2>1, <2>2
<1>6. \A k \in 2 .. n : u.buf[c[k]].prv = c[k - 1] /\ c[k] # c[1]
  <2> TAKE k \in 2 .. n
  <2>1. k \in 1 .. n /\ 1 \in 1 .. n /\ k # 1
    BY <1>4
  <2>2. u.buf[c[k]].prv = c[k - 1]
    BY <1>2 DEF Linked
  <2> QED BY <1>5, <2>1, <2>2
<1>7. n <= BufSize
  BY <1>2, FewRecords
<1>8. ~Empty(u)
  BY <1>1 DEF Headed, Empty
<1> QED BY <1>2, <1>3, <1>4, <1>5, <1>6, <1>7, <1>8

\* Lemma: the back links lead through all records, from the newest to the oldest.
LEMMA WalkIs ==
  ASSUME NEW u, NEW c, Ring(u, c), c # << >>
  PROVE  Walk(u) = Newest(c, Len(c))
<1> DEFINE Step(w, i) == IF i = 0 THEN <<u.prv>>
                         ELSE LET s == w[i - 1]
                              IN  IF Last(s) = u.tail THEN s
                                  ELSE Append(s, u.buf[Last(s)].prv)
           Is(w) == w = [i \in 0 .. BufSize |-> Step(w, i)]
           W(i) == Newest(c, IF i < Len(c) THEN i + 1 ELSE Len(c))
           G == [i \in 0 .. BufSize |-> W(i)]
           F == CHOOSE w : Is(w)
<1>1. PICK n : n = Len(c)
  OBVIOUS
<1>2. /\ c \in Seq(Offsets) /\ n \in Nat /\ n >= 1 /\ n <= BufSize /\ n \in 1 .. n
      /\ ~Empty(u) /\ u.prv = c[n] /\ u.tail = c[1] /\ c[n] \in Offsets
      /\ \A k \in 2 .. n : u.buf[c[k]].prv = c[k - 1] /\ c[k] # c[1]
  BY <1>1, RingFacts
<1>3. W(0) = <<u.prv>>
  <2>1. 0 < Len(c) /\ 0 + 1 = 1 /\ 1 \in 1 .. n
    BY <1>1, <1>2
  <2>2. W(0) = Newest(c, 1)
    BY <2>1
  <2>3. Newest(c, 1) = <<c[n]>>
    <3>1. Newest(c, 1) = [k \in 1 .. 1 |-> c[n + 1 - k]]
      BY <1>1 DEF Newest
    <3>2. \A k \in 1 .. 1 : n + 1 - k = n
      BY <1>2
    <3>3. Newest(c, 1) = [k \in 1 .. 1 |-> c[n]]
      BY <3>1, <3>2
    <3> QED BY <3>3
  <2> QED BY <1>2, <2>2, <2>3
<1>4. ASSUME NEW i \in 1 .. BufSize
      PROVE  W(i) = IF Last(W(i - 1)) = u.tail THEN W(i - 1)
                    ELSE Append(W(i - 1), u.buf[Last(W(i - 1))].prv)
  <2>1. PICK s : s = W(i - 1)
    OBVIOUS
  <2>2. CASE i >= n
    <3>1. W(i) = Newest(c, n) /\ s = Newest(c, n)
      <4>1. ~(i < n) /\ (IF i - 1 < n THEN (i - 1) + 1 ELSE n) = n
        BY <1>2, <2>2
      <4> QED BY <1>1, <2>1, <4>1
    <3>2. Last(s) = c[n + 1 - n]
      BY <1>1, <1>2, <3>1, NewestFacts
    <3>3. n + 1 - n = 1
      BY <1>2
    <3>4. Last(s) = u.tail
      BY <1>2, <3>2, <3>3
    <3> HIDE DEF W
    <3> QED BY <2>1, <3>1, <3>4
  <2>3. CASE i < n
    <3>1. i \in 1 .. n /\ n + 1 - i \in 2 .. n /\ (n + 1 - i) - 1 = n - i
      BY <1>2, <2>3
    <3>2. W(i) = Newest(c, i + 1) /\ s = Newest(c, i)
      <4>1. i - 1 < n /\ (i - 1) + 1 = i
        BY <1>2, <2>3
      <4> QED BY <1>1, <2>1, <2>3, <4>1
    <3>3. Last(s) = c[n + 1 - i] /\ Append(s, c[n - i]) = Newest(c, i + 1)
      BY <1>1, <1>2, <2>3, <3>1, <3>2, NewestFacts, ZenonT(40)
    <3>4. Last(s) # u.tail /\ u.buf[Last(s)].prv = c[n - i]
      BY <1>2, <3>1, <3>3
    <3> HIDE DEF W
    <3> QED BY <2>1, <3>2, <3>3, <3>4
  <2> HIDE DEF W
  <2> QED BY <1>2, <2>2, <2>3
<1>5. BufSize \in Nat
  BY BufferAssumption
<1>6. Is(G)
  <2> HIDE DEF W
  <2>1. ASSUME NEW i \in 0 .. BufSize PROVE G[i] = Step(G, i)
    <3>1. CASE i = 0
      BY <1>3, <3>1
    <3>2. CASE i # 0
      <4>1. i \in 1 .. BufSize /\ i - 1 \in 0 .. BufSize
        BY <1>5, <3>2
      <4>2. G[i] = W(i) /\ G[i - 1] = W(i - 1)
        BY <4>1
      <4> HIDE DEF G
      <4> QED BY <1>4, <3>2, <4>1, <4>2
    <3> QED BY <3>1, <3>2
  <2>2. G = [i \in 0 .. BufSize |-> G[i]]
    OBVIOUS
  <2> HIDE DEF G, Step
  <2> QED BY <2>1, <2>2
<1>7. Is(F)
  BY <1>6
<1>8. Walk(u) = F[BufSize]
  BY <1>2 DEF Walk
<1> HIDE DEF F, G
<1>9. \A i \in 0 .. BufSize : F[i] = Step(F, i)
  BY <1>7
<1> HIDE DEF W, Is
<1> DEFINE H == {i \in 0 .. BufSize : F[i] = W(i)}
<1>10. 0 \in H
  BY <1>3, <1>5, <1>9
<1>11. ASSUME NEW k \in 0 .. (BufSize - 1), k \in H PROVE k + 1 \in H
  <2>1. k + 1 \in 1 .. BufSize /\ k + 1 \in 0 .. BufSize /\ (k + 1) - 1 = k /\ k + 1 # 0
    BY <1>5
  <2>2. F[k] = W(k)
    BY <1>11
  <2>3. F[k + 1] = Step(F, k + 1)
    BY <1>9, <2>1
  <2>4. F[k + 1] = IF Last(F[k]) = u.tail THEN F[k]
                   ELSE Append(F[k], u.buf[Last(F[k])].prv)
    BY <2>1, <2>3
  <2>5. W(k + 1) = IF Last(W(k)) = u.tail THEN W(k)
                   ELSE Append(W(k), u.buf[Last(W(k))].prv)
    BY <1>4, <2>1
  <2>6. F[k + 1] = W(k + 1)
    BY <2>2, <2>4, <2>5
  <2> QED BY <2>1, <2>6
<1> HIDE DEF H
<1>12. 0 .. BufSize \subseteq H
  BY <1>5, <1>10, <1>11, Nats!UpToInSet
<1>13. F[BufSize] = W(BufSize)
  BY <1>5, <1>12 DEF H
<1>14. W(BufSize) = Newest(c, Len(c))
  BY <1>1, <1>2, <1>5 DEF W
<1> QED BY <1>8, <1>13, <1>14

\* Lemma: the search ends at the newest marker, or at the oldest record.
LEMMA SearchIs ==
  ASSUME NEW u, NEW c, Ring(u, c), c # << >>
  PROVE  \E s \in 1 .. Len(c) :
           /\ Search(u) = c[s]
           /\ s = 1 \/ IsMarker(u, c[s])
           /\ \A k \in 1 .. Len(c) : k > s => ~IsMarker(u, c[k])
<1>1. PICK n : n = Len(c)
  OBVIOUS
<1>2. /\ c \in Seq(Offsets) /\ n \in Nat /\ n >= 1 /\ n <= BufSize /\ n \in 1 .. n
      /\ ~Empty(u) /\ u.prv = c[n] /\ u.tail = c[1] /\ c[n] \in Offsets
      /\ \A k \in 2 .. n : u.buf[c[k]].prv = c[k - 1] /\ c[k] # c[1]
  BY <1>1, RingFacts
<1>3. PICK s \in 1 .. n : /\ s = 1 \/ IsMarker(u, c[s])
                          /\ \A k \in 1 .. n : k > s => ~IsMarker(u, c[k])
  <2> DEFINE T == {j \in Nat : j < n /\ (n - j = 1 \/ IsMarker(u, c[n - j]))}
  <2>1. n - 1 \in T
    <3>1. n - 1 \in Nat /\ n - 1 < n /\ n - (n - 1) = 1
      BY <1>2
    <3> QED BY <3>1
  <2>2. PICK j \in T : \A i \in T : j <= i
    <3>1. T \in SUBSET Nat /\ T # {}
      BY <2>1
    <3> HIDE DEF T
    <3> QED BY <3>1, Nats!LeastNat
  <2>3. n - j \in 1 .. n /\ j \in Nat /\ (n - j = 1 \/ IsMarker(u, c[n - j]))
    BY <1>2
  <2>4. ASSUME NEW k \in 1 .. n, k > n - j, IsMarker(u, c[k]) PROVE FALSE
    <3>1. n - k \in Nat /\ n - k < n /\ n - (n - k) = k /\ n - k < j
      BY <1>2, <2>3, <2>4
    <3>2. n - k \in T
      BY <2>4, <3>1
    <3> QED BY <2>2, <2>3, <3>1, <3>2
  <2> QED BY <2>3, <2>4
<1> DEFINE Step(w, i) == IF i = 0 THEN u.prv
                         ELSE LET j == w[i - 1]
                              IN  IF IsMarker(u, j) \/ j = u.tail THEN j ELSE u.buf[j].prv
           Is(w) == w = [i \in 0 .. BufSize |-> Step(w, i)]
           W(i) == c[IF i <= n - s THEN n - i ELSE s]
           G == [i \in 0 .. BufSize |-> W(i)]
           F == CHOOSE w : Is(w)
<1>4. W(0) = u.prv
  <2>1. 0 <= n - s /\ n - 0 = n
    BY <1>2
  <2> QED BY <1>2, <2>1
<1>5. ASSUME NEW i \in 1 .. BufSize
      PROVE  W(i) = IF IsMarker(u, W(i - 1)) \/ W(i - 1) = u.tail THEN W(i - 1)
                    ELSE u.buf[W(i - 1)].prv
  <2>1. PICK j : j = W(i - 1)
    OBVIOUS
  <2>2. CASE i > n - s
    <3>1. W(i) = c[s] /\ j = c[s]
      <4>1. ~(i <= n - s) /\ (IF i - 1 <= n - s THEN n - (i - 1) ELSE s) = s
        BY <1>2, <2>2
      <4> QED BY <2>1, <4>1
    <3>2. IsMarker(u, j) \/ j = u.tail
      BY <1>2, <1>3, <3>1
    <3> HIDE DEF W
    <3> QED BY <2>1, <3>1, <3>2
  <2>3. CASE i <= n - s
    <3>1. /\ n - (i - 1) \in 2 .. n /\ n - (i - 1) \in 1 .. n /\ n - (i - 1) > s
          /\ (n - (i - 1)) - 1 = n - i /\ i - 1 <= n - s
      BY <1>2, <2>3
    <3>2. W(i) = c[n - i] /\ j = c[n - (i - 1)]
      BY <2>1, <2>3, <3>1
    <3>3. ~IsMarker(u, j) /\ j # u.tail /\ u.buf[j].prv = c[n - i]
      BY <1>2, <1>3, <3>1, <3>2
    <3> HIDE DEF W
    <3> QED BY <2>1, <3>2, <3>3
  <2> HIDE DEF W
  <2> QED BY <1>2, <2>2, <2>3
<1>6. BufSize \in Nat
  BY BufferAssumption
<1>7. Is(G)
  <2> HIDE DEF W
  <2>1. ASSUME NEW i \in 0 .. BufSize PROVE G[i] = Step(G, i)
    <3>1. CASE i = 0
      BY <1>4, <3>1
    <3>2. CASE i # 0
      <4>1. i \in 1 .. BufSize /\ i - 1 \in 0 .. BufSize
        BY <1>6, <3>2
      <4>2. G[i] = W(i) /\ G[i - 1] = W(i - 1)
        BY <4>1
      <4> HIDE DEF G
      <4> QED BY <1>5, <3>2, <4>1, <4>2
    <3> QED BY <3>1, <3>2
  <2>2. G = [i \in 0 .. BufSize |-> G[i]]
    OBVIOUS
  <2> HIDE DEF G, Step
  <2> QED BY <2>1, <2>2
<1>8. Is(F)
  BY <1>7
<1>9. Search(u) = F[BufSize]
  BY DEF Search
<1> HIDE DEF F, G
<1>10. \A i \in 0 .. BufSize : F[i] = Step(F, i)
  BY <1>8
<1> HIDE DEF W, Is
<1> DEFINE H == {i \in 0 .. BufSize : F[i] = W(i)}
<1>11. 0 \in H
  BY <1>4, <1>6, <1>10
<1>12. ASSUME NEW k \in 0 .. (BufSize - 1), k \in H PROVE k + 1 \in H
  <2>1. k + 1 \in 1 .. BufSize /\ k + 1 \in 0 .. BufSize /\ (k + 1) - 1 = k /\ k + 1 # 0
    BY <1>6
  <2>2. F[k] = W(k)
    BY <1>12
  <2>3. F[k + 1] = Step(F, k + 1)
    BY <1>10, <2>1
  <2>4. F[k + 1] = IF IsMarker(u, F[k]) \/ F[k] = u.tail THEN F[k] ELSE u.buf[F[k]].prv
    BY <2>1, <2>3
  <2>5. W(k + 1) = IF IsMarker(u, W(k)) \/ W(k) = u.tail THEN W(k) ELSE u.buf[W(k)].prv
    BY <1>5, <2>1
  <2>6. F[k + 1] = W(k + 1)
    BY <2>2, <2>4, <2>5
  <2> QED BY <2>1, <2>6
<1> HIDE DEF H
<1>13. 0 .. BufSize \subseteq H
  BY <1>6, <1>11, <1>12, Nats!UpToInSet
<1>14. F[BufSize] = W(BufSize)
  BY <1>6, <1>13 DEF H
<1>15. W(BufSize) = c[s]
  BY <1>2, <1>6 DEF W
<1>16. Search(u) = c[s]
  BY <1>9, <1>14, <1>15
<1> QED BY <1>1, <1>3, <1>16

\* Lemma: there is something to undo if there is a marker.
LEMMA OkIff ==
  ASSUME NEW u, NEW c, Ring(u, c)
  PROVE  objuok(u) <=> \E k \in 1 .. Len(c) : IsMarker(u, c[k])
<1>1. CASE c = << >>
  <2>1. Empty(u) /\ 1 .. Len(c) = {}
    BY <1>1 DEF Ring
  <2> QED BY <2>1 DEF objuok
<1>2. CASE c # << >>
  <2>1. PICK s \in 1 .. Len(c) :
           /\ Search(u) = c[s]
           /\ s = 1 \/ IsMarker(u, c[s])
           /\ \A k \in 1 .. Len(c) : k > s => ~IsMarker(u, c[k])
    BY <1>2, SearchIs
  <2>2. ~Empty(u)
    BY <1>2, RingFacts
  <2>3. ASSUME NEW k \in 1 .. Len(c), IsMarker(u, c[k]) PROVE IsMarker(u, Search(u))
    <3>1. k <= s
      BY <2>1, <2>3
    <3>2. s = 1 => k = 1
      BY <3>1
    <3> QED BY <2>1, <2>3, <3>2
  <2> QED BY <2>1, <2>2, <2>3 DEF objuok
<1> QED BY <1>1, <1>2

-----------------------------------------------------------------------------
\* Undoing what an operation did to the game.

\* The original value of an object is ignored exactly as long as there is
\* another; objects that do not exist have none.
Consistent ==
  {g \in Games : /\ \A o \in Originals : o \in g.ignored <=> g.val[o] # None
                 /\ \A o \in Objects \ g.live : g.val[o] = None}

\* Lemma: two games with the same parts are the same.
LEMMA SameGame ==
  ASSUME NEW a \in Games, NEW b \in Games, a.val = b.val, a.ignored = b.ignored,
         a.live = b.live, a.fuse = b.fuse, a.me = b.me
  PROVE  a = b
  BY DEF Games

\* An operation that turns the game g into k and writes rec is undone by rec.
Undone(g, k, rec) ==
  rec \in Records /\ rec.cmd # "SAV" /\ k \in Consistent /\ Revert(k, rec) = g

\* objsetp gives the object o the value v.
PropertySet(g, k, o, v, over, cmd) ==
  /\ over = (g.val[o] = None /\ o \in Originals)
  /\ cmd = IF over THEN "OVR" ELSE IF g.val[o] = None THEN "ADD" ELSE "CHG"
  /\ k.val = [g.val EXCEPT ![o] = v]
  /\ k.ignored = IF over THEN g.ignored \union {o} ELSE g.ignored
  /\ k.live = g.live /\ k.fuse = g.fuse /\ k.me = g.me

\* Lemma: the record of objsetp brings the former value back.
LEMMA PropertyBack ==
  ASSUME NEW g \in Consistent, NEW o \in Objects, o \in g.live, NEW v \in Vals, NEW over, NEW cmd,
         NEW k \in Games, PropertySet(g, k, o, v, over, cmd)
  PROVE  Undone(g, k, Property(cmd, o, g.val[o]))
<1>0. /\ over = (g.val[o] = None /\ o \in Originals)
      /\ cmd = IF over THEN "OVR" ELSE IF g.val[o] = None THEN "ADD" ELSE "CHG"
      /\ k.val = [g.val EXCEPT ![o] = v]
      /\ k.ignored = IF over THEN g.ignored \union {o} ELSE g.ignored
      /\ k.live = g.live /\ k.fuse = g.fuse /\ k.me = g.me
  BY DEF PropertySet
<1>1. /\ g \in Games
      /\ \A x \in Originals : x \in g.ignored <=> g.val[x] # None
      /\ \A x \in Objects \ g.live : g.val[x] = None
  BY DEF Consistent
<1>2. /\ g.val \in [Objects -> Vals \union {None}] /\ g.ignored \in SUBSET Originals
      /\ g.live \subseteq Objects /\ g.fuse \in [Slots -> Times \union {None}]
      /\ g.me \in People
  BY <1>1 DEF Games
<1>3. PICK w : w = [g.val EXCEPT ![o] = v]
  OBVIOUS
<1>4. PICK z : z = IF over THEN g.ignored \union {o} ELSE g.ignored
  OBVIOUS
<1>6. w \in [Objects -> Vals \union {None}] /\ z \in SUBSET Originals /\ v # None
  BY <1>0, <1>2, <1>3, <1>4, ObjectAssumption
<1>7. /\ k \in Games /\ k.val = w /\ k.ignored = z /\ k.live = g.live
      /\ k.fuse = g.fuse /\ k.me = g.me
  BY <1>0, <1>3, <1>4
<1>8. k \in Consistent
  <2>1. ASSUME NEW x \in Originals PROVE x \in z <=> w[x] # None
    <3>1. x \in Objects
      BY ObjectAssumption
    <3>2. CASE x = o
      BY <1>0, <1>1, <1>2, <1>3, <1>4, <1>6, <3>1, <3>2
    <3>3. CASE x # o
      BY <1>0, <1>1, <1>2, <1>3, <1>4, <3>1, <3>3
    <3> QED BY <3>2, <3>3
  <2>2. ASSUME NEW x \in Objects \ g.live PROVE w[x] = None
    BY <1>1, <1>2, <1>3
  <2> QED BY <1>7, <2>1, <2>2 DEF Consistent
<1>9. PICK rec : rec = Property(cmd, o, g.val[o])
  OBVIOUS
<1>10. rec.cmd = cmd /\ rec.obj = o /\ rec.val = g.val[o]
  BY <1>9 DEF Property
<1>11. rec \in Records /\ rec.cmd # "SAV"
  <2>1. cmd \in {"ADD", "OVR", "CHG"}
    BY <1>0
  <2>2. g.val[o] \in Vals \union {None}
    BY <1>2
  <2>3. rec \in [cmd : {"ADD", "OVR", "CHG"}, obj : Objects, val : Vals \union {None}]
    BY <1>9, <2>1, <2>2 DEF Property
  <2> QED BY <1>10, <2>1, <2>3 DEF Records
<1>12. w[o] = v /\ [w EXCEPT ![o] = g.val[o]] = g.val
  BY <1>2, <1>3
<1>13. [k EXCEPT !.val[o] = g.val[o]] = [k EXCEPT !.val = g.val]
  BY <1>7, <1>12 DEF Games
<1>14. PICK b : b = [k EXCEPT !.val = g.val]
  OBVIOUS
<1>15. /\ b \in Games /\ b.val = g.val /\ b.ignored = z /\ b.live = g.live
       /\ b.fuse = g.fuse /\ b.me = g.me
  <2>1. /\ b \in Games
        /\ b.val = g.val /\ b.ignored = k.ignored
        /\ b.live = k.live /\ b.fuse = k.fuse /\ b.me = k.me
    BY <1>2, <1>14 DEF Games
  <2> QED BY <1>7, <2>1
<1>16. CASE over
  <2>1. cmd = "OVR" /\ g.val[o] = None /\ o \in Originals /\ z = g.ignored \union {o}
    BY <1>0, <1>4, <1>16
  <2>2. objdelp(k, o) = b
    <3>1. k.val[o] # None
      BY <1>6, <1>7, <1>12
    <3>2. objdelp(k, o) = [k EXCEPT !.val[o] = None]
      BY <3>1 DEF objdelp
    <3> QED BY <1>13, <1>14, <2>1, <3>2
  <2>3. Revert(k, rec) = [b EXCEPT !.ignored = @ \ {o}]
    BY <1>10, <2>1, <2>2 DEF Revert
  <2>4. z \ {o} = g.ignored
    BY <1>1, <2>1
  <2>5. Revert(k, rec) = [b EXCEPT !.ignored = g.ignored]
    BY <1>15, <2>3, <2>4 DEF Games
  <2>6. Revert(k, rec) = g
    <3>1. PICK y : y = [b EXCEPT !.ignored = g.ignored]
      OBVIOUS
    <3>2. /\ y \in Games /\ y.val = g.val /\ y.ignored = g.ignored /\ y.live = g.live
          /\ y.fuse = g.fuse /\ y.me = g.me
      BY <1>2, <1>15, <3>1 DEF Games
    <3> QED BY <1>1, <2>5, <3>1, <3>2, SameGame
  <2> QED BY <1>8, <1>9, <1>11, <2>6 DEF Undone
<1>17. CASE ~over
  <2>1. z = g.ignored
    BY <1>4, <1>17
  <2>2. b = g
    BY <1>1, <1>15, <2>1, SameGame
  <2>3. CASE g.val[o] = None
    <3>1. cmd = "ADD"
      BY <1>0, <1>17, <2>3
    <3>2. k.val[o] # None
      BY <1>6, <1>7, <1>12
    <3>3. objdelp(k, o) = [k EXCEPT !.val[o] = None]
      BY <3>2 DEF objdelp
    <3>4. Revert(k, rec) = objdelp(k, o)
      BY <1>10, <3>1 DEF Revert
    <3>5. Revert(k, rec) = g
      BY <1>13, <1>14, <2>2, <2>3, <3>3, <3>4
    <3> QED BY <1>8, <1>9, <1>11, <3>5 DEF Undone
  <2>4. CASE g.val[o] # None
    <3>1. cmd = "CHG"
      BY <1>0, <1>17, <2>4
    <3>2. Revert(k, rec) = [k EXCEPT !.val[o] = g.val[o]]
      BY <1>10, <3>1 DEF Revert
    <3>3. Revert(k, rec) = g
      BY <1>13, <1>14, <2>2, <3>2
    <3> QED BY <1>8, <1>9, <1>11, <3>3 DEF Undone
  <2> QED BY <2>3, <2>4
<1> QED BY <1>16, <1>17

\* Lemma: the same of what objsetp makes of the game.
LEMMA UndoneProperty ==
  ASSUME NEW g \in Consistent, NEW o \in Objects, o \in g.live, NEW v \in Vals,
         NEW over, over = (g.val[o] = None /\ o \in Originals),
         NEW cmd, cmd = (IF over THEN "OVR" ELSE IF g.val[o] = None THEN "ADD" ELSE "CHG"),
         NEW k, k = [g EXCEPT !.val[o] = v,
                              !.ignored = IF over THEN @ \union {o} ELSE @]
  PROVE  Undone(g, k, Property(cmd, o, g.val[o]))
<1>1. g \in Games
  BY DEF Consistent
<1>2. g.val \in [Objects -> Vals \union {None}] /\ g.ignored \subseteq Originals
  BY <1>1 DEF Games
<1>3. PICK w : w = [g.val EXCEPT ![o] = v]
  OBVIOUS
<1>4. PICK z : z = IF over THEN g.ignored \union {o} ELSE g.ignored
  OBVIOUS
<1>5. k = [[g EXCEPT !.val = w] EXCEPT !.ignored = z]
  BY <1>1, <1>3, <1>4 DEF Games
<1>6. w \in [Objects -> Vals \union {None}] /\ z \in SUBSET Originals
  BY <1>2, <1>3, <1>4
<1>7. /\ k \in Games /\ k.val = w /\ k.ignored = z /\ k.live = g.live
      /\ k.fuse = g.fuse /\ k.me = g.me
  BY <1>1, <1>5, <1>6 DEF Games
<1>8. PropertySet(g, k, o, v, over, cmd)
  BY <1>3, <1>4, <1>7 DEF PropertySet
<1> QED BY <1>7, <1>8, PropertyBack

\* Lemma: the record of run_new.
LEMMA UndoneNew ==
  ASSUME NEW g \in Consistent, NEW o \in Dynamic, o \notin g.live,
         NEW k, k = [g EXCEPT !.live = @ \union {o}]
  PROVE  Undone(g, k, NewObject(o))
<1>1. /\ g \in Games /\ o \in Objects /\ o \notin Originals
      /\ \A x \in Originals : x \in g.ignored <=> g.val[x] # None
      /\ \A x \in Objects \ g.live : g.val[x] = None
  BY ObjectAssumption DEF Consistent
<1>2. /\ g.val \in [Objects -> Vals \union {None}] /\ g.live \in SUBSET Objects
      /\ g.live \union {o} \in SUBSET Objects
  BY <1>1 DEF Games
<1>3. k = [g EXCEPT !.live = g.live \union {o}]
  OBVIOUS
<1>4. /\ k \in Games /\ k.val = g.val /\ k.ignored = g.ignored /\ k.live = g.live \union {o}
      /\ k.fuse = g.fuse /\ k.me = g.me
  BY <1>1, <1>2, <1>3 DEF Games
<1>5. k \in Consistent
  BY <1>1, <1>4 DEF Consistent
<1>6. PICK rec : rec = NewObject(o)
  OBVIOUS
<1>7. rec \in Records /\ rec.cmd = "NEWOBJ" /\ rec.obj = o
  BY <1>6 DEF NewObject, Records
<1>8. Revert(k, rec) = [k EXCEPT !.live = @ \ {o}, !.val[o] = None]
  BY <1>7 DEF Revert
<1>9. PICK b : b = [k EXCEPT !.live = g.live]
  OBVIOUS
<1>10. b = g
  <2>1. /\ b \in Games /\ b.val = k.val /\ b.ignored = k.ignored
        /\ b.live = g.live /\ b.fuse = k.fuse /\ b.me = k.me
    BY <1>2, <1>4, <1>9 DEF Games
  <2> QED BY <1>1, <1>4, <2>1, SameGame
<1>11. k.live \ {o} = g.live
  BY <1>4
<1>12. [g.val EXCEPT ![o] = None] = g.val
  BY <1>1, <1>2
<1>13. Revert(k, rec) = [b EXCEPT !.val = [b.val EXCEPT ![o] = None]]
  <2>1. Revert(k, rec) = [[k EXCEPT !.live = k.live \ {o}] EXCEPT !.val[o] = None]
    BY <1>4, <1>8 DEF Games
  <2>2. Revert(k, rec) = [b EXCEPT !.val[o] = None]
    BY <1>9, <1>11, <2>1
  <2> QED BY <1>10, <2>2
<1>14. Revert(k, rec) = [g EXCEPT !.val = g.val]
  BY <1>10, <1>12, <1>13
<1>15. [g EXCEPT !.val = g.val] = g
  BY <1>1 DEF Games
<1> QED BY <1>5, <1>6, <1>7, <1>14, <1>15 DEF Undone

\* Lemma: the record of run_delete.
LEMMA UndoneDelete ==
  ASSUME NEW g \in Consistent, NEW o \in Dynamic, o \in g.live,
         NEW k, k = [g EXCEPT !.live = @ \ {o}, !.val[o] = None]
  PROVE  Undone(g, k, DeletedObject(o, g.val[o]))
<1>1. /\ g \in Games /\ o \in Objects /\ o \notin Originals
      /\ \A x \in Originals : x \in g.ignored <=> g.val[x] # None
      /\ \A x \in Objects \ g.live : g.val[x] = None
  BY ObjectAssumption DEF Consistent
<1>2. /\ g.val \in [Objects -> Vals \union {None}] /\ g.live \in SUBSET Objects
      /\ g.live \ {o} \in SUBSET Objects /\ g.val[o] \in Vals \union {None}
  BY <1>1 DEF Games
<1>3. PICK w : w = [g.val EXCEPT ![o] = None]
  OBVIOUS
<1>4. PICK l : l = g.live \ {o}
  OBVIOUS
<1>5. w \in [Objects -> Vals \union {None}] /\ l \in SUBSET Objects
  BY <1>2, <1>3, <1>4
<1>6. k = [[g EXCEPT !.live = l] EXCEPT !.val = w]
  BY <1>1, <1>3, <1>4 DEF Games
<1>7. /\ k \in Games /\ k.val = w /\ k.ignored = g.ignored /\ k.live = l
      /\ k.fuse = g.fuse /\ k.me = g.me
  <2>1. PICK y : y = [g EXCEPT !.live = l]
    OBVIOUS
  <2>2. /\ y \in Games /\ y.val = g.val /\ y.ignored = g.ignored /\ y.live = l
        /\ y.fuse = g.fuse /\ y.me = g.me
    BY <1>1, <1>5, <2>1 DEF Games
  <2>3. k = [y EXCEPT !.val = w]
    BY <1>6, <2>1
  <2>4. /\ k \in Games /\ k.val = w /\ k.ignored = y.ignored /\ k.live = y.live
        /\ k.fuse = y.fuse /\ k.me = y.me
    BY <1>5, <2>2, <2>3 DEF Games
  <2> QED BY <2>2, <2>4
<1>8. k \in Consistent
  <2>1. ASSUME NEW x \in Originals PROVE x \in g.ignored <=> w[x] # None
    <3>1. x # o /\ x \in Objects
      BY <1>1, ObjectAssumption
    <3> QED BY <1>1, <1>2, <1>3, <3>1
  <2>2. ASSUME NEW x \in Objects \ l PROVE w[x] = None
    BY <1>1, <1>2, <1>3, <1>4
  <2> QED BY <1>7, <2>1, <2>2 DEF Consistent
<1>9. PICK rec : rec = DeletedObject(o, g.val[o])
  OBVIOUS
<1>10. rec \in Records /\ rec.cmd = "DELOBJ" /\ rec.obj = o /\ rec.val = g.val[o]
  BY <1>2, <1>9 DEF DeletedObject, Records
<1>11. Revert(k, rec) = [k EXCEPT !.live = @ \union {o}, !.val[o] = g.val[o]]
  BY <1>10 DEF Revert
<1>12. l \union {o} = g.live /\ [w EXCEPT ![o] = g.val[o]] = g.val
  BY <1>2, <1>3, <1>4
<1>13. PICK y : y = [k EXCEPT !.live = g.live]
  OBVIOUS
<1>14. /\ y \in Games /\ y.val = w /\ y.ignored = g.ignored /\ y.live = g.live
       /\ y.fuse = g.fuse /\ y.me = g.me
  <2>1. /\ y \in Games /\ y.val = k.val /\ y.ignored = k.ignored /\ y.live = g.live
        /\ y.fuse = k.fuse /\ y.me = k.me
    BY <1>2, <1>7, <1>13 DEF Games
  <2> QED BY <1>7, <2>1
<1>15. Revert(k, rec) = [y EXCEPT !.val = g.val]
  <2>1. Revert(k, rec) = [[k EXCEPT !.live = k.live \union {o}] EXCEPT !.val[o] = g.val[o]]
    BY <1>7, <1>11 DEF Games
  <2>2. Revert(k, rec) = [y EXCEPT !.val[o] = g.val[o]]
    BY <1>7, <1>12, <1>13, <2>1
  <2>3. [y EXCEPT !.val[o] = g.val[o]] = [y EXCEPT !.val = [y.val EXCEPT ![o] = g.val[o]]]
    BY <1>14 DEF Games
  <2> QED BY <1>12, <1>14, <2>2, <2>3
<1>16. [y EXCEPT !.val = g.val] = g
  <2>1. PICK z : z = [y EXCEPT !.val = g.val]
    OBVIOUS
  <2>2. /\ z \in Games /\ z.val = g.val /\ z.ignored = y.ignored /\ z.live = y.live
        /\ z.fuse = y.fuse /\ z.me = y.me
    BY <1>2, <1>14, <2>1 DEF Games
  <2>3. z = g
    BY <1>1, <1>14, <2>2, SameGame
  <2> QED BY <2>1, <2>3
<1> QED BY <1>8, <1>9, <1>10, <1>15, <1>16 DEF Undone

\* Lemma: the record of a fuse.
LEMMA UndoneFuse ==
  ASSUME NEW g \in Consistent, NEW f \in Slots, NEW t \in Times \union {None},
         NEW k, k = [g EXCEPT !.fuse[f] = t]
  PROVE  Undone(g, k, FuseSlot(f, g.fuse[f]))
<1>1. /\ g \in Games
      /\ \A x \in Originals : x \in g.ignored <=> g.val[x] # None
      /\ \A x \in Objects \ g.live : g.val[x] = None
  BY DEF Consistent
<1>2. g.fuse \in [Slots -> Times \union {None}] /\ g.fuse[f] \in Times \union {None}
  BY <1>1 DEF Games
<1>3. PICK w : w = [g.fuse EXCEPT ![f] = t]
  OBVIOUS
<1>4. w \in [Slots -> Times \union {None}] /\ [w EXCEPT ![f] = g.fuse[f]] = g.fuse
  BY <1>2, <1>3
<1>5. k = [g EXCEPT !.fuse = w]
  BY <1>1, <1>3 DEF Games
<1>6. /\ k \in Games /\ k.val = g.val /\ k.ignored = g.ignored /\ k.live = g.live
      /\ k.fuse = w /\ k.me = g.me
  BY <1>1, <1>4, <1>5 DEF Games
<1>7. k \in Consistent
  BY <1>1, <1>6 DEF Consistent
<1>8. PICK rec : rec = FuseSlot(f, g.fuse[f])
  OBVIOUS
<1>9. rec \in Records /\ rec.cmd = "FUSE" /\ rec.slot = f /\ rec.time = g.fuse[f]
  BY <1>2, <1>8 DEF FuseSlot, Records
<1>10. Revert(k, rec) = [k EXCEPT !.fuse[f] = g.fuse[f]]
  BY <1>9 DEF Revert
<1>11. [k EXCEPT !.fuse[f] = g.fuse[f]] = [k EXCEPT !.fuse = g.fuse]
  BY <1>4, <1>6 DEF Games
<1>12. [k EXCEPT !.fuse = g.fuse] = g
  <2>1. PICK z : z = [k EXCEPT !.fuse = g.fuse]
    OBVIOUS
  <2>2. /\ z \in Games /\ z.val = k.val /\ z.ignored = k.ignored /\ z.live = k.live
        /\ z.fuse = g.fuse /\ z.me = k.me
    BY <1>2, <1>6, <2>1 DEF Games
  <2>3. z = g
    BY <1>1, <1>6, <2>2, SameGame
  <2> QED BY <2>1, <2>3
<1> QED BY <1>7, <1>8, <1>9, <1>10, <1>11, <1>12 DEF Undone

\* Lemma: a marker undoes nothing.
LEMMA MarkerFacts == Marker \in Records /\ \A g, r : r.cmd = "SAV" => Revert(g, r) = g
  BY DEF Marker, Records, Revert

-----------------------------------------------------------------------------
\* The savepoints and the records between them.

Savepoint == [at : Offsets, game : Consistent]

\* p says where the markers of the savepoints sv are among the records c, and
\* h[k] is the game when c[k] was the newest record: since the oldest savepoint
\* each record takes one game back to the one before.
Placed(u, c, p, sv) ==
  /\ sv \in Seq(Savepoint) /\ p \in [1 .. Len(sv) -> 1 .. Len(c)]
  /\ \A i, j \in 1 .. Len(sv) : i < j => p[i] < p[j]
  /\ \A i \in 1 .. Len(sv) : sv[i].at = c[p[i]] /\ IsMarker(u, c[p[i]])
  /\ \A k \in 1 .. Len(c) : IsMarker(u, c[k]) => \E i \in 1 .. Len(sv) : p[i] = k

Played(u, c, p, h, sv, g) ==
  /\ h \in [0 .. Len(c) -> Consistent] /\ h[Len(c)] = g
  /\ \A i \in 1 .. Len(sv) : h[p[i]] = sv[i].game
  /\ \A k \in 1 .. Len(c), i \in 1 .. Len(sv) :
       p[i] < k => h[k - 1] = Revert(h[k], u.buf[c[k]].rec)

Good(u, c, p, h, sv, g) == Ring(u, c) /\ Placed(u, c, p, sv) /\ Played(u, c, p, h, sv, g)

\* Lemma: the savepoints whose markers come behind the first d records.
LEMMA Threshold ==
  ASSUME NEW q \in Nat, NEW n \in Nat, NEW p \in [1 .. q -> 1 .. n], NEW d \in Nat,
         \A i, j \in 1 .. q : i < j => p[i] < p[j]
  PROVE  \E j \in 0 .. q : \A i \in 1 .. q : i > j <=> p[i] > d
<1> DEFINE T == {i \in Nat : i >= 1 /\ (i = q + 1 \/ (i <= q /\ p[i] > d))}
<1>1. q + 1 \in T
  OBVIOUS
<1>2. PICK m \in T : \A i \in T : m <= i
  <2>1. T \in SUBSET Nat /\ T # {}
    BY <1>1
  <2> HIDE DEF T
  <2> QED BY <2>1, Nats!LeastNat
<1>3. m \in Nat /\ m >= 1 /\ (m = q + 1 \/ (m <= q /\ p[m] > d)) /\ m <= q + 1
  BY <1>1, <1>2
<1>4. ASSUME NEW i \in 1 .. q, p[i] > d PROVE i >= m
  <2>1. i \in T
    BY <1>4
  <2> QED BY <1>2, <2>1
<1> HIDE DEF T
<1>5. ASSUME NEW i \in 1 .. q, i >= m PROVE p[i] > d
  <2>1. m \in 1 .. q /\ p[m] > d
    BY <1>3, <1>5
  <2>2. i = m \/ p[m] < p[i]
    BY <1>5, <2>1
  <2>3. p[m] \in Nat /\ p[i] \in Nat
    BY <2>1
  <2> QED BY <2>1, <2>2, <2>3
<1>6. m - 1 \in 0 .. q /\ \A i \in 1 .. q : i > m - 1 <=> i >= m
  BY <1>3
<1> QED BY <1>4, <1>5, <1>6

\* The savepoints left, with the new one if the record is a marker.
Since(sv, j, rec, at, k) ==
  IF rec.cmd = "SAV" THEN Append(Rest(sv, j), [at |-> at, game |-> k]) ELSE Rest(sv, j)

SinceIs(t, sv, j, rec, at, k, q) ==
  /\ t \in Seq(Savepoint) /\ q \in Nat
  /\ Len(t) = IF rec.cmd = "SAV" THEN q + 1 ELSE q
  /\ \A i \in 1 .. q : t[i] = sv[j + i]
  /\ rec.cmd = "SAV" => t[q + 1].at = at /\ t[q + 1].game = k

\* Lemma: the elements of Since.
LEMMA SinceFacts ==
  ASSUME NEW sv \in Seq(Savepoint), NEW j \in 0 .. Len(sv), NEW rec, NEW at \in Offsets,
         NEW k \in Consistent, NEW t, t = Since(sv, j, rec, at, k), NEW q, q = Len(sv) - j
  PROVE  SinceIs(t, sv, j, rec, at, k, q)
<1>1. PICK s : s = Rest(sv, j)
  OBVIOUS
<1>2. /\ s \in Seq(Savepoint) /\ Len(s) = q /\ q \in Nat
      /\ \A i \in 1 .. q : s[i] = sv[j + i]
  <2>1. /\ s \in Seq(Savepoint) /\ Len(s) = Len(sv) - j
        /\ \A i \in 1 .. Len(sv) - j : s[i] = sv[j + i]
    BY <1>1, RestFacts
  <2>2. Len(s) \in Nat
    BY <2>1
  <2> QED BY <2>1, <2>2
<1>3. CASE rec.cmd = "SAV"
  <2>1. PICK z : z = [at |-> at, game |-> k]
    OBVIOUS
  <2>2. z \in Savepoint /\ z.at = at /\ z.game = k
    BY <2>1 DEF Savepoint
  <2>3. t = Append(s, z)
    BY <1>1, <1>3, <2>1 DEF Since
  <2>4. /\ t \in Seq(Savepoint) /\ Len(t) = q + 1 /\ t[q + 1] = z
        /\ \A i \in 1 .. q : t[i] = s[i]
    BY <1>2, <2>2, <2>3, AppendFacts
  <2> QED BY <1>2, <1>3, <2>2, <2>4 DEF SinceIs
<1>4. CASE rec.cmd # "SAV"
  <2>1. t = s
    BY <1>1, <1>4 DEF Since
  <2> QED BY <1>2, <1>4, <2>1 DEF SinceIs
<1> QED BY <1>3, <1>4

\* Lemma: a new record, and the savepoints it leaves.
LEMMA GoodAppend ==
  ASSUME NEW u, NEW c, NEW p, NEW h, NEW sv, NEW g, Good(u, c, p, h, sv, g),
         NEW rec \in Records, NEW k \in Consistent, Revert(k, rec) = g,
         NEW v, v = objures(u, rec)
  PROVE  /\ v.prv \in Offsets
         /\ \E j \in 0 .. Len(sv) : \E c1, p1, h1 : Good(v, c1, p1, h1, Since(sv, j, rec, v.prv, k), k)
<1>1. PICK n : n = Len(c)
  OBVIOUS
<1>2. PICK q : q = Len(sv)
  OBVIOUS
<1>3. /\ Ring(u, c) /\ c \in Seq(Offsets) /\ n \in Nat
      /\ sv \in Seq(Savepoint) /\ p \in [1 .. q -> 1 .. n] /\ q \in Nat
      /\ \A i, j \in 1 .. q : i < j => p[i] < p[j]
      /\ h \in [0 .. n -> Consistent] /\ h[n] = g
  <2>1. Ring(u, c) /\ Placed(u, c, p, sv) /\ Played(u, c, p, h, sv, g)
    BY DEF Good
  <2>2. c \in Seq(Offsets) /\ n \in Nat
    BY <1>1, <2>1 DEF Ring
  <2>3. /\ sv \in Seq(Savepoint) /\ p \in [1 .. q -> 1 .. n]
        /\ \A i, j \in 1 .. q : i < j => p[i] < p[j]
    BY <1>1, <1>2, <2>1 DEF Placed
  <2>4. q \in Nat
    BY <1>2, <2>3
  <2>5. h \in [0 .. n -> Consistent] /\ h[n] = g
    BY <1>1, <2>1 DEF Played
  <2> QED BY <2>1, <2>2, <2>3, <2>4, <2>5
<1>4. /\ \A i \in 1 .. q : sv[i].at = c[p[i]] /\ IsMarker(u, c[p[i]]) /\ h[p[i]] = sv[i].game
      /\ \A i \in 1 .. n : IsMarker(u, c[i]) => \E j \in 1 .. q : p[j] = i
      /\ \A l \in 1 .. n, i \in 1 .. q :
           p[i] < l => h[l - 1] = Revert(h[l], u.buf[c[l]].rec)
  BY <1>1, <1>2 DEF Good, Placed, Played
<1>5. PICK d \in 0 .. n : /\ Ring(v, Append(Rest(c, d), v.prv))
                          /\ Kept(u, v, c, d)
                          /\ v.buf[v.prv].rec = rec
  BY <1>1, <1>3, RingAppend
<1>6. PICK a : a = n - d
  OBVIOUS
<1>7. a \in Nat /\ d \in Nat /\ a + d = n /\ a + 1 \in 1 .. a + 1 /\ (a + 1) - 1 = a
  BY <1>3, <1>6
<1>8. PICK e : e = Append(Rest(c, d), v.prv)
  OBVIOUS
<1>9. v.prv \in Offsets
  BY <1>5 DEF Ring, Context
<1>10. /\ Len(e) = a + 1 /\ e[a + 1] = v.prv
       /\ \A i \in 1 .. a : e[i] = c[d + i] /\ v.buf[e[i]] = u.buf[c[d + i]] /\ d + i \in 1 .. n
  <2>1. PICK s : s = Rest(c, d)
    OBVIOUS
  <2>2. s \in Seq(Offsets) /\ Len(s) = a /\ \A i \in 1 .. a : s[i] = c[d + i]
    BY <1>1, <1>3, <1>6, <2>1, RestFacts
  <2>3. Len(e) = a + 1 /\ e[a + 1] = v.prv /\ \A i \in 1 .. a : e[i] = s[i]
    BY <1>8, <1>9, <2>1, <2>2, AppendFacts
  <2>4. ASSUME NEW i \in 1 .. a PROVE v.buf[c[d + i]] = u.buf[c[d + i]] /\ d + i \in 1 .. n
    <3>1. d + i \in d + 1 .. n /\ d + i \in 1 .. n
      BY <1>7
    <3> QED BY <1>1, <1>5, <3>1 DEF Kept
  <2> QED BY <2>2, <2>3, <2>4
<1>11. PICK j \in 0 .. q : \A i \in 1 .. q : i > j <=> p[i] > d
  BY <1>3, <1>7, Threshold
<1>12. PICK t : t = Since(sv, j, rec, v.prv, k)
  OBVIOUS
<1>13. PICK r : r = q - j
  OBVIOUS
<1>14. /\ t \in Seq(Savepoint) /\ r \in Nat
       /\ Len(t) = IF rec.cmd = "SAV" THEN r + 1 ELSE r
       /\ \A i \in 1 .. r : t[i] = sv[j + i]
       /\ rec.cmd = "SAV" => t[r + 1].at = v.prv /\ t[r + 1].game = k
  <2>1. j \in 0 .. Len(sv) /\ r = Len(sv) - j
    BY <1>2, <1>11, <1>13
  <2>2. SinceIs(t, sv, j, rec, v.prv, k, r)
    BY <1>3, <1>9, <1>12, <2>1, SinceFacts
  <2> QED BY <2>2 DEF SinceIs
<1>15. PICK l : l = Len(t)
  OBVIOUS
<1>16. /\ l \in Nat /\ j \in Nat /\ (rec.cmd = "SAV" => l = r + 1) /\ (rec.cmd # "SAV" => l = r)
       /\ \A i \in 1 .. l : i \in 1 .. r \/ (rec.cmd = "SAV" /\ i = r + 1)
       /\ \A i \in 1 .. r : i \in 1 .. l /\ j + i \in 1 .. q /\ j + i > j
       /\ r + 1 \notin 1 .. r
  BY <1>3, <1>13, <1>14, <1>15
<1>17. ASSUME NEW i \in 1 .. r
       PROVE  p[j + i] - d \in 1 .. a /\ p[j + i] \in 1 .. n /\ d + (p[j + i] - d) = p[j + i]
  <2>1. j + i \in 1 .. q /\ p[j + i] > d
    BY <1>11, <1>16
  <2>2. p[j + i] \in 1 .. n
    BY <1>3, <2>1
  <2> QED BY <1>7, <2>1, <2>2
<1>18. PICK f : f = [i \in 1 .. l |-> IF i \in 1 .. r THEN p[j + i] - d ELSE a + 1]
  OBVIOUS
<1>19. /\ \A i \in 1 .. r : f[i] = p[j + i] - d
       /\ rec.cmd = "SAV" => f[r + 1] = a + 1 /\ r + 1 \in 1 .. l
       /\ f = [i \in 1 .. l |-> f[i]]
  <2>1. \A i \in 1 .. r : f[i] = p[j + i] - d
    BY <1>16, <1>18
  <2>2. rec.cmd = "SAV" => f[r + 1] = a + 1 /\ r + 1 \in 1 .. l
    BY <1>14, <1>16, <1>18
  <2> QED BY <1>18, <2>1, <2>2
<1>20. f \in [1 .. l -> 1 .. a + 1]
  <2>1. ASSUME NEW i \in 1 .. l PROVE f[i] \in 1 .. a + 1
    <3>1. CASE i \in 1 .. r
      <4>1. f[i] \in 1 .. a
        BY <1>17, <1>19, <3>1
      <4> QED BY <1>7, <4>1
    <3>2. CASE rec.cmd = "SAV" /\ i = r + 1
      BY <1>7, <1>19, <3>2
    <3> QED BY <1>16, <3>1, <3>2
  <2> QED BY <1>19, <2>1
<1>21. Placed(v, e, f, t)
  <2>1. ASSUME NEW i \in 1 .. l, NEW m \in 1 .. l, i < m PROVE f[i] < f[m]
    <3>1. i \in 1 .. r
      BY <1>14, <1>16, <2>1
    <3>2. CASE m \in 1 .. r
      <4>1. j + i \in 1 .. q /\ j + m \in 1 .. q /\ j + i < j + m
        BY <1>16, <2>1, <3>1, <3>2
      <4>2. p[j + i] < p[j + m] /\ p[j + i] \in 1 .. n /\ p[j + m] \in 1 .. n
        BY <1>3, <4>1
      <4>3. p[j + i] - d < p[j + m] - d
        BY <1>7, <4>2
      <4> QED BY <1>19, <3>1, <3>2, <4>3
    <3>3. CASE rec.cmd = "SAV" /\ m = r + 1
      <4>1. f[i] \in 1 .. a /\ f[m] = a + 1
        BY <1>17, <1>19, <3>1, <3>3
      <4> QED BY <1>7, <4>1
    <3> QED BY <1>16, <3>2, <3>3
  <2>2. ASSUME NEW i \in 1 .. l PROVE t[i].at = e[f[i]] /\ IsMarker(v, e[f[i]])
    <3>1. CASE i \in 1 .. r
      <4>1. f[i] \in 1 .. a /\ d + f[i] = p[j + i]
        BY <1>17, <1>19, <3>1
      <4>2. e[f[i]] = c[p[j + i]] /\ v.buf[e[f[i]]] = u.buf[c[p[j + i]]]
        BY <1>10, <4>1
      <4>3. t[i] = sv[j + i] /\ j + i \in 1 .. q
        BY <1>14, <1>16, <3>1
      <4> QED BY <1>4, <4>2, <4>3 DEF IsMarker
    <3>2. CASE rec.cmd = "SAV" /\ i = r + 1
      <4>1. f[i] = a + 1 /\ t[i].at = v.prv
        BY <1>14, <1>19, <3>2
      <4> QED BY <1>5, <1>10, <3>2, <4>1 DEF IsMarker
    <3> QED BY <1>16, <3>1, <3>2
  <2>3. ASSUME NEW i \in 1 .. a + 1, IsMarker(v, e[i]) PROVE \E m \in 1 .. l : f[m] = i
    <3>1. CASE i = a + 1
      <4>1. rec.cmd = "SAV"
        BY <1>5, <1>10, <2>3, <3>1 DEF IsMarker
      <4> QED BY <1>19, <3>1, <4>1
    <3>2. CASE i # a + 1
      <4>1. i \in 1 .. a
        BY <1>7, <3>2
      <4>2. d + i \in 1 .. n /\ IsMarker(u, c[d + i])
        BY <1>10, <2>3, <4>1 DEF IsMarker
      <4>3. PICK m \in 1 .. q : p[m] = d + i
        BY <1>4, <4>2
      <4>4. m > j
        BY <1>7, <1>11, <4>1, <4>3
      <4>5. m - j \in 1 .. r /\ j + (m - j) = m
        BY <1>3, <1>13, <1>16, <4>4
      <4>6. f[m - j] = (d + i) - d /\ m - j \in 1 .. l
        BY <1>16, <1>19, <4>3, <4>5
      <4>7. (d + i) - d = i
        BY <1>7
      <4> QED BY <4>6, <4>7
    <3> QED BY <3>1, <3>2
  <2> QED BY <1>10, <1>14, <1>15, <1>20, <2>1, <2>2, <2>3 DEF Placed
<1>22. PICK y : y = [i \in 0 .. a + 1 |-> IF i = a + 1 THEN k ELSE h[d + i]]
  OBVIOUS
<1>23. /\ y \in [0 .. a + 1 -> Consistent] /\ y[a + 1] = k
       /\ \A i \in 0 .. a : y[i] = h[d + i]
  <2>1. \A i \in 0 .. a : d + i \in 0 .. n /\ i \in 0 .. a + 1 /\ i # a + 1
    BY <1>7
  <2>2. a + 1 \in 0 .. a + 1 /\ \A i \in 0 .. a + 1 : i # a + 1 => i \in 0 .. a
    BY <1>7
  <2> QED BY <1>3, <1>22, <2>1, <2>2
<1>24. Played(v, e, f, y, t, k)
  <2>1. ASSUME NEW i \in 1 .. l PROVE y[f[i]] = t[i].game
    <3>1. CASE i \in 1 .. r
      <4>1. f[i] \in 0 .. a /\ d + f[i] = p[j + i]
        <5>1. f[i] \in 1 .. a /\ d + f[i] = p[j + i]
          BY <1>17, <1>19, <3>1
        <5> QED BY <1>7, <5>1
      <4>2. t[i] = sv[j + i] /\ j + i \in 1 .. q
        BY <1>14, <1>16, <3>1
      <4> QED BY <1>4, <1>23, <4>1, <4>2
    <3>2. CASE rec.cmd = "SAV" /\ i = r + 1
      BY <1>14, <1>19, <1>23, <3>2
    <3> QED BY <1>16, <3>1, <3>2
  <2>2. ASSUME NEW x \in 1 .. a + 1, NEW i \in 1 .. l, f[i] < x
        PROVE  y[x - 1] = Revert(y[x], v.buf[e[x]].rec)
    <3>1. CASE x = a + 1
      <4>1. x - 1 = a /\ a \in 0 .. a /\ d + a = n
        BY <1>7, <3>1
      <4>2. y[x - 1] = g
        BY <1>3, <1>23, <4>1
      <4>3. y[x] = k /\ v.buf[e[x]].rec = rec
        BY <1>5, <1>10, <1>23, <3>1
      <4> QED BY <4>2, <4>3
    <3>2. CASE x # a + 1
      <4>1. /\ x \in 1 .. a /\ x \in 0 .. a /\ x - 1 \in 0 .. a /\ d + x \in 1 .. n
            /\ d + (x - 1) = (d + x) - 1
        BY <1>7, <3>2
      <4>2. i \in 1 .. r
        <5>1. f[i] # a + 1
          BY <1>7, <2>2, <4>1
        <5> QED BY <1>16, <1>19, <5>1
      <4>3. j + i \in 1 .. q /\ p[j + i] < d + x
        <5>1. f[i] = p[j + i] - d /\ p[j + i] \in 1 .. n
          BY <1>17, <1>19, <4>2
        <5> QED BY <1>7, <1>16, <2>2, <4>1, <4>2, <5>1
      <4>4. h[(d + x) - 1] = Revert(h[d + x], u.buf[c[d + x]].rec)
        BY <1>4, <4>1, <4>3
      <4> QED BY <1>10, <1>23, <4>1, <4>4
    <3> QED BY <3>1, <3>2
  <2> QED BY <1>10, <1>15, <1>23, <2>1, <2>2 DEF Played
<1>25. Good(v, e, f, y, t, k)
  BY <1>5, <1>8, <1>21, <1>24 DEF Good
<1> QED BY <1>2, <1>9, <1>12, <1>25

-----------------------------------------------------------------------------
\* The savepoints sv can be brought back with the buffer u, from the game g.
Hist(u, sv, g) == \E c, p, h : Good(u, c, p, h, sv, g)

\* Lemma: a new record.
LEMMA HistAppend ==
  ASSUME NEW u, NEW sv, NEW g, Hist(u, sv, g),
         NEW rec \in Records, NEW k \in Consistent, Revert(k, rec) = g,
         NEW v, v = objures(u, rec)
  PROVE  /\ v.prv \in Offsets
         /\ \E j \in 0 .. Len(sv) : Hist(v, Since(sv, j, rec, v.prv, k), k)
<1>1. PICK c, p, h : Good(u, c, p, h, sv, g)
  BY DEF Hist
<1>2. /\ v.prv \in Offsets
      /\ \E j \in 0 .. Len(sv) : \E c1, p1, h1 : Good(v, c1, p1, h1, Since(sv, j, rec, v.prv, k), k)
  BY <1>1, GoodAppend
<1> QED BY <1>2 DEF Hist

\* Lemma: the search finds the newest savepoint, if there is one.
LEMMA HistSearch ==
  ASSUME NEW u, NEW sv, NEW g, Hist(u, sv, g)
  PROVE  /\ objuok(u) <=> Len(sv) >= 1
         /\ objuok(u) => Search(u) = sv[Len(sv)].at /\ Search(u) \in Offsets
<1>1. PICK c, p, h : Good(u, c, p, h, sv, g)
  BY DEF Hist
<1>2. PICK q : q = Len(sv)
  OBVIOUS
<1>3. PICK n : n = Len(c)
  OBVIOUS
<1>4. /\ Ring(u, c) /\ c \in Seq(Offsets) /\ n \in Nat
      /\ sv \in Seq(Savepoint) /\ p \in [1 .. q -> 1 .. n]
      /\ \A i, j \in 1 .. q : i < j => p[i] < p[j]
      /\ \A i \in 1 .. q : sv[i].at = c[p[i]] /\ IsMarker(u, c[p[i]])
      /\ \A i \in 1 .. n : IsMarker(u, c[i]) => \E j \in 1 .. q : p[j] = i
  <2>1. Ring(u, c)
    BY <1>1 DEF Good
  <2>2. c \in Seq(Offsets) /\ n \in Nat
    BY <1>3, <2>1 DEF Ring
  <2> QED BY <1>1, <1>2, <1>3, <2>1, <2>2 DEF Good, Placed
<1>5. q \in Nat
  BY <1>2, <1>4
<1>6. objuok(u) <=> \E k \in 1 .. n : IsMarker(u, c[k])
  BY <1>3, <1>4, OkIff
<1>7. CASE q = 0
  BY <1>2, <1>4, <1>6, <1>7
<1>8. CASE q >= 1
  <2>1. q \in 1 .. q /\ p[q] \in 1 .. n
    BY <1>4, <1>5, <1>8
  <2>2. objuok(u)
    BY <1>4, <1>6, <2>1
  <2>3. c # << >>
    BY <1>3, <1>4, <2>1
  <2>4. PICK s \in 1 .. n :
           /\ Search(u) = c[s]
           /\ s = 1 \/ IsMarker(u, c[s])
           /\ \A k \in 1 .. n : k > s => ~IsMarker(u, c[k])
    BY <1>3, <1>4, <2>3, SearchIs
  <2>5. p[q] <= s
    BY <1>4, <2>1, <2>4
  <2>6. IsMarker(u, c[s])
    <3>1. s = 1 => p[q] = s
      BY <1>4, <2>1, <2>4, <2>5
    <3> QED BY <1>4, <2>1, <2>4, <3>1
  <2>7. PICK j \in 1 .. q : p[j] = s
    BY <1>4, <2>6
  <2>8. j = q
    <3>1. j < q => p[j] < p[q]
      BY <1>4, <2>1
    <3> QED BY <1>4, <1>5, <2>1, <2>5, <2>7, <3>1
  <2>9. c[s] \in Offsets
    BY <1>3, <1>4, <2>4
  <2>10. p[q] = s
    BY <2>7, <2>8
  <2>11. sv[q].at = c[s]
    BY <1>4, <2>1, <2>10
  <2>12. Search(u) = sv[q].at /\ Search(u) \in Offsets
    BY <2>4, <2>9, <2>11
  <2> QED BY <1>2, <1>8, <2>2, <2>12
<1> QED BY <1>5, <1>7, <1>8

\* Lemma: without a savepoint nothing of the game is promised.
LEMMA HistFree ==
  ASSUME NEW u, NEW sv, NEW g, Hist(u, sv, g), ~objuok(u), NEW k \in Consistent
  PROVE  Hist(u, sv, k) /\ sv \in Seq(Savepoint)
<1>1. PICK c, p, h : Good(u, c, p, h, sv, g)
  BY DEF Hist
<1>2. Ring(u, c) /\ Placed(u, c, p, sv) /\ sv \in Seq(Savepoint) /\ Len(c) \in Nat
  BY <1>1 DEF Good, Placed, Ring
<1>3. Len(sv) = 0
  <2>1. ~(Len(sv) >= 1)
    BY HistSearch
  <2> QED BY <1>2, <2>1
<1>4. PICK y : y = [i \in 0 .. Len(c) |-> k]
  OBVIOUS
<1>5. y \in [0 .. Len(c) -> Consistent] /\ y[Len(c)] = k
  BY <1>2, <1>4
<1>6. Played(u, c, p, y, sv, k)
  BY <1>3, <1>5 DEF Played
<1> QED BY <1>1, <1>2, <1>6 DEF Good, Hist

\* Lemma: a record that is written if there is a savepoint.
LEMMA HistRecord ==
  ASSUME NEW u, NEW sv, NEW g, Hist(u, sv, g), NEW k, NEW rec, Undone(g, k, rec)
  PROVE  /\ \E j \in 0 .. Len(sv) : Hist(objures(u, rec), Rest(sv, j), k)
         /\ \E j \in 0 .. Len(sv) : Hist(Record(u, rec), Rest(sv, j), k)
<1>1. rec \in Records /\ rec.cmd # "SAV" /\ k \in Consistent /\ Revert(k, rec) = g
  BY DEF Undone
<1>2. PICK j \in 0 .. Len(sv) :
        Hist(objures(u, rec), Since(sv, j, rec, objures(u, rec).prv, k), k)
  BY <1>1, HistAppend
<1>3. Hist(objures(u, rec), Rest(sv, j), k)
  BY <1>1, <1>2 DEF Since
<1>4. CASE objuok(u)
  BY <1>3, <1>4 DEF Record
<1>5. CASE ~objuok(u)
  <2>1. Hist(u, sv, k) /\ sv \in Seq(Savepoint)
    BY <1>1, <1>5, HistFree
  <2>2. Rest(sv, 0) = sv /\ 0 \in 0 .. Len(sv)
    BY <2>1 DEF Rest
  <2>3. Record(u, rec) = u
    BY <1>5 DEF Record
  <2> QED BY <1>3, <2>1, <2>2, <2>3
<1> QED BY <1>3, <1>4, <1>5

\* Lemma: the markers in the buffer are those of the savepoints.
LEMMA HistMarks ==
  ASSUME NEW u, NEW sv, NEW g, Hist(u, sv, g)
  PROVE  /\ sv \in Seq(Savepoint) /\ g \in Consistent /\ u \in Context
         /\ \A i, j \in 1 .. Len(sv) : i # j => sv[i].at # sv[j].at
         /\ \A x : x \in Markers(u) <=> \E i \in 1 .. Len(sv) : x = sv[i].at
<1>1. PICK c, p, h : Good(u, c, p, h, sv, g)
  BY DEF Hist
<1>2. PICK q : q = Len(sv)
  OBVIOUS
<1>3. PICK n : n = Len(c)
  OBVIOUS
<1>4. /\ Ring(u, c) /\ c \in Seq(Offsets) /\ n \in Nat
      /\ sv \in Seq(Savepoint) /\ p \in [1 .. q -> 1 .. n]
      /\ \A i, j \in 1 .. q : i < j => p[i] < p[j]
      /\ \A i \in 1 .. q : sv[i].at = c[p[i]] /\ IsMarker(u, c[p[i]])
      /\ \A i \in 1 .. n : IsMarker(u, c[i]) => \E j \in 1 .. q : p[j] = i
  <2>1. Ring(u, c)
    BY <1>1 DEF Good
  <2>2. c \in Seq(Offsets) /\ n \in Nat
    BY <1>3, <2>1 DEF Ring
  <2> QED BY <1>1, <1>2, <1>3, <2>1, <2>2 DEF Good, Placed
<1>5. g \in Consistent /\ u \in Context
  <2>1. h \in [0 .. n -> Consistent] /\ h[n] = g /\ n \in 0 .. n
    BY <1>1, <1>3, <1>4 DEF Good, Played
  <2> QED BY <1>4, <2>1 DEF Ring
<1>6. \A i, j \in 1 .. q : i # j => p[i] # p[j] /\ p[i] \in 1 .. n /\ p[j] \in 1 .. n
  <2> TAKE i, j \in 1 .. q
  <2> HAVE i # j
  <2>1. i < j \/ j < i
    OBVIOUS
  <2>2. p[i] \in 1 .. n /\ p[j] \in 1 .. n
    BY <1>4
  <2> QED BY <1>4, <2>1, <2>2
<1>7. \A i, j \in 1 .. q : i # j => sv[i].at # sv[j].at
  <2> TAKE i, j \in 1 .. q
  <2> HAVE i # j
  <2>1. p[i] # p[j] /\ p[i] \in 1 .. n /\ p[j] \in 1 .. n
    BY <1>6
  <2>2. c # << >>
    BY <1>3, <1>4, <2>1
  <2>3. \A k, l \in 1 .. n : k # l => c[k] # c[l]
    BY <1>3, <1>4, <2>2, RingFacts
  <2> QED BY <1>4, <2>1, <2>3
<1>8. ASSUME NEW x, x \in Markers(u) PROVE \E i \in 1 .. q : x = sv[i].at
  <2>1. x \in Offsets /\ u.buf[x].rec.cmd = "SAV"
    BY <1>8 DEF Markers, IsMarker
  <2>2. u.buf[x] # Freed /\ u.buf[x] # Body
    BY <2>1 DEF Freed, Body, Unit
  <2>3. c # << >>
    BY <1>4, <2>1, <2>2 DEF Ring
  <2>4. PICK m \in 1 .. n : Tiled(u, c, m) /\ Headed(u, c, m)
    BY <1>3, <1>4, <2>3 DEF Ring
  <2>5. PICK k \in 1 .. n : x \in UnitsOf(u, c[k])
    BY <1>3, <2>1, <2>2, <2>4 DEF Tiled, Filled
  <2>6. x = c[k]
    BY <1>3, <2>2, <2>4, <2>5 DEF Tiled, Filled
  <2>7. IsMarker(u, c[k])
    BY <2>1, <2>6 DEF IsMarker
  <2>8. PICK i \in 1 .. q : p[i] = k
    BY <1>4, <2>7
  <2> QED BY <1>4, <2>6, <2>8
<1>9. ASSUME NEW i \in 1 .. q PROVE sv[i].at \in Markers(u)
  <2>1. sv[i].at = c[p[i]] /\ IsMarker(u, c[p[i]]) /\ p[i] \in 1 .. n
    BY <1>4
  <2>2. c[p[i]] \in Offsets
    BY <1>3, <1>4, <2>1
  <2> QED BY <2>1, <2>2 DEF Markers
<1>10. \A x : x \in Markers(u) <=> \E i \in 1 .. q : x = sv[i].at
  BY <1>8, <1>9, Zenon
<1>11. q = Len(sv)
  BY <1>2
<1> QED BY <1>4, <1>5, <1>7, <1>10, <1>11, Zenon

\* Lemma: the newest record is undone; if it is a marker, the game is that of
\* the newest savepoint.
LEMMA HistPop ==
  ASSUME NEW u, NEW sv, NEW g, Hist(u, sv, g), Len(sv) >= 1, NEW v, v = Pop(u),
         NEW k, k = Revert(g, u.buf[u.prv].rec)
  PROVE  /\ v.head = u.prv
         /\ IsMarker(u, u.prv) => /\ Hist(v, Front(sv), k) /\ u.prv = sv[Len(sv)].at
                                  /\ k = sv[Len(sv)].game
         /\ ~IsMarker(u, u.prv) => Hist(v, sv, k) /\ u.prv # sv[Len(sv)].at
<1>1. PICK c, p, h : Good(u, c, p, h, sv, g)
  BY DEF Hist
<1>2. PICK q : q = Len(sv)
  OBVIOUS
<1>3. PICK n : n = Len(c)
  OBVIOUS
<1>4. /\ Ring(u, c) /\ c \in Seq(Offsets) /\ n \in Nat
      /\ sv \in Seq(Savepoint) /\ p \in [1 .. q -> 1 .. n]
      /\ \A i, j \in 1 .. q : i < j => p[i] < p[j]
      /\ \A i \in 1 .. q : sv[i].at = c[p[i]] /\ IsMarker(u, c[p[i]])
      /\ \A i \in 1 .. n : IsMarker(u, c[i]) => \E j \in 1 .. q : p[j] = i
  <2>1. Ring(u, c)
    BY <1>1 DEF Good
  <2>2. c \in Seq(Offsets) /\ n \in Nat
    BY <1>3, <2>1 DEF Ring
  <2> QED BY <1>1, <1>2, <1>3, <2>1, <2>2 DEF Good, Placed
<1>5. /\ h \in [0 .. n -> Consistent] /\ h[n] = g
      /\ \A i \in 1 .. q : h[p[i]] = sv[i].game
      /\ \A l \in 1 .. n, i \in 1 .. q :
           p[i] < l => h[l - 1] = Revert(h[l], u.buf[c[l]].rec)
  BY <1>1, <1>2, <1>3 DEF Good, Played
<1>6. q \in Nat /\ q >= 1 /\ q \in 1 .. q /\ p[q] \in 1 .. n /\ n >= 1 /\ n \in 1 .. n
  <2>1. q \in Nat /\ q >= 1 /\ q \in 1 .. q
    BY <1>2, <1>4
  <2>2. p[q] \in 1 .. n
    BY <1>4, <2>1
  <2> QED BY <1>4, <2>1, <2>2
<1>7. c # << >>
  BY <1>3, <1>4, <1>6
<1>8. PICK e : e = Front(c)
  OBVIOUS
<1>9. /\ Ring(v, e) /\ v.head = u.prv /\ u.prv = c[n]
      /\ \A i \in 1 .. n - 1 : v.buf[c[i]] = u.buf[c[i]]
  BY <1>3, <1>4, <1>7, <1>8, RingPop
<1>10. Len(e) = n - 1 /\ \A i \in 1 .. n - 1 : e[i] = c[i] /\ i \in 1 .. n
  BY <1>3, <1>4, <1>6, <1>8, FrontFacts
<1>11. \A i, j \in 1 .. n : i # j => c[i] # c[j]
  BY <1>3, <1>4, <1>7, RingFacts
<1>12. ASSUME NEW i \in 1 .. n - 1 PROVE v.buf[e[i]] = u.buf[c[i]] /\ i \in 1 .. n
  BY <1>9, <1>10
<1>13. /\ n - 1 \in 0 .. n - 1 /\ n - 1 \in 0 .. n
       /\ \A i \in 0 .. n - 1 : i \in 0 .. n
  BY <1>6
<1>14. CASE IsMarker(u, u.prv)
  <2>1. p[q] = n
    <3>1. PICK i \in 1 .. q : p[i] = n
      BY <1>4, <1>6, <1>9, <1>14
    <3>2. i < q => p[i] < p[q]
      BY <1>4, <1>6
    <3> QED BY <1>4, <1>6, <3>1, <3>2
  <2>2. k = g /\ k = sv[q].game /\ u.prv = sv[q].at
    <3>1. k = g
      BY <1>14, MarkerFacts DEF IsMarker
    <3> QED BY <1>4, <1>5, <1>6, <1>9, <2>1, <3>1
  <2>3. PICK t : t = Front(sv)
    OBVIOUS
  <2>4. /\ t \in Seq(Savepoint) /\ Len(t) = q - 1 /\ \A i \in 1 .. q - 1 : t[i] = sv[i]
        /\ \A i \in 1 .. q - 1 : i \in 1 .. q /\ i < q
    <3>1. t \in Seq(Savepoint) /\ Len(t) = q - 1 /\ \A i \in 1 .. q - 1 : t[i] = sv[i]
      BY <1>2, <1>4, <1>6, <2>3, FrontFacts
    <3> QED BY <1>6, <3>1
  <2>5. PICK f : f = [i \in 1 .. q - 1 |-> p[i]]
    OBVIOUS
  <2>6. \A i \in 1 .. q - 1 : f[i] = p[i] /\ p[i] \in 1 .. n - 1
    <3> TAKE i \in 1 .. q - 1
    <3>1. i \in 1 .. q /\ i < q
      BY <2>4
    <3>2. p[i] < p[q] /\ p[i] \in 1 .. n
      BY <1>4, <1>6, <3>1
    <3> QED BY <1>6, <2>1, <2>5, <3>2
  <2>7. Placed(v, e, f, t)
    <3>1. f \in [1 .. q - 1 -> 1 .. n - 1]
      BY <2>5, <2>6
    <3>2. \A i, j \in 1 .. q - 1 : i < j => f[i] < f[j]
      BY <1>4, <2>4, <2>6
    <3>3. ASSUME NEW i \in 1 .. q - 1 PROVE t[i].at = e[f[i]] /\ IsMarker(v, e[f[i]])
      <4>1. f[i] = p[i] /\ p[i] \in 1 .. n - 1 /\ t[i] = sv[i] /\ i \in 1 .. q
        BY <2>4, <2>6
      <4>2. e[f[i]] = c[p[i]] /\ v.buf[e[f[i]]] = u.buf[c[p[i]]]
        BY <1>10, <1>12, <4>1
      <4> QED BY <1>4, <4>1, <4>2 DEF IsMarker
    <3>4. ASSUME NEW i \in 1 .. n - 1, IsMarker(v, e[i]) PROVE \E j \in 1 .. q - 1 : f[j] = i
      <4>1. IsMarker(u, c[i]) /\ i \in 1 .. n /\ i # n
        BY <1>6, <1>12, <3>4 DEF IsMarker
      <4>2. PICK j \in 1 .. q : p[j] = i
        BY <1>4, <4>1
      <4>3. j \in 1 .. q - 1
        BY <1>6, <2>1, <4>1, <4>2
      <4> QED BY <2>6, <4>2, <4>3
    <3> QED BY <1>10, <2>4, <3>1, <3>2, <3>3, <3>4 DEF Placed
  <2>8. PICK y : y = [i \in 0 .. n - 1 |-> IF i = n - 1 THEN k ELSE h[i]]
    OBVIOUS
  <2>9. k \in Consistent
    BY <1>5, <1>6, <2>2
  <2>10. /\ y \in [0 .. n - 1 -> Consistent] /\ y[n - 1] = k
         /\ \A i \in 0 .. n - 1 : i # n - 1 => y[i] = h[i]
    BY <1>5, <1>13, <2>8, <2>9
  <2>11. q > 1 => h[n - 1] = k
    <3> SUFFICES ASSUME q > 1 PROVE h[n - 1] = k
      OBVIOUS
    <3>1. 1 \in 1 .. q /\ p[1] < n
      BY <1>4, <1>6, <2>1
    <3>2. h[n - 1] = Revert(h[n], u.buf[c[n]].rec)
      BY <1>5, <1>6, <3>1
    <3> QED BY <1>5, <1>9, <3>2
  <2>12. Played(v, e, f, y, t, k)
    <3>1. ASSUME NEW i \in 1 .. q - 1 PROVE y[f[i]] = t[i].game
      <4>1. f[i] = p[i] /\ p[i] \in 0 .. n - 1 /\ t[i] = sv[i] /\ i \in 1 .. q /\ q > 1
        BY <1>6, <2>4, <2>6
      <4>2. y[p[i]] = h[p[i]]
        BY <2>10, <2>11, <4>1
      <4> QED BY <1>5, <4>1, <4>2
    <3>2. ASSUME NEW x \in 1 .. n - 1, NEW i \in 1 .. q - 1, f[i] < x
          PROVE  y[x - 1] = Revert(y[x], v.buf[e[x]].rec)
      <4>1. p[i] < x /\ i \in 1 .. q /\ q > 1 /\ x \in 1 .. n /\ x \in 0 .. n - 1
            /\ x - 1 \in 0 .. n - 1 /\ x - 1 # n - 1
        BY <1>6, <2>6, <3>2
      <4>2. h[x - 1] = Revert(h[x], u.buf[c[x]].rec)
        BY <1>5, <4>1
      <4>3. y[x - 1] = h[x - 1] /\ y[x] = h[x]
        BY <2>10, <2>11, <4>1
      <4> QED BY <1>12, <4>2, <4>3
    <3> QED BY <1>10, <2>4, <2>10, <3>1, <3>2 DEF Played
  <2>13. Hist(v, t, k)
    BY <1>9, <2>7, <2>12 DEF Good, Hist
  <2> QED BY <1>2, <1>9, <1>14, <2>2, <2>3, <2>13
<1>15. CASE ~IsMarker(u, u.prv)
  <2>1. \A i \in 1 .. q : p[i] \in 1 .. n - 1 /\ p[i] # n
    <3> TAKE i \in 1 .. q
    <3>1. p[i] # n /\ p[i] \in 1 .. n
      BY <1>4, <1>9, <1>15
    <3> QED BY <1>6, <3>1
  <2>2. u.prv # sv[q].at
    BY <1>4, <1>6, <1>9, <1>11, <2>1
  <2>3. k = h[n - 1]
    <3>1. p[q] < n
      BY <1>6, <2>1
    <3> QED BY <1>5, <1>6, <1>9, <3>1
  <2>4. PICK y : y = [i \in 0 .. n - 1 |-> h[i]]
    OBVIOUS
  <2>5. y \in [0 .. n - 1 -> Consistent] /\ y[n - 1] = k /\ \A i \in 0 .. n - 1 : y[i] = h[i]
    BY <1>5, <1>13, <2>3, <2>4
  <2>6. Placed(v, e, p, sv)
    <3>1. p \in [1 .. q -> 1 .. n - 1]
      BY <1>4, <2>1
    <3>2. ASSUME NEW i \in 1 .. q PROVE sv[i].at = e[p[i]] /\ IsMarker(v, e[p[i]])
      <4>1. p[i] \in 1 .. n - 1
        BY <2>1
      <4>2. e[p[i]] = c[p[i]] /\ v.buf[e[p[i]]] = u.buf[c[p[i]]]
        BY <1>10, <1>12, <4>1
      <4> QED BY <1>4, <4>2 DEF IsMarker
    <3>3. ASSUME NEW i \in 1 .. n - 1, IsMarker(v, e[i]) PROVE \E j \in 1 .. q : p[j] = i
      <4>1. IsMarker(u, c[i]) /\ i \in 1 .. n
        BY <1>12, <3>3 DEF IsMarker
      <4> QED BY <1>4, <4>1
    <3> QED BY <1>2, <1>4, <1>10, <3>1, <3>2, <3>3 DEF Placed
  <2>7. Played(v, e, p, y, sv, k)
    <3>1. ASSUME NEW i \in 1 .. q PROVE y[p[i]] = sv[i].game
      <4>1. p[i] \in 0 .. n - 1
        BY <1>6, <2>1
      <4> QED BY <1>5, <2>5, <4>1
    <3>2. ASSUME NEW x \in 1 .. n - 1, NEW i \in 1 .. q, p[i] < x
          PROVE  y[x - 1] = Revert(y[x], v.buf[e[x]].rec)
      <4>1. x \in 1 .. n /\ x \in 0 .. n - 1 /\ x - 1 \in 0 .. n - 1
        BY <1>6
      <4>2. h[x - 1] = Revert(h[x], u.buf[c[x]].rec)
        BY <1>5, <3>2, <4>1
      <4> QED BY <1>12, <2>5, <4>1, <4>2
    <3> QED BY <1>2, <1>10, <2>5, <3>1, <3>2 DEF Played
  <2>8. Hist(v, sv, k)
    BY <1>9, <2>6, <2>7 DEF Good, Hist
  <2> QED BY <1>2, <1>9, <1>15, <2>2, <2>8
<1> QED BY <1>14, <1>15

-----------------------------------------------------------------------------
\* Lemma: a game starts with everything in order.
LEMMA NewGameFacts == NewGame \in Consistent
<1>1. /\ NewGame.val = [o \in Objects |-> None]
      /\ NewGame.live = Objects \ Dynamic /\ NewGame.fuse = [f \in Slots |-> None]
      /\ \A o : o \notin NewGame.ignored
  BY DEF NewGame
<1>2. NewGame.me \in People
  BY ObjectAssumption DEF NewGame
<1>3. NewGame \in Games
  BY <1>1, <1>2 DEF NewGame, Games
<1>4. Originals \subseteq Objects
  BY ObjectAssumption
<1> QED BY <1>1, <1>3, <1>4 DEF Consistent

\* Lemma: the empty buffer has no savepoints.
LEMMA HistEmpty ==
  ASSUME NEW k \in Consistent
  PROVE  Hist(NoUndo, << >>, k) /\ Markers(NoUndo) = {}
<1>1. PICK c : c = << >>
  OBVIOUS
<1>2. c \in Seq(Offsets) /\ Len(c) = 0
  BY <1>1
<1>3. Ring(NoUndo, c)
  BY <1>1, <1>2, NoUndoFacts DEF Ring, Empty
<1>4. PICK sv : sv = << >>
  OBVIOUS
<1>5. sv \in Seq(Savepoint) /\ Len(sv) = 0
  BY <1>4
<1>6. PICK p : p = [i \in 1 .. 0 |-> 0]
  OBVIOUS
<1>7. p \in [1 .. 0 -> 1 .. 0]
  BY <1>6
<1>8. Placed(NoUndo, c, p, sv)
  BY <1>2, <1>5, <1>7 DEF Placed
<1>9. PICK h : h = [i \in 0 .. 0 |-> k]
  OBVIOUS
<1>10. h \in [0 .. 0 -> Consistent] /\ h[0] = k
  BY <1>9
<1>11. Played(NoUndo, c, p, h, sv, k)
  BY <1>2, <1>5, <1>10 DEF Played
<1>12. Hist(NoUndo, sv, k)
  BY <1>3, <1>8, <1>11 DEF Good, Hist
<1>13. Markers(NoUndo) = {}
  BY NoUndoFacts DEF Markers, IsMarker, Freed, Unit
<1> QED BY <1>4, <1>12, <1>13

\* Lemma: dropping savepoints twice.
LEMMA RestRest ==
  ASSUME NEW S, NEW s \in Seq(S), NEW i \in 0 .. Len(s), NEW j \in 0 .. Len(s) - i
  PROVE  Rest(Rest(s, i), j) = Rest(s, i + j) /\ i + j \in 0 .. Len(s)
<1>1. PICK n \in Nat : n = Len(s)
  OBVIOUS
<1>2. i \in Nat /\ j \in Nat /\ i <= n /\ j <= n - i /\ n - i \in Nat /\ i + j \in 0 .. n
  BY <1>1
<1>3. PICK a : a = Rest(s, i)
  OBVIOUS
<1>4. a \in Seq(S) /\ Len(a) = n - i /\ \A k \in 1 .. n - i : a[k] = s[i + k]
  BY <1>1, <1>2, <1>3, RestFacts
<1>5. PICK b : b = Rest(a, j)
  OBVIOUS
<1>6. /\ b \in Seq(S) /\ Len(b) = (n - i) - j
      /\ \A k \in 1 .. (n - i) - j : b[k] = a[j + k]
  <2>1. a \in Seq(S) /\ j \in 0 .. Len(a)
    BY <1>2, <1>4
  <2>2. /\ Rest(a, j) \in Seq(S) /\ Len(Rest(a, j)) = Len(a) - j
        /\ \A k \in 1 .. Len(a) - j : Rest(a, j)[k] = a[j + k]
    BY <2>1, RestFacts, Zenon
  <2>3. Len(a) - j = (n - i) - j
    BY <1>4
  <2> QED BY <1>5, <2>2, <2>3
<1>7. PICK e : e = Rest(s, i + j)
  OBVIOUS
<1>8. /\ e \in Seq(S) /\ Len(e) = n - (i + j)
      /\ \A k \in 1 .. n - (i + j) : e[k] = s[(i + j) + k]
  BY <1>1, <1>2, <1>7, RestFacts
<1>9. Len(b) = Len(e) /\ Len(e) = n - (i + j) /\ n - (i + j) \in Nat
  BY <1>2, <1>6, <1>8
<1>10. ASSUME NEW k \in 1 .. n - (i + j) PROVE b[k] = e[k]
  <2>1. k \in 1 .. (n - i) - j /\ j + k \in 1 .. n - i /\ i + (j + k) = (i + j) + k
    BY <1>2
  <2> QED BY <1>4, <1>6, <1>8, <2>1
<1>11. b = e
  <2>1. PICK l \in Nat : l = n - (i + j)
    BY <1>9
  <2>2. b \in Seq(S) /\ e \in Seq(S) /\ Len(b) = l /\ Len(e) = l
    BY <1>6, <1>8, <1>9, <2>1
  <2>3. \A k \in 1 .. l : b[k] = e[k]
    BY <1>10, <2>1
  <2> QED BY <2>2, <2>3
<1> QED BY <1>1, <1>2, <1>3, <1>5, <1>7, <1>11

\* Lemma: the savepoints that remain, if the lost ones are the j oldest.
LEMMA RemainingIs ==
  ASSUME saved \in Seq(Savepoint), NEW j \in 0 .. Len(saved), NEW left,
         \A i \in 1 .. Len(saved) : saved[i].at \in left <=> i > j
  PROVE  Remaining(left) = Rest(saved, j)
<1>1. PICK n \in Nat : n = Len(saved)
  OBVIOUS
<1>2. DOMAIN saved = 1 .. n /\ j \in Nat /\ j <= n
  BY <1>1
<1>3. PICK lost : lost = {i \in DOMAIN saved : saved[i].at \notin left}
  OBVIOUS
<1>4. lost = 1 .. j
  <2>1. \A i \in 1 .. n : saved[i].at \notin left <=> i <= j
    BY <1>1, <1>2
  <2>2. \A i : i \in lost <=> i \in 1 .. n /\ i <= j
    BY <1>2, <1>3, <2>1
  <2>3. \A i \in 1 .. j : i \in 1 .. n /\ i <= j
    BY <1>2
  <2>4. \A i \in 1 .. n : i <= j => i \in 1 .. j
    BY <1>2
  <2>5. \A i : i \in lost <=> i \in 1 .. j
    BY <2>2, <2>3, <2>4
  <2> QED BY <2>5
<1>5. Cardinality(lost) = j
  <2>1. 1 \in Int /\ j \in Int
    BY <1>2
  <2>2. Cardinality(1 .. j) = IF 1 > j THEN 0 ELSE j - 1 + 1
    BY <2>1, FS_Interval
  <2>3. Cardinality(1 .. j) = j
    BY <1>2, <2>2
  <2> QED BY <1>4, <2>3
<1>6. Remaining(left) = SubSeq(saved, Cardinality(lost) + 1, Len(saved))
  BY <1>3 DEF Remaining
<1> QED BY <1>5, <1>6 DEF Rest

\* Lemma: what remains after an operation is what can be brought back.
LEMMA Proceeding ==
  ASSUME NEW k, Hist(undo, saved, game), NEW v,
         NEW j \in 0 .. Len(saved), Hist(v, Rest(saved, j), k)
  PROVE  Remaining(Markers(v)) = Rest(saved, j)
<1>1. PICK n : n = Len(saved)
  OBVIOUS
<1>2. /\ saved \in Seq(Savepoint)
      /\ \A i, m \in 1 .. n : i # m => saved[i].at # saved[m].at
  BY <1>1, HistMarks
<1>3. n \in Nat /\ j \in Nat /\ j <= n
  BY <1>1, <1>2
<1>4. PICK t : t = Rest(saved, j)
  OBVIOUS
<1>5. Len(t) = n - j /\ \A i \in 1 .. n - j : t[i] = saved[j + i]
  BY <1>1, <1>2, <1>4, RestFacts
<1>6. \A x : x \in Markers(v) <=> \E i \in 1 .. n - j : x = t[i].at
  BY <1>4, <1>5, HistMarks
<1>7. ASSUME NEW i \in 1 .. n PROVE saved[i].at \in Markers(v) <=> i > j
  <2>1. ASSUME i > j PROVE saved[i].at \in Markers(v)
    <3>1. i - j \in 1 .. n - j /\ j + (i - j) = i
      BY <1>3, <2>1
    <3>2. t[i - j] = saved[i]
      BY <1>5, <3>1
    <3> QED BY <1>6, <3>1, <3>2
  <2>2. ASSUME saved[i].at \in Markers(v) PROVE i > j
    <3>1. PICK m \in 1 .. n - j : saved[i].at = t[m].at
      BY <1>6, <2>2
    <3>2. j + m \in 1 .. n /\ j + m > j
      BY <1>3
    <3>3. saved[i].at = saved[j + m].at
      BY <1>5, <3>1
    <3>4. i = j + m
      BY <1>2, <3>2, <3>3
    <3> QED BY <3>2, <3>4
  <2> QED BY <2>1, <2>2
<1> QED BY <1>1, <1>2, <1>7, RemainingIs
-----------------------------------------------------------------------------
\* The inductive invariant: all savepoints can be brought back, and an undo
\* under way goes to the newest of them.
IInv ==
  /\ Hist(undo, saved, game)
  /\ sav \in Offsets \union {None}
  /\ sav # None => Len(saved) >= 1 /\ sav = saved[Len(saved)].at

\* Lemma: the initial state.
LEMMA InitIInv == Init => IInv
  BY NewGameFacts, HistEmpty DEF Init, IInv

\* Lemma: an operation ends with a buffer from which its game can be undone.
LEMMA ProceedIInv ==
  ASSUME IInv, NEW u, NEW k, NEW j \in 0 .. Len(saved), Hist(u, Rest(saved, j), k),
         Proceed(u, k)
  PROVE  IInv'
<1>1. Hist(undo, saved, game)
  BY DEF IInv
<1>2. Remaining(Markers(u)) = Rest(saved, j)
  BY <1>1, Proceeding
<1>3. undo' = u /\ game' = k /\ saved' = Rest(saved, j) /\ sav' = None
  BY <1>2 DEF Proceed
<1>4. Hist(undo', saved', game')
  BY <1>3
<1> QED BY <1>3, <1>4 DEF IInv

\* Lemma: an operation that writes one record, always or if there is a savepoint.
LEMMA RecordIInv ==
  ASSUME IInv, NEW k, NEW rec, Undone(game, k, rec),
         Proceed(objures(undo, rec), k) \/ Proceed(Record(undo, rec), k)
  PROVE  IInv'
<1>1. Hist(undo, saved, game)
  BY DEF IInv
<1>2. /\ \E j \in 0 .. Len(saved) : Hist(objures(undo, rec), Rest(saved, j), k)
      /\ \E j \in 0 .. Len(saved) : Hist(Record(undo, rec), Rest(saved, j), k)
  BY <1>1, HistRecord
<1>3. CASE Proceed(objures(undo, rec), k)
  BY <1>2, <1>3, ProceedIInv
<1>4. CASE Proceed(Record(undo, rec), k)
  BY <1>2, <1>4, ProceedIInv
<1> QED BY <1>3, <1>4

\* Lemma: the savepoints are of the kind they should be.
LEMMA GameFacts ==
  ASSUME IInv
  PROVE  saved \in Seq(Savepoint) /\ game \in Consistent /\ undo \in Context
  BY HistMarks DEF IInv

\* Lemma: a new savepoint.
LEMMA SaveIInv ==
  ASSUME IInv, objusav
  PROVE  /\ IInv'
         /\ \E j \in 0 .. Len(saved) : \E at :
              saved' = Append(Rest(saved, j), [at |-> at, game |-> game])
<1>1. PICK u : u = objures(undo, Marker)
  OBVIOUS
<1>2. /\ undo' = u /\ game' = game /\ sav' = sav /\ sav = None
      /\ saved' = Append(Remaining(Markers(u) \ {u.prv}), [at |-> u.prv, game |-> game])
  BY <1>1 DEF objusav, Idle
<1>3. Hist(undo, saved, game) /\ saved \in Seq(Savepoint) /\ game \in Consistent
  BY GameFacts DEF IInv
<1>4. Marker \in Records /\ Marker.cmd = "SAV" /\ Revert(game, Marker) = game
  BY MarkerFacts DEF Marker
<1>5. PICK j \in 0 .. Len(saved) : Hist(u, Since(saved, j, Marker, u.prv, game), game)
  BY <1>1, <1>3, <1>4, HistAppend
<1>6. u.prv \in Offsets
  BY <1>1, <1>3, <1>4, HistAppend
<1>7. PICK n \in Nat : n = Len(saved)
  BY <1>3
<1>8. PICK t : t = Since(saved, j, Marker, u.prv, game)
  OBVIOUS
<1>9. PICK q : q = n - j
  OBVIOUS
<1>10. SinceIs(t, saved, j, Marker, u.prv, game, q)
  BY <1>3, <1>6, <1>7, <1>8, <1>9, SinceFacts
<1>11. /\ q \in Nat /\ Len(t) = q + 1 /\ t[q + 1].at = u.prv
       /\ \A i \in 1 .. q : t[i] = saved[j + i]
  BY <1>4, <1>10 DEF SinceIs
<1>12. /\ \A i, m \in 1 .. q + 1 : i # m => t[i].at # t[m].at
       /\ \A x : x \in Markers(u) <=> \E i \in 1 .. q + 1 : x = t[i].at
  <2>1. Hist(u, t, game)
    BY <1>5, <1>8
  <2>2. /\ \A i, m \in 1 .. Len(t) : i # m => t[i].at # t[m].at
        /\ \A x : x \in Markers(u) <=> \E i \in 1 .. Len(t) : x = t[i].at
    BY <2>1, HistMarks
  <2>3. Len(t) = q + 1
    BY <1>11
  <2> QED BY <2>2, <2>3
<1>13. \A i, m \in 1 .. n : i # m => saved[i].at # saved[m].at
  BY <1>3, <1>7, HistMarks
<1>14. PICK left : left = Markers(u) \ {u.prv}
  OBVIOUS
<1>15. ASSUME NEW i \in 1 .. n PROVE saved[i].at \in left <=> i > j
  <2>1. ASSUME i > j PROVE saved[i].at \in left
    <3>1. /\ i - j \in 1 .. q /\ i - j \in 1 .. q + 1 /\ q + 1 \in 1 .. q + 1
          /\ i - j # q + 1 /\ j + (i - j) = i
      BY <1>7, <1>9, <1>11, <2>1
    <3>2. t[i - j] = saved[i]
      BY <1>11, <3>1
    <3>3. t[i - j].at # t[q + 1].at
      BY <1>12, <3>1
    <3>4. t[i - j].at \in Markers(u)
      BY <1>12, <3>1
    <3> QED BY <1>11, <1>14, <3>2, <3>3, <3>4
  <2>2. ASSUME saved[i].at \in left PROVE i > j
    <3>1. PICK m \in 1 .. q + 1 : saved[i].at = t[m].at
      BY <1>12, <1>14, <2>2
    <3>2. m # q + 1
      BY <1>11, <1>14, <2>2, <3>1
    <3>3. m \in 1 .. q /\ j + m \in 1 .. n /\ j + m > j
      BY <1>7, <1>9, <1>11, <3>2
    <3>4. saved[i].at = saved[j + m].at
      BY <1>11, <3>1, <3>3
    <3>5. i = j + m
      BY <1>13, <3>3, <3>4
    <3> QED BY <3>3, <3>5
  <2> QED BY <2>1, <2>2
<1>16. Remaining(left) = Rest(saved, j)
  BY <1>3, <1>7, <1>15, RemainingIs
<1>17. saved' = Append(Rest(saved, j), [at |-> u.prv, game |-> game])
  BY <1>2, <1>14, <1>16
<1>18. saved' = t
  BY <1>4, <1>8, <1>17 DEF Since
<1>19. Hist(undo', saved', game')
  BY <1>2, <1>5, <1>8, <1>18
<1>20. IInv'
  BY <1>2, <1>19 DEF IInv
<1> QED BY <1>17, <1>20

\* Lemma: an undo begins only where there is a savepoint, and goes to the newest.
LEMMA UndoIInv ==
  ASSUME IInv, objundo
  PROVE  IInv' /\ sav' # None /\ Len(saved) >= 1
<1>1. /\ undo' = undo /\ game' = game /\ saved' = saved
      /\ sav' = Search(undo) /\ objuok(undo)
  BY DEF objundo
<1>2. Hist(undo, saved, game)
  BY DEF IInv
<1>3. Len(saved) >= 1 /\ Search(undo) = saved[Len(saved)].at /\ Search(undo) \in Offsets
  BY <1>1, <1>2, HistSearch
<1>4. Search(undo) # None
  BY <1>3, ObjectAssumption
<1> QED BY <1>1, <1>2, <1>3, <1>4 DEF IInv

\* Lemma: one turn of the undo; it ends when the newest savepoint is reached.
LEMMA Undo1IInv ==
  ASSUME IInv, obj1undo
  PROVE  /\ IInv' /\ Len(saved) >= 1
         /\ \/ sav' = sav /\ saved' = saved
            \/ sav' = None /\ saved' = Front(saved) /\ game' = saved[Len(saved)].game
<1>1. PICK v : v = Pop(undo)
  OBVIOUS
<1>2. PICK k : k = Revert(game, undo.buf[undo.prv].rec)
  OBVIOUS
<1>3. /\ undo' = v /\ game' = k
      /\ saved' = IF IsMarker(undo, undo.prv) THEN Front(saved) ELSE saved
      /\ sav' = IF v.head = sav THEN None ELSE sav
      /\ sav # None
  BY <1>1, <1>2 DEF obj1undo, Idle
<1>4. /\ Hist(undo, saved, game) /\ Len(saved) >= 1 /\ sav = saved[Len(saved)].at
      /\ sav \in Offsets \union {None}
  BY <1>3 DEF IInv
<1>5. /\ v.head = undo.prv
      /\ IsMarker(undo, undo.prv) => /\ Hist(v, Front(saved), k)
                                     /\ undo.prv = saved[Len(saved)].at
                                     /\ k = saved[Len(saved)].game
      /\ ~IsMarker(undo, undo.prv) => Hist(v, saved, k) /\ undo.prv # saved[Len(saved)].at
  BY <1>1, <1>2, <1>4, HistPop
<1>6. CASE IsMarker(undo, undo.prv)
  <2>1. /\ sav' = None /\ saved' = Front(saved) /\ game' = saved[Len(saved)].game
        /\ Hist(undo', saved', game')
    BY <1>3, <1>4, <1>5, <1>6
  <2> QED BY <1>4, <2>1 DEF IInv
<1>7. CASE ~IsMarker(undo, undo.prv)
  <2>1. sav' = sav /\ saved' = saved /\ Hist(undo', saved', game')
    BY <1>3, <1>4, <1>5, <1>7
  <2> QED BY <1>4, <2>1 DEF IInv
<1> QED BY <1>6, <1>7
-----------------------------------------------------------------------------
\* The fuses that burn, and the game after the first i of them have.
Burning == {f \in Slots : game.fuse[f] \notin {None, 0}}

FusesAfter(i) ==
  [f \in Slots |-> IF f \in Burning /\ \E x \in 1 .. i : Fuses[x] = f
                   THEN game.fuse[f] - 1 ELSE game.fuse[f]]

Burnt(i) == [game EXCEPT !.fuse = FusesAfter(i)]

\* Lemma: what the loop of vocturn computes, turn by turn.
LEMMA VocturnDef ==
  ASSUME vocturn
  PROVE  \E w : /\ w[0] = undo
                /\ \A n \in 1 .. Len(Fuses) :
                     w[n] = IF Fuses[n] \in Burning THEN SaveFuse(w[n - 1], Fuses[n])
                            ELSE w[n - 1]
                /\ sav = None
                /\ Proceed(w[Len(Fuses)],
                     [game EXCEPT !.fuse = [f \in Slots |->
                        IF f \in Burning THEN game.fuse[f] - 1 ELSE game.fuse[f]]])
<1> DEFINE save(u, f) == IF f \in Burning THEN SaveFuse(u, f) ELSE u
           Step(w, n) == IF n = 0 THEN undo ELSE save(w[n - 1], Fuses[n])
           Is(w, m) == w = [n \in 0 .. m |-> Step(w, n)]
           G == {m \in Nat : \E w : Is(w, m)}
           F == CHOOSE w : Is(w, Len(Fuses))
<1>0. Len(Fuses) \in Nat
  BY ObjectAssumption
<1>1. 0 \in G
  <2>1. Is([n \in 0 .. 0 |-> undo], 0)
    OBVIOUS
  <2> QED BY <2>1
<1>2. ASSUME NEW m \in Nat, NEW w, Is(w, m) PROVE \E v : Is(v, m + 1)
  <2> DEFINE v == [n \in 0 .. (m + 1) |-> IF n = m + 1 THEN Step(w, n) ELSE w[n]]
  <2> HIDE DEF Step
  <2>1. \A n \in 0 .. m : w[n] = Step(w, n) /\ v[n] = w[n]
    <3>1. \A n \in 0 .. m : n \in 0 .. (m + 1) /\ n # m + 1
      OBVIOUS
    <3>2. \A n \in 0 .. m : v[n] = w[n]
      BY <3>1
    <3>3. w = [n \in 0 .. m |-> Step(w, n)]
      BY <1>2
    <3> HIDE DEF v
    <3>4. \A n \in 0 .. m : w[n] = Step(w, n)
      BY <3>3, Zenon
    <3> QED BY <3>2, <3>4
  <2>2. v[m + 1] = Step(w, m + 1) /\ v[m] = w[m]
    OBVIOUS
  <2>3. v = [n \in 0 .. (m + 1) |-> v[n]]
    OBVIOUS
  <2> HIDE DEF v
  <2>4. ASSUME NEW n \in 0 .. (m + 1) PROVE v[n] = Step(v, n)
    <3>1. CASE n = m + 1
      <4>1. v[n - 1] = w[n - 1] /\ n # 0
        BY <2>2, <3>1
      <4> QED BY <2>2, <3>1, <4>1 DEF Step
    <3>2. CASE n # m + 1
      <4>1. n \in 0 .. m /\ (n # 0 => n - 1 \in 0 .. m)
        BY <3>2
      <4>2. n # 0 => v[n - 1] = w[n - 1]
        BY <2>1, <4>1
      <4>3. Step(v, n) = Step(w, n)
        BY <4>2 DEF Step
      <4> QED BY <2>1, <4>1, <4>3
    <3> QED BY <3>1, <3>2
  <2>5. Is(v, m + 1)
    BY <2>3, <2>4
  <2> QED BY <2>5
<1>3. Len(Fuses) \in G
  <2> HIDE DEF Is
  <2>1. \A m \in Nat : m \in G => m + 1 \in G
    BY <1>2
  <2> HIDE DEF G
  <2> QED BY <1>0, <1>1, <2>1, Nats!NatInSet
<1>4. Is(F, Len(Fuses))
  BY <1>3
<1>5. /\ sav = None
      /\ Proceed(F[Len(Fuses)],
           [game EXCEPT !.fuse = [f \in Slots |->
              IF f \in Burning THEN game.fuse[f] - 1 ELSE game.fuse[f]]])
  BY DEF vocturn, Idle, Burning
<1> HIDE DEF F
<1>6. \A n \in 0 .. Len(Fuses) : F[n] = Step(F, n)
  BY <1>4
<1>7. 0 \in 0 .. Len(Fuses) /\ \A n \in 1 .. Len(Fuses) : n \in 0 .. Len(Fuses) /\ n # 0
  BY <1>0
<1>8. F[0] = undo
  BY <1>6, <1>7
<1>9. \A n \in 1 .. Len(Fuses) : F[n] = save(F[n - 1], Fuses[n])
  BY <1>6, <1>7
<1> QED BY <1>5, <1>8, <1>9

\* Lemma: the games between the first and the last turn of vocturn.
LEMMA BurntFacts ==
  ASSUME IInv
  PROVE  /\ Burnt(0) = game
         /\ Burnt(Len(Fuses)) = [game EXCEPT !.fuse = [f \in Slots |->
                        IF f \in Burning THEN game.fuse[f] - 1 ELSE game.fuse[f]]]
         /\ \A i \in 0 .. Len(Fuses) : Burnt(i) \in Consistent
         /\ \A i \in 1 .. Len(Fuses) :
              /\ Fuses[i] \in Slots
              /\ Fuses[i] \notin Burning => Burnt(i) = Burnt(i - 1)
              /\ Fuses[i] \in Burning =>
                   Undone(Burnt(i - 1), Burnt(i), FuseSlot(Fuses[i], game.fuse[Fuses[i]]))
<1>1. PICK L \in Nat : L = Len(Fuses)
  BY ObjectAssumption
<1>2. /\ DOMAIN Fuses = 1 .. L
      /\ \A i \in 1 .. L : Fuses[i] \in Slots
      /\ \A f \in Slots : \E i \in 1 .. L : Fuses[i] = f
      /\ \A i, j \in 1 .. L : i # j => Fuses[i] # Fuses[j]
  <2>1. DOMAIN Fuses = 1 .. L
    BY <1>1, ObjectAssumption
  <2> QED BY <2>1, ObjectAssumption DEF Slots, ToSet, IsInjective
<1>3. game \in Consistent /\ game \in Games
  BY GameFacts DEF Consistent
<1>4. /\ game.fuse \in [Slots -> Times \union {None}]
      /\ \A f \in Burning : game.fuse[f] - 1 \in Times
  <2>1. game.fuse \in [Slots -> Times \union {None}]
    BY <1>3 DEF Games
  <2>2. ASSUME NEW f \in Burning PROVE game.fuse[f] - 1 \in Times
    <3>1. game.fuse[f] \in Times /\ game.fuse[f] # 0
      BY <2>1 DEF Burning
    <3> QED BY <3>1, BufferAssumption DEF Times
  <2> QED BY <2>1, <2>2
<1>5. ASSUME NEW i \in 0 .. L
      PROVE  /\ FusesAfter(i) \in [Slots -> Times \union {None}]
             /\ Burnt(i).fuse = FusesAfter(i) /\ Burnt(i) \in Consistent
  <2>1. FusesAfter(i) \in [Slots -> Times \union {None}]
    BY <1>4 DEF FusesAfter
  <2>2. PICK w : w = FusesAfter(i)
    OBVIOUS
  <2>3. PICK z : z = [game EXCEPT !.fuse = w]
    OBVIOUS
  <2>4. /\ z \in Games /\ z.fuse = w /\ z.val = game.val /\ z.ignored = game.ignored
        /\ z.live = game.live
    BY <1>3, <2>1, <2>2, <2>3 DEF Games
  <2>5. z \in Consistent
    BY <1>3, <2>4 DEF Consistent
  <2>6. Burnt(i) = z
    BY <2>2, <2>3 DEF Burnt
  <2> QED BY <2>1, <2>2, <2>4, <2>5, <2>6
<1>6. Burnt(0) = game
  <2>1. FusesAfter(0) = game.fuse
    BY <1>4 DEF FusesAfter
  <2> QED BY <1>3, <2>1 DEF Burnt, Games
<1>7. Burnt(L) = [game EXCEPT !.fuse = [f \in Slots |->
                        IF f \in Burning THEN game.fuse[f] - 1 ELSE game.fuse[f]]]
  <2>1. FusesAfter(L) = [f \in Slots |->
                        IF f \in Burning THEN game.fuse[f] - 1 ELSE game.fuse[f]]
    BY <1>2 DEF FusesAfter
  <2> QED BY <2>1 DEF Burnt
<1>8. ASSUME NEW i \in 1 .. L
      PROVE  /\ Fuses[i] \notin Burning => Burnt(i) = Burnt(i - 1)
             /\ Fuses[i] \in Burning =>
                  Undone(Burnt(i - 1), Burnt(i), FuseSlot(Fuses[i], game.fuse[Fuses[i]]))
  <2>1. i - 1 \in 0 .. L /\ i \in 0 .. L
    BY <1>1
  <2>2. PICK a : a = FusesAfter(i - 1)
    OBVIOUS
  <2>3. PICK b : b = FusesAfter(i)
    OBVIOUS
  <2>4. PICK f \in Slots : f = Fuses[i]
    BY <1>2
  <2>5. /\ a \in [Slots -> Times \union {None}] /\ b \in [Slots -> Times \union {None}]
        /\ Burnt(i - 1).fuse = a /\ Burnt(i - 1) \in Consistent
    BY <1>5, <2>1, <2>2, <2>3
  <2>6. \A x : x \in 1 .. i <=> x \in 1 .. (i - 1) \/ x = i
    BY <1>1
  <2>7. ASSUME NEW g \in Slots, g # f PROVE b[g] = a[g]
    <3>1. (\E x \in 1 .. i : Fuses[x] = g) <=> (\E x \in 1 .. (i - 1) : Fuses[x] = g)
      BY <2>4, <2>6, <2>7
    <3> QED BY <2>2, <2>3, <3>1 DEF FusesAfter
  <2>8. a[f] = game.fuse[f]
    <3>1. ~ \E x \in 1 .. (i - 1) : Fuses[x] = f
      <4> SUFFICES ASSUME NEW x \in 1 .. (i - 1), Fuses[x] = f PROVE FALSE
        OBVIOUS
      <4>1. x \in 1 .. L /\ x # i
        BY <1>1
      <4> QED BY <1>2, <2>4, <4>1
    <3> QED BY <2>2, <3>1 DEF FusesAfter
  <2>9. CASE f \notin Burning
    <3>1. b[f] = game.fuse[f]
      BY <2>3, <2>9 DEF FusesAfter
    <3>2. \A g \in Slots : b[g] = a[g]
      BY <2>7, <2>8, <3>1
    <3>3. a = b
      BY <2>5, <3>2
    <3> QED BY <2>2, <2>3, <2>4, <2>9, <3>3 DEF Burnt
  <2>10. CASE f \in Burning
    <3>1. PICK t : t = game.fuse[f] - 1
      OBVIOUS
    <3>2. t \in Times \union {None}
      BY <1>4, <2>10, <3>1
    <3>3. b[f] = t
      <4>1. i \in 1 .. i
        BY <1>1
      <4> QED BY <2>3, <2>4, <2>10, <3>1, <4>1 DEF FusesAfter
    <3>4. b = [a EXCEPT ![f] = t]
      BY <2>5, <2>7, <3>3
    <3>5. PICK g : g = Burnt(i - 1)
      OBVIOUS
    <3>6. PICK k : k = [g EXCEPT !.fuse[f] = t]
      OBVIOUS
    <3>7. g \in Consistent /\ g.fuse = a
      BY <2>5, <3>5
    <3>8. Undone(g, k, FuseSlot(f, g.fuse[f]))
      BY <3>2, <3>6, <3>7, UndoneFuse
    <3>9. k = Burnt(i)
      <4>1. g = [game EXCEPT !.fuse = a]
        BY <2>2, <3>5 DEF Burnt
      <4>2. k = [g EXCEPT !.fuse = b]
        <5>1. g \in Games
          BY <3>7 DEF Consistent
        <5> QED BY <3>4, <3>6, <3>7, <5>1 DEF Games
      <4>3. k = [game EXCEPT !.fuse = b]
        BY <1>3, <4>1, <4>2 DEF Games
      <4> QED BY <2>3, <4>3 DEF Burnt
    <3> QED BY <2>4, <2>8, <2>10, <3>5, <3>7, <3>8, <3>9
  <2> QED BY <2>4, <2>9, <2>10
<1> QED BY <1>1, <1>2, <1>5, <1>6, <1>7, <1>8

\* Lemma: all fuses that burn are recorded.
LEMMA TurnIInv ==
  ASSUME IInv, vocturn
  PROVE  IInv'
<1>1. PICK w : /\ w[0] = undo
               /\ \A n \in 1 .. Len(Fuses) :
                    w[n] = IF Fuses[n] \in Burning THEN SaveFuse(w[n - 1], Fuses[n])
                           ELSE w[n - 1]
               /\ sav = None
               /\ Proceed(w[Len(Fuses)],
                     [game EXCEPT !.fuse = [f \in Slots |->
                        IF f \in Burning THEN game.fuse[f] - 1 ELSE game.fuse[f]]])
  BY VocturnDef
<1>2. PICK L \in Nat : L = Len(Fuses)
  BY ObjectAssumption
<1>3. /\ Burnt(0) = game
      /\ Proceed(w[L], Burnt(L))
      /\ \A i \in 1 .. L :
              /\ Fuses[i] \notin Burning => Burnt(i) = Burnt(i - 1)
              /\ Fuses[i] \in Burning =>
                   Undone(Burnt(i - 1), Burnt(i), FuseSlot(Fuses[i], game.fuse[Fuses[i]]))
  BY <1>1, <1>2, BurntFacts
<1>4. Hist(undo, saved, game) /\ saved \in Seq(Savepoint)
  BY GameFacts DEF IInv
<1> DEFINE H == {i \in 0 .. L : \E j \in 0 .. Len(saved) : Hist(w[i], Rest(saved, j), Burnt(i))}
<1>5. 0 \in H
  <2>1. Rest(saved, 0) = saved /\ 0 \in 0 .. Len(saved)
    BY <1>4 DEF Rest
  <2>2. Hist(w[0], Rest(saved, 0), Burnt(0))
    BY <1>1, <1>3, <1>4, <2>1
  <2> QED BY <1>2, <2>1, <2>2
<1>6. ASSUME NEW k \in 0 .. (L - 1), k \in H PROVE k + 1 \in H
  <2>1. k + 1 \in 1 .. L /\ k + 1 \in 0 .. L /\ (k + 1) - 1 = k
    BY <1>2
  <2>2. PICK j \in 0 .. Len(saved) : Hist(w[k], Rest(saved, j), Burnt(k))
    BY <1>6
  <2>3. CASE Fuses[k + 1] \notin Burning
    <3>1. w[k + 1] = w[k] /\ Burnt(k + 1) = Burnt(k)
      BY <1>1, <1>2, <1>3, <2>1, <2>3
    <3> QED BY <2>1, <2>2, <3>1
  <2>4. CASE Fuses[k + 1] \in Burning
    <3>1. PICK rec : rec = FuseSlot(Fuses[k + 1], game.fuse[Fuses[k + 1]])
      OBVIOUS
    <3>2. w[k + 1] = Record(w[k], rec)
      BY <1>1, <1>2, <2>1, <2>4, <3>1 DEF SaveFuse
    <3>3. Undone(Burnt(k), Burnt(k + 1), rec)
      BY <1>3, <2>1, <2>4, <3>1
    <3>4. PICK s : s = Rest(saved, j)
      OBVIOUS
    <3>5. PICK l \in 0 .. Len(s) : Hist(Record(w[k], rec), Rest(s, l), Burnt(k + 1))
      BY <2>2, <3>3, <3>4, HistRecord
    <3>6. Len(s) = Len(saved) - j
      BY <1>4, <3>4, RestFacts
    <3>7. Rest(s, l) = Rest(saved, j + l) /\ j + l \in 0 .. Len(saved)
      BY <1>4, <3>4, <3>6, RestRest
    <3> QED BY <2>1, <3>2, <3>5, <3>7
  <2> QED BY <2>3, <2>4
<1> HIDE DEF H
<1>7. L \in H
  <2>1. 0 .. L \subseteq H
    BY <1>2, <1>5, <1>6, Nats!UpToInSet
  <2> QED BY <1>2, <2>1
<1>8. PICK j \in 0 .. Len(saved) : Hist(w[L], Rest(saved, j), Burnt(L))
  BY <1>7 DEF H
<1> QED BY <1>3, <1>8, ProceedIInv

\* Lemma: the operations that write one record.
LEMMA OneRecordIInv ==
  ASSUME IInv
  PROVE  /\ \A o \in Objects, v \in Vals : objsetp(o, v) => IInv'
         /\ \A o \in Dynamic : run_new(o) \/ run_delete(o) => IInv'
         /\ \A time \in Times : vocsetfd(time) => IInv'
         /\ \A f \in Slots : vocremfd(f) => IInv'
<1>1. game \in Consistent
  BY GameFacts
<1>2. ASSUME NEW o \in Objects, NEW v \in Vals, objsetp(o, v) PROVE IInv'
  <2>1. PICK over : over = (game.val[o] = None /\ o \in Originals)
    OBVIOUS
  <2>2. PICK cmd : cmd = (IF over THEN "OVR" ELSE IF game.val[o] = None THEN "ADD" ELSE "CHG")
    OBVIOUS
  <2>3. PICK k : k = [game EXCEPT !.val[o] = v,
                                  !.ignored = IF over THEN @ \union {o} ELSE @]
    OBVIOUS
  <2>4. o \in game.live /\ Proceed(Record(undo, Property(cmd, o, game.val[o])), k)
    BY <1>2, <2>1, <2>2, <2>3 DEF objsetp
  <2>5. Undone(game, k, Property(cmd, o, game.val[o]))
    BY <1>1, <2>1, <2>2, <2>3, <2>4, UndoneProperty
  <2> QED BY <2>4, <2>5, RecordIInv
<1>3. ASSUME NEW o \in Dynamic, run_new(o) PROVE IInv'
  <2>1. PICK k : k = [game EXCEPT !.live = @ \union {o}]
    OBVIOUS
  <2>2. o \notin game.live /\ Proceed(objures(undo, NewObject(o)), k)
    BY <1>3, <2>1 DEF run_new
  <2>3. Undone(game, k, NewObject(o))
    BY <1>1, <2>1, <2>2, UndoneNew
  <2> QED BY <2>2, <2>3, RecordIInv
<1>4. ASSUME NEW o \in Dynamic, run_delete(o) PROVE IInv'
  <2>1. PICK k : k = [game EXCEPT !.live = @ \ {o}, !.val[o] = None]
    OBVIOUS
  <2>2. o \in game.live /\ Proceed(objures(undo, DeletedObject(o, game.val[o])), k)
    BY <1>4, <2>1 DEF run_delete
  <2>3. Undone(game, k, DeletedObject(o, game.val[o]))
    BY <1>1, <2>1, <2>2, UndoneDelete
  <2> QED BY <2>2, <2>3, RecordIInv
<1>5. ASSUME NEW f \in Slots, NEW t \in Times \union {None},
             Proceed(SaveFuse(undo, f), [game EXCEPT !.fuse[f] = t])
      PROVE  IInv'
  <2>1. PICK k : k = [game EXCEPT !.fuse[f] = t]
    OBVIOUS
  <2>2. Undone(game, k, FuseSlot(f, game.fuse[f]))
    BY <1>1, <2>1, UndoneFuse
  <2>3. Proceed(Record(undo, FuseSlot(f, game.fuse[f])), k)
    BY <1>5, <2>1 DEF SaveFuse
  <2> QED BY <2>2, <2>3, RecordIInv
<1>6. ASSUME NEW time \in Times, vocsetfd(time) PROVE IInv'
  <2>1. PICK i \in DOMAIN Fuses :
          Proceed(SaveFuse(undo, Fuses[i]), [game EXCEPT !.fuse[Fuses[i]] = time])
    BY <1>6 DEF vocsetfd
  <2>2. Fuses[i] \in Slots
    BY ObjectAssumption DEF Slots, ToSet
  <2> QED BY <1>5, <2>1, <2>2
<1>7. ASSUME NEW f \in Slots, vocremfd(f) PROVE IInv'
  BY <1>5, <1>7 DEF vocremfd
<1> QED BY <1>2, <1>3, <1>4, <1>6, <1>7

\* Lemma: a restart forgets all savepoints.
LEMMA RestartIInv ==
  ASSUME IInv, Restart
  PROVE  IInv' /\ undo' = NoUndo /\ game' = NewGame
<1>1. undo' = NoUndo /\ game' = NewGame /\ sav' = None /\ Proceed(NoUndo, NewGame)
  BY DEF Restart, Proceed
<1>2. saved \in Seq(Savepoint)
  BY GameFacts
<1>3. PICK n \in Nat : n = Len(saved)
  BY <1>2
<1>4. PICK s : s = Rest(saved, n)
  OBVIOUS
<1>5. s = << >>
  <2>1. n \in 0 .. Len(saved)
    BY <1>3
  <2>2. s \in Seq(Savepoint) /\ Len(s) = n - n
    BY <1>2, <1>3, <1>4, <2>1, RestFacts
  <2> QED BY <1>3, <2>2
<1>6. Hist(NoUndo, Rest(saved, n), NewGame)
  BY <1>4, <1>5, HistEmpty, NewGameFacts
<1>7. n \in 0 .. Len(saved)
  BY <1>3
<1> QED BY <1>1, <1>6, <1>7, ProceedIInv

\* Lemma: every step keeps the invariant.
LEMMA NextIInv == IInv /\ [Next]_vars => IInv'
<1> SUFFICES ASSUME IInv, [Next]_vars PROVE IInv'
  OBVIOUS
<1>1. CASE UNCHANGED vars
  <2>1. undo' = undo /\ game' = game /\ sav' = sav /\ saved' = saved
    BY <1>1 DEF vars
  <2> QED BY <2>1 DEF IInv
<1>2. CASE Next
  BY <1>2, SaveIInv, OneRecordIInv, TurnIInv, RestartIInv, UndoIInv, Undo1IInv DEF Next
<1> QED BY <1>1, <1>2
\* Lemma: the invariant holds throughout.
LEMMA IInvHolds == Spec => []IInv
  BY InitIInv, NextIInv, PTL DEF Spec

-----------------------------------------------------------------------------
\* Theorem: the undo context, the game and the savepoints have their types.
THEOREM TypeCorrect == Spec => []TypeOK
<1>1. ASSUME IInv PROVE TypeOK
  <2>1. saved \in Seq(Savepoint) /\ game \in Consistent /\ undo \in Context
    BY <1>1, GameFacts
  <2>2. undo.head \in 0 .. BufSize /\ {undo.tail, undo.prv, undo.top} \subseteq Offsets
    BY <2>1 DEF Context
  <2>3. game \in Games
    BY <2>1 DEF Consistent
  <2>4. ASSUME NEW i \in DOMAIN saved PROVE saved[i].at \in Offsets /\ saved[i].game \in Games
    <3>1. saved[i] \in Savepoint
      BY <2>1
    <3> QED BY <3>1 DEF Savepoint, Consistent
  <2> QED BY <1>1, <2>2, <2>3, <2>4 DEF TypeOK, IInv
<1> QED BY <1>1, IInvHolds, PTL

\* Lemma: a buffer with records is tiled as obj.h says.
LEMMA RingTiled ==
  ASSUME NEW c, Ring(undo, c), c # << >>
  PROVE  BufferTiled
<1>1. PICK n : n = Len(c)
  OBVIOUS
<1>2. /\ c \in Seq(Offsets) /\ n \in Nat /\ n >= 1 /\ n \in 1 .. n
      /\ ~Empty(undo) /\ undo.tail = c[1]
      /\ \A k \in 1 .. n : c[k] \in Offsets /\ undo.buf[c[k]].rec \in Records
  BY <1>1, RingFacts
<1>3. PICK m \in 1 .. n : Tiled(undo, c, m)
  BY <1>1 DEF Ring
<1>4. Linked(undo, c) /\ Laid(undo, c, m) /\ Filled(undo, c)
  BY <1>3 DEF Tiled
<1>5. PICK chain : chain = Walk(undo)
  OBVIOUS
<1>6. chain = Newest(c, n)
  BY <1>1, <1>5, WalkIs
<1>7. /\ DOMAIN chain = 1 .. n
      /\ \A k \in 1 .. n : chain[k] = c[n + 1 - k] /\ n + 1 - k \in 1 .. n
  <2>1. \A k \in 1 .. n : n + 1 - k \in 1 .. n
    BY <1>2
  <2> QED BY <1>1, <1>6, <2>1 DEF Newest
<1>8. Last(chain) = undo.tail
  <2>1. Last(chain) = c[n + 1 - n]
    BY <1>1, <1>2, <1>6, NewestFacts
  <2>2. n + 1 - n = 1
    BY <1>2
  <2> QED BY <1>2, <2>1, <2>2
<1>9. ASSUME NEW k \in 1 .. n PROVE Units(undo, c[k]) = UnitsOf(undo, c[k])
  <2>1. PICK z \in 1 .. BufSize : z = WrittenSize(undo.buf[c[k]].rec)
    BY <1>2, SizeFacts
  <2>2. Units(undo, c[k]) = c[k] .. (c[k] + (z - 1))
    BY <2>1 DEF Units
  <2>3. UnitsOf(undo, c[k]) = c[k] .. ((c[k] + z) - 1)
    BY <2>1 DEF UnitsOf, End
  <2>4. c[k] \in Int /\ z \in Int
    BY <1>1, <1>4, <2>1, EndFacts
  <2>5. c[k] + (z - 1) = (c[k] + z) - 1
    BY <2>4
  <2> QED BY <2>2, <2>3, <2>5
<1>10. ASSUME NEW k \in 1 .. n
       PROVE  /\ undo.buf[c[k]] \notin {Body, Freed}
              /\ UnitsOf(undo, c[k]) \subseteq Offsets
              /\ \A i \in UnitsOf(undo, c[k]) : i # c[k] => undo.buf[i] = Body
  <2>1. undo.buf[c[k]].rec # Body.rec /\ undo.buf[c[k]].rec # Freed.rec
    BY <1>2, SizeFacts
  <2>2. c[k] \in Nat /\ End(undo, c[k]) \in Nat
    BY <1>1, <1>4, EndFacts
  <2>3. End(undo, c[k]) <= BufSize
    BY <1>1, <1>4, EndLimit
  <2>4. UnitsOf(undo, c[k]) \subseteq Offsets
    BY <2>2, <2>3, BufferAssumption DEF UnitsOf, Offsets
  <2>5. undo.buf[c[k]] # Body /\ undo.buf[c[k]] # Freed
    BY <2>1
  <2> QED BY <1>1, <1>4, <2>4, <2>5 DEF Filled
<1>11. ASSUME NEW i \in 1 .. n, NEW j \in 1 .. n, i < j
       PROVE  UnitsOf(undo, c[i]) \intersect UnitsOf(undo, c[j]) = {}
  <2>1. End(undo, c[i]) <= c[j] \/ End(undo, c[j]) <= c[i]
    BY <1>1, <1>4, <1>11, UnitsApart
  <2>2. c[i] \in Nat /\ End(undo, c[i]) \in Nat /\ c[j] \in Nat /\ End(undo, c[j]) \in Nat
    BY <1>1, <1>4, EndFacts
  <2> QED BY <2>1, <2>2 DEF UnitsOf
<1>12. ASSUME NEW k \in DOMAIN chain
       PROVE  /\ undo.buf[chain[k]] \notin {Body, Freed}
              /\ Units(undo, chain[k]) \subseteq Offsets
              /\ \A i \in Units(undo, chain[k]) : i # chain[k] => undo.buf[i] = Body
              /\ \A l \in 1 .. (k - 1) :
                   Units(undo, chain[l]) \intersect Units(undo, chain[k]) = {}
  <2>1. k \in 1 .. n /\ n + 1 - k \in 1 .. n /\ chain[k] = c[n + 1 - k]
    BY <1>7
  <2>2. ASSUME NEW l \in 1 .. (k - 1)
        PROVE  Units(undo, chain[l]) \intersect Units(undo, chain[k]) = {}
    <3>1. l \in 1 .. n /\ n + 1 - l \in 1 .. n /\ n + 1 - k < n + 1 - l
      BY <1>2, <2>1
    <3>2. chain[l] = c[n + 1 - l]
      BY <1>7, <3>1
    <3>3. UnitsOf(undo, c[n + 1 - k]) \intersect UnitsOf(undo, c[n + 1 - l]) = {}
      BY <1>11, <2>1, <3>1
    <3>4. Units(undo, chain[l]) = UnitsOf(undo, c[n + 1 - l])
      BY <1>9, <3>1, <3>2
    <3>5. Units(undo, chain[k]) = UnitsOf(undo, c[n + 1 - k])
      BY <1>9, <2>1
    <3> QED BY <3>3, <3>4, <3>5
  <2> QED BY <1>9, <1>10, <2>1, <2>2
<1>13. ASSUME NEW i \in Offsets, undo.buf[i] # Freed
       PROVE  \E k \in DOMAIN chain : i \in Units(undo, chain[k])
  <2>1. PICK k \in 1 .. n : i \in UnitsOf(undo, c[k])
    BY <1>1, <1>4, <1>13 DEF Filled
  <2>2. n + 1 - k \in 1 .. n /\ n + 1 - (n + 1 - k) = k
    BY <1>2
  <2>3. chain[n + 1 - k] = c[k]
    BY <1>7, <2>2
  <2> QED BY <1>7, <1>9, <2>1, <2>2, <2>3
<1>14. TailIsOldest
  BY <1>5, <1>8 DEF TailIsOldest
<1> HIDE DEF Units
<1> QED BY <1>5, <1>12, <1>13, <1>14 DEF BufferTiled

\* Theorem: the records lie in the buffer one by one, linked from the newest to
\* the oldest, which is at the tail, and nothing else is in use.
THEOREM BufferTiledHolds == Spec => []BufferTiled
<1>1. ASSUME IInv PROVE BufferTiled
  <2>1. PICK c : Ring(undo, c)
    BY <1>1 DEF IInv, Hist, Good
  <2>2. CASE c = << >>
    <3>1. Empty(undo) /\ \A i \in Offsets : undo.buf[i] = Freed
      BY <2>1, <2>2 DEF Ring
    <3>2. Walk(undo) = << >>
      BY <3>1 DEF Walk
    <3>3. TailIsOldest
      BY <3>1 DEF TailIsOldest
    <3>4. PICK chain : chain = Walk(undo)
      OBVIOUS
    <3>5. DOMAIN chain = {}
      BY <3>2, <3>4
    <3> QED BY <3>1, <3>3, <3>4, <3>5 DEF BufferTiled
  <2>3. CASE c # << >>
    BY <2>1, <2>3, RingTiled
  <2> QED BY <2>2, <2>3
<1> QED BY <1>1, IInvHolds, PTL

-----------------------------------------------------------------------------
\* Lemma: the oldest record goes only if the new one does not fit without.
LEMMA TailKept ==
  ASSUME NEW c, Ring(undo, c), ~Empty(undo), NEW rec \in Records,
         NEW v, v = objures(undo, rec), v.tail # undo.tail
  PROVE  IF undo.tail < undo.head
         THEN BufSize - undo.head < v.head - v.prv /\ undo.tail < v.head - v.prv
         ELSE undo.tail - undo.head < v.head - v.prv
<1>1. c # << >> /\ undo \in Context
  BY DEF Ring
<1>2. PICK size \in 1 .. BufSize : size = WrittenSize(rec)
  BY SizeFacts
<1>3. PICK r : r = MakeRoom(undo, size)
  OBVIOUS
<1>4. v = Written(r, rec, size)
  BY <1>2, <1>3 DEF objures, Reserve, Written
<1>5. v.head = r.head + size /\ v.prv = r.head /\ v.tail = r.tail
  BY <1>4 DEF Written
<1>6. /\ Suffices(undo, size) => r.tail = undo.tail
      /\ \/ r = NoUndo
         \/ \E d \in 0 .. Len(c) - 1 : Roomy(r, Rest(c, d), size) /\ Kept(undo, r, c, d)
  BY <1>1, <1>3, MakeRoomTiled
<1>7. r \in Context
  <2>1. ASSUME NEW d, Roomy(r, Rest(c, d), size) PROVE r \in Context
    BY <2>1 DEF Roomy, Tiled
  <2> QED BY <1>6, <2>1, NoUndoFacts
<1>8. r.head \in Nat /\ v.head - v.prv = size
  <2>1. r.head \in Nat
    BY <1>7 DEF Context
  <2> QED BY <1>5, <2>1
<1>9. ~Suffices(undo, size)
  BY <1>5, <1>6
<1>10. undo.head \in Nat /\ undo.tail \in Nat /\ BufSize \in Nat
  BY <1>1, BufferAssumption DEF Context, Offsets
<1> QED BY <1>8, <1>9, <1>10 DEF Suffices

\* Lemma: a turn of the fuses changes one at least.
LEMMA TurnChanges ==
  ASSUME IInv, vocturn
  PROVE  game'.fuse # game.fuse
<1>1. game \in Games
  BY GameFacts DEF Consistent
<1>2. PICK f \in Slots : game.fuse[f] \notin {None, 0}
  BY DEF vocturn
<1>3. game' = [game EXCEPT !.fuse = [g \in Slots |->
                 IF g \in Burning THEN game.fuse[g] - 1 ELSE game.fuse[g]]]
  BY VocturnDef DEF Proceed
<1>4. game'.fuse[f] = game.fuse[f] - 1
  BY <1>1, <1>2, <1>3 DEF Games, Burning
<1>5. game.fuse[f] \in Int
  <2>1. game.fuse[f] \in Times \union {None}
    BY <1>1 DEF Games
  <2> QED BY <1>2, <2>1, BufferAssumption DEF Times
<1> QED BY <1>4, <1>5

\* Lemma: the records of the operations.
LEMMA RecordsWritten ==
  ASSUME IInv, Next, Idle, game'.fuse = game.fuse, undo' # NoUndo, undo' # undo
  PROVE  \E rec \in Records : undo' = objures(undo, rec)
<1>1. game \in Consistent
  BY GameFacts
<1>2. /\ game.val \in [Objects -> Vals \union {None}]
      /\ game.fuse \in [Slots -> Times \union {None}]
      /\ Dynamic \subseteq Objects
  BY <1>1, ObjectAssumption DEF Consistent, Games
<1>3. ASSUME NEW rec \in Records, undo' = Record(undo, rec)
      PROVE  \E r \in Records : undo' = objures(undo, r)
  BY <1>3 DEF Record
<1>4. CASE objusav
  BY <1>4, MarkerFacts DEF objusav
<1>5. ASSUME NEW o \in Objects, NEW v \in Vals, objsetp(o, v)
      PROVE  \E r \in Records : undo' = objures(undo, r)
  <2>1. PICK cmd \in {"ADD", "OVR", "CHG"} :
          undo' = Record(undo, Property(cmd, o, game.val[o]))
    BY <1>5 DEF objsetp, Proceed
  <2>2. Property(cmd, o, game.val[o]) \in Records
    BY <1>2 DEF Property, Records
  <2> QED BY <1>3, <2>1, <2>2
<1>6. ASSUME NEW o \in Dynamic, run_new(o)
      PROVE  \E r \in Records : undo' = objures(undo, r)
  <2>1. NewObject(o) \in Records
    BY DEF NewObject, Records
  <2> QED BY <1>6, <2>1 DEF run_new, Proceed
<1>7. ASSUME NEW o \in Dynamic, run_delete(o)
      PROVE  \E r \in Records : undo' = objures(undo, r)
  <2>1. DeletedObject(o, game.val[o]) \in Records
    BY <1>2 DEF DeletedObject, Records
  <2> QED BY <1>7, <2>1 DEF run_delete, Proceed
<1>8. ASSUME NEW f \in Slots, undo' = SaveFuse(undo, f)
      PROVE  \E r \in Records : undo' = objures(undo, r)
  <2>1. FuseSlot(f, game.fuse[f]) \in Records
    BY <1>2 DEF FuseSlot, Records
  <2> QED BY <1>3, <1>8, <2>1 DEF SaveFuse
<1>9. ASSUME NEW time \in Times, vocsetfd(time)
      PROVE  \E r \in Records : undo' = objures(undo, r)
  <2>1. PICK i \in DOMAIN Fuses : undo' = SaveFuse(undo, Fuses[i])
    BY <1>9 DEF vocsetfd, Proceed
  <2>2. Fuses[i] \in Slots
    BY ObjectAssumption DEF Slots, ToSet
  <2> QED BY <1>8, <2>1, <2>2
<1>10. ASSUME NEW f \in Slots, vocremfd(f)
       PROVE  \E r \in Records : undo' = objures(undo, r)
  BY <1>8, <1>10 DEF vocremfd, Proceed
<1>11. ~vocturn
  BY TurnChanges
<1>12. ~Restart
  BY DEF Restart, Proceed
<1>13. ~objundo
  BY DEF objundo
<1>14. ~obj1undo
  BY DEF obj1undo
<1> QED BY <1>4, <1>5, <1>6, <1>7, <1>9, <1>10, <1>11, <1>12, <1>13, <1>14 DEF Next

\* Theorem: records are given up for want of space only: where the oldest goes
\* for a single new one, there was no room for that in any of the free parts.
THEOREM OnlyAsNecessaryHolds == Spec => OnlyAsNecessary
<1>1. IInv /\ [Next]_vars =>
        [ (Idle /\ game'.fuse = game.fuse /\ ~Empty(undo) /\ undo' # NoUndo /\ undo.tail # undo'.tail) =>
            LET size == undo'.head - undo'.prv
            IN  IF undo.tail < undo.head
                THEN BufSize - undo.head < size /\ undo.tail < size
                ELSE undo.tail - undo.head < size ]_vars
  <2> SUFFICES ASSUME IInv, Next, Idle, game'.fuse = game.fuse, ~Empty(undo),
                      undo' # NoUndo, undo.tail # undo'.tail
               PROVE  IF undo.tail < undo.head
                      THEN /\ BufSize - undo.head < undo'.head - undo'.prv
                           /\ undo.tail < undo'.head - undo'.prv
                      ELSE undo.tail - undo.head < undo'.head - undo'.prv
    BY DEF vars
  <2>1. undo' # undo
    OBVIOUS
  <2>2. PICK rec \in Records : undo' = objures(undo, rec)
    BY <2>1, RecordsWritten
  <2>3. PICK c : Ring(undo, c)
    BY DEF IInv, Hist, Good
  <2>4. PICK v : v = undo'
    OBVIOUS
  <2>5. v = objures(undo, rec) /\ v.tail # undo.tail
    BY <2>2, <2>4
  <2>6. IF undo.tail < undo.head
        THEN BufSize - undo.head < v.head - v.prv /\ undo.tail < v.head - v.prv
        ELSE undo.tail - undo.head < v.head - v.prv
    BY <2>3, <2>5, TailKept
  <2> QED BY <2>4, <2>6
<1> QED BY <1>1, IInvHolds, PTL DEF Spec, OnlyAsNecessary
-----------------------------------------------------------------------------
\* Lemma: undoing the newest records one by one leads back through the games.
LEMMA RewoundIs ==
  ASSUME NEW c, NEW p, NEW h, Good(undo, c, p, h, saved, game),
         NEW n, n = Len(c), NEW i \in 1 .. Len(saved)
  PROVE  Rewound(Newest(c, n), n - p[i]) = h[p[i]]
<1>1. PICK M : M = n - p[i]
  OBVIOUS
<1>2. PICK chain : chain = Newest(c, n)
  OBVIOUS
<1>3. /\ n \in Nat /\ p[i] \in 1 .. n /\ h[n] = game
      /\ \A l \in 1 .. n : p[i] < l => h[l - 1] = Revert(h[l], undo.buf[c[l]].rec)
  <2>1. n \in Nat
    BY DEF Good, Ring
  <2>2. p[i] \in 1 .. n
    BY DEF Good, Placed
  <2> QED BY <2>1, <2>2 DEF Good, Played
<1>4. M \in Nat
  BY <1>1, <1>3
<1>5. ASSUME NEW k \in 1 .. M PROVE chain[k] = c[n + 1 - k]
  <2>1. k \in 1 .. n
    BY <1>1, <1>3
  <2> QED BY <1>2, <2>1 DEF Newest
<1> DEFINE Step(w, k) == IF k = 0 THEN game ELSE Revert(w[k - 1], undo.buf[chain[k]].rec)
           Is(w) == w = [k \in 0 .. M |-> Step(w, k)]
           G == [k \in 0 .. M |-> h[n - k]]
           F == CHOOSE w : Is(w)
<1>6. ASSUME NEW k \in 1 .. M PROVE h[n - k] = Revert(h[n - (k - 1)], undo.buf[chain[k]].rec)
  <2>1. /\ n + 1 - k \in 1 .. n /\ p[i] < n + 1 - k /\ (n + 1 - k) - 1 = n - k
        /\ n - (k - 1) = n + 1 - k
    BY <1>1, <1>3
  <2>2. h[n - k] = Revert(h[n + 1 - k], undo.buf[c[n + 1 - k]].rec)
    BY <1>3, <2>1
  <2> QED BY <1>5, <2>1, <2>2
<1>7. Is(G)
  <2>1. ASSUME NEW k \in 0 .. M PROVE G[k] = Step(G, k)
    <3>1. CASE k = 0
      <4>1. n - 0 = n
        BY <1>3
      <4> QED BY <1>3, <3>1, <4>1
    <3>2. CASE k # 0
      <4>1. k \in 1 .. M /\ k - 1 \in 0 .. M
        BY <1>4, <3>2
      <4>2. G[k] = h[n - k] /\ G[k - 1] = h[n - (k - 1)]
        BY <4>1
      <4> HIDE DEF G
      <4> QED BY <1>6, <3>2, <4>1, <4>2
    <3> QED BY <3>1, <3>2
  <2>2. G = [k \in 0 .. M |-> G[k]]
    OBVIOUS
  <2> HIDE DEF G, Step
  <2> QED BY <2>1, <2>2
<1>8. Is(F)
  BY <1>7
<1>9. Rewound(chain, M) = F[M]
  BY DEF Rewound
<1> HIDE DEF F, G
<1>10. \A k \in 0 .. M : F[k] = Step(F, k)
  BY <1>8
<1> HIDE DEF Is
<1> DEFINE H == {k \in 0 .. M : F[k] = h[n - k]}
<1>11. 0 \in H
  <2>1. 0 \in 0 .. M /\ n - 0 = n
    BY <1>3, <1>4
  <2> QED BY <1>3, <1>10, <2>1
<1>12. ASSUME NEW k \in 0 .. (M - 1), k \in H PROVE k + 1 \in H
  <2>1. k + 1 \in 1 .. M /\ k + 1 \in 0 .. M /\ (k + 1) - 1 = k /\ k + 1 # 0
    BY <1>4
  <2>2. F[k] = h[n - k]
    BY <1>12
  <2>3. F[k + 1] = Revert(F[k], undo.buf[chain[k + 1]].rec)
    BY <1>10, <2>1
  <2>4. h[n - (k + 1)] = Revert(h[n - k], undo.buf[chain[k + 1]].rec)
    BY <1>6, <2>1
  <2>5. F[k + 1] = h[n - (k + 1)]
    BY <2>2, <2>3, <2>4
  <2> QED BY <2>1, <2>5
<1> HIDE DEF H
<1>13. 0 .. M \subseteq H
  BY <1>4, <1>11, <1>12, Nats!UpToInSet
<1>14. F[M] = h[n - M]
  BY <1>4, <1>13 DEF H
<1>15. n - M = p[i]
  BY <1>1, <1>3
<1> QED BY <1>1, <1>2, <1>9, <1>14, <1>15

\* Theorem: every savepoint whose marker is in the buffer can be brought back
\* exactly, whatever was dropped, wrapped, created, deleted, overridden or
\* burned down since.
THEOREM SavedStatesRecoverableHolds == Spec => []SavedStatesRecoverable
<1>1. ASSUME IInv PROVE SavedStatesRecoverable
  <2>1. PICK c, p, h : Good(undo, c, p, h, saved, game)
    BY <1>1 DEF IInv, Hist
  <2>2. PICK n : n = Len(c)
    OBVIOUS
  <2>3. /\ saved \in Seq(Savepoint)
        /\ \A i \in 1 .. Len(saved) :
             p[i] \in 1 .. n /\ saved[i].at = c[p[i]] /\ h[p[i]] = saved[i].game
    BY <2>1, <2>2 DEF Good, Placed, Played
  <2>4. PICK chain : chain = Walk(undo)
    OBVIOUS
  <2>5. ASSUME NEW i \in DOMAIN saved
        PROVE  \E k \in DOMAIN chain :
                 chain[k] = saved[i].at /\ Rewound(chain, k - 1) = saved[i].game
    <3>1. i \in 1 .. Len(saved)
      BY <2>3
    <3>2. p[i] \in 1 .. n /\ n \in Nat
      BY <2>1, <2>2, <2>3, <3>1 DEF Good, Ring
    <3>3. Ring(undo, c) /\ c # << >>
      <4>1. Ring(undo, c) /\ c \in Seq(Offsets)
        BY <2>1 DEF Good, Ring
      <4> QED BY <2>2, <3>2, <4>1
    <3>4. chain = Newest(c, n)
      BY <2>2, <2>4, <3>3, WalkIs
    <3>5. PICK k : k = n + 1 - p[i]
      OBVIOUS
    <3>6. k \in 1 .. n /\ k - 1 = n - p[i] /\ n + 1 - k = p[i]
      BY <3>2, <3>5
    <3>7. DOMAIN chain = 1 .. n /\ chain[k] = c[n + 1 - k]
      BY <2>2, <3>4, <3>6 DEF Newest
    <3>8. chain[k] = saved[i].at
      BY <2>3, <3>1, <3>6, <3>7
    <3>9. Rewound(chain, n - p[i]) = h[p[i]]
      BY <2>1, <2>2, <3>1, <3>4, RewoundIs
    <3>10. Rewound(chain, k - 1) = saved[i].game
      BY <2>3, <3>1, <3>6, <3>9
    <3> QED BY <3>6, <3>7, <3>8, <3>10
  <2> QED BY <2>4, <2>5 DEF SavedStatesRecoverable
<1> QED BY <1>1, IInvHolds, PTL

-----------------------------------------------------------------------------
\* The refinement of UndoHistory.

States == {ThingState(g) : g \in Consistent}

Shown(sv) == [i \in 1 .. Len(sv) |-> ThingState(sv[i].game)]

\* Lemma: what is shown of the savepoints.
LEMMA ShownFacts ==
  ASSUME NEW sv \in Seq(Savepoint)
  PROVE  /\ Shown(sv) \in Seq(States) /\ Len(Shown(sv)) = Len(sv)
         /\ \A i \in 1 .. Len(sv) : Shown(sv)[i] = ThingState(sv[i].game)
<1>1. PICK n \in Nat : n = Len(sv)
  OBVIOUS
<1>2. ASSUME NEW i \in 1 .. n PROVE ThingState(sv[i].game) \in States
  <2>1. sv[i] \in Savepoint
    BY <1>1
  <2>2. sv[i].game \in Consistent
    BY <2>1 DEF Savepoint
  <2> QED BY <2>2 DEF States
<1>3. PICK s : s = Shown(sv)
  OBVIOUS
<1>4. s = [i \in 1 .. n |-> ThingState(sv[i].game)]
  BY <1>1, <1>3 DEF Shown
<1>5. s \in Seq(States) /\ Len(s) = n /\ \A i \in 1 .. n : s[i] = ThingState(sv[i].game)
  <2>1. s \in [1 .. n -> States] /\ \A i \in 1 .. n : s[i] = ThingState(sv[i].game)
    BY <1>2, <1>4
  <2>2. s \in Seq(States) /\ Len(s) = n
    BY <1>4, <2>1
  <2> QED BY <2>1, <2>2
<1> QED BY <1>1, <1>3, <1>5

\* Lemma: forgetting the oldest savepoints is what UndoHistory allows.
LEMMA ShownRest ==
  ASSUME NEW sv \in Seq(Savepoint), NEW j \in 0 .. Len(sv)
  PROVE  Shown(Rest(sv, j)) = Rest(Shown(sv), j)
<1>1. PICK n \in Nat : n = Len(sv)
  OBVIOUS
<1>2. PICK t : t = Rest(sv, j)
  OBVIOUS
<1>3. t \in Seq(Savepoint) /\ Len(t) = n - j /\ \A k \in 1 .. n - j : t[k] = sv[j + k]
  BY <1>1, <1>2, RestFacts
<1>4. PICK s : s = Shown(sv)
  OBVIOUS
<1>5. /\ s \in Seq(States) /\ Len(s) = n
      /\ \A i \in 1 .. n : s[i] = ThingState(sv[i].game)
  BY <1>1, <1>4, ShownFacts
<1>6. PICK x : x = Rest(s, j)
  OBVIOUS
<1>7. x \in Seq(States) /\ Len(x) = n - j /\ \A k \in 1 .. n - j : x[k] = s[j + k]
  <2>1. j \in 0 .. Len(s)
    BY <1>1, <1>5
  <2>2. /\ Rest(s, j) \in Seq(States) /\ Len(Rest(s, j)) = Len(s) - j
        /\ \A k \in 1 .. Len(s) - j : Rest(s, j)[k] = s[j + k]
    BY <1>5, <2>1, RestFacts
  <2> QED BY <1>5, <1>6, <2>2
<1>8. PICK y : y = Shown(t)
  OBVIOUS
<1>9. y \in Seq(States) /\ Len(y) = n - j /\ \A k \in 1 .. n - j : y[k] = ThingState(t[k].game)
  BY <1>3, <1>8, ShownFacts
<1>10. ASSUME NEW k \in 1 .. n - j PROVE x[k] = y[k]
  <2>1. j + k \in 1 .. n
    BY <1>1
  <2> QED BY <1>3, <1>5, <1>7, <1>9, <2>1
<1>11. x = y
  <2>1. n \in Nat /\ j \in Nat /\ j <= n
    BY <1>1
  <2>2. n - j \in Nat
    BY <2>1
  <2>3. PICK l \in Nat : l = n - j
    BY <2>2
  <2> QED BY <1>7, <1>9, <1>10, <2>3
<1> QED BY <1>2, <1>4, <1>6, <1>8, <1>11

\* Lemma: the elements of Rest are remembered.
LEMMA RestRemembered ==
  ASSUME NEW S, NEW s \in Seq(S), NEW j \in 0 .. Len(s)
  PROVE  Rest(s, j) \in History!Remembered(s)
<1>1. j + 1 \in 1 .. (Len(s) + 1)
  OBVIOUS
<1> QED BY <1>1 DEF Rest, History!Remembered

\* Lemma: what is shown after a new savepoint.
LEMMA ShownAppend ==
  ASSUME NEW sv \in Seq(Savepoint), NEW j \in 0 .. Len(sv), NEW e \in Savepoint
  PROVE  Shown(Append(Rest(sv, j), e)) \in
           History!Remembered(Append(Shown(sv), ThingState(e.game)))
<1>1. PICK n \in Nat : n = Len(sv)
  OBVIOUS
<1>2. PICK t : t = Append(sv, e)
  OBVIOUS
<1>3. /\ t \in Seq(Savepoint) /\ Len(t) = n + 1 /\ t[n + 1] = e
      /\ \A k \in 1 .. n : t[k] = sv[k]
  BY <1>1, <1>2, AppendFacts
<1>4. PICK r : r = Rest(sv, j)
  OBVIOUS
<1>5. r \in Seq(Savepoint) /\ Len(r) = n - j /\ \A k \in 1 .. n - j : r[k] = sv[j + k]
  BY <1>1, <1>4, RestFacts
<1>6. n - j \in Nat
  BY <1>1
<1>7. PICK q \in Nat : q = n - j
  BY <1>6
<1>8. PICK x : x = Append(r, e)
  OBVIOUS
<1>9. /\ x \in Seq(Savepoint) /\ Len(x) = q + 1 /\ x[q + 1] = e
      /\ \A k \in 1 .. q : x[k] = r[k]
  BY <1>5, <1>7, <1>8, AppendFacts
<1>10. PICK y : y = Rest(t, j)
  OBVIOUS
<1>11. y \in Seq(Savepoint) /\ Len(y) = q + 1 /\ \A k \in 1 .. q + 1 : y[k] = t[j + k]
  <2>1. j \in 0 .. Len(t)
    BY <1>1, <1>3
  <2>2. /\ Rest(t, j) \in Seq(Savepoint) /\ Len(Rest(t, j)) = Len(t) - j
        /\ \A k \in 1 .. Len(t) - j : Rest(t, j)[k] = t[j + k]
    BY <1>3, <2>1, RestFacts
  <2>3. Len(t) - j = q + 1
    BY <1>1, <1>3, <1>7
  <2> QED BY <1>10, <2>2, <2>3
<1>12. ASSUME NEW k \in 1 .. q + 1 PROVE x[k] = y[k]
  <2>1. CASE k = q + 1
    <3>1. j + k = n + 1
      BY <1>1, <1>7, <2>1
    <3> QED BY <1>3, <1>9, <1>11, <2>1, <3>1
  <2>2. CASE k # q + 1
    <3>1. k \in 1 .. q /\ j + k \in 1 .. n
      BY <1>1, <1>7, <2>2
    <3> QED BY <1>3, <1>5, <1>7, <1>9, <1>11, <3>1
  <2> QED BY <2>1, <2>2
<1>13. x = y
  BY <1>9, <1>11, <1>12
<1>14. Shown(t) = Append(Shown(sv), ThingState(e.game))
  <2>1. PICK s : s = Shown(sv)
    OBVIOUS
  <2>2. PICK z : z = ThingState(e.game)
    OBVIOUS
  <2>3. z \in States
    <3>1. e.game \in Consistent
      BY DEF Savepoint
    <3> QED BY <2>2, <3>1 DEF States
  <2>4. /\ s \in Seq(States) /\ Len(s) = n
        /\ \A i \in 1 .. n : s[i] = ThingState(sv[i].game)
    BY <1>1, <2>1, ShownFacts
  <2>5. PICK a : a = Append(s, z)
    OBVIOUS
  <2>6. a \in Seq(States) /\ Len(a) = n + 1 /\ a[n + 1] = z /\ \A k \in 1 .. n : a[k] = s[k]
    BY <2>3, <2>4, <2>5, AppendFacts
  <2>7. PICK b : b = Shown(t)
    OBVIOUS
  <2>8. /\ b \in Seq(States) /\ Len(b) = n + 1
        /\ \A k \in 1 .. n + 1 : b[k] = ThingState(t[k].game)
    BY <1>3, <2>7, ShownFacts
  <2>9. ASSUME NEW k \in 1 .. n + 1 PROVE a[k] = b[k]
    <3>1. CASE k = n + 1
      BY <1>3, <2>2, <2>6, <2>8, <3>1
    <3>2. CASE k # n + 1
      <4>1. k \in 1 .. n
        BY <3>2
      <4> QED BY <1>3, <2>4, <2>6, <2>8, <4>1
    <3> QED BY <3>1, <3>2
  <2>10. a = b
    BY <2>6, <2>8, <2>9
  <2> QED BY <2>1, <2>2, <2>5, <2>7, <2>10
<1>15. j \in 0 .. Len(t)
  BY <1>1, <1>3
<1>16. Shown(y) = Rest(Shown(t), j)
  BY <1>3, <1>10, <1>15, ShownRest
<1>17. Shown(t) \in Seq(States) /\ j \in 0 .. Len(Shown(t))
  BY <1>3, <1>15, ShownFacts
<1>18. Rest(Shown(t), j) \in History!Remembered(Shown(t))
  BY <1>17, RestRemembered
<1> QED BY <1>4, <1>8, <1>13, <1>14, <1>16, <1>18

\* Lemma: what is shown once the newest savepoint is gone.
LEMMA ShownFront ==
  ASSUME NEW sv \in Seq(Savepoint), Len(sv) >= 1
  PROVE  Shown(Front(sv)) = SubSeq(Shown(sv), 1, Len(Shown(sv)) - 1)
<1>1. PICK n \in Nat : n = Len(sv)
  OBVIOUS
<1>2. PICK t : t = Front(sv)
  OBVIOUS
<1>3. t \in Seq(Savepoint) /\ Len(t) = n - 1 /\ \A i \in 1 .. n - 1 : t[i] = sv[i]
  BY <1>1, <1>2, FrontFacts
<1>4. PICK s : s = Shown(sv)
  OBVIOUS
<1>5. /\ s \in Seq(States) /\ Len(s) = n /\ n >= 1
      /\ \A i \in 1 .. n : s[i] = ThingState(sv[i].game)
  BY <1>1, <1>4, ShownFacts
<1>6. PICK x : x = Front(s)
  OBVIOUS
<1>7. x \in Seq(States) /\ Len(x) = n - 1 /\ \A i \in 1 .. n - 1 : x[i] = s[i]
  BY <1>5, <1>6, FrontFacts
<1>8. PICK y : y = Shown(t)
  OBVIOUS
<1>9. y \in Seq(States) /\ Len(y) = n - 1 /\ \A i \in 1 .. n - 1 : y[i] = ThingState(t[i].game)
  BY <1>3, <1>8, ShownFacts
<1>10. ASSUME NEW i \in 1 .. n - 1 PROVE x[i] = y[i]
  <2>1. i \in 1 .. n
    BY <1>1
  <2> QED BY <1>3, <1>5, <1>7, <1>9, <2>1
<1>11. x = y
  <2>1. PICK l \in Nat : l = n - 1
    BY <1>5
  <2> QED BY <1>7, <1>9, <1>10, <2>1
<1>12. x = SubSeq(s, 1, Len(s) - 1)
  BY <1>6 DEF Front
<1> QED BY <1>2, <1>4, <1>8, <1>11, <1>12

\* Lemma: an operation forgets none but the oldest savepoints.
LEMMA ProceedForgets ==
  ASSUME saved \in Seq(Savepoint), NEW u, NEW k, Proceed(u, k)
  PROVE  \E j \in 0 .. Len(saved) : saved' = Rest(saved, j)
<1>1. PICK n \in Nat : n = Len(saved)
  OBVIOUS
<1>2. PICK lost : lost = {i \in DOMAIN saved : saved[i].at \notin Markers(u)}
  OBVIOUS
<1>3. DOMAIN saved = 1 .. n
  BY <1>1
<1>4. PICK d : d = 1 .. n
  OBVIOUS
<1>5. IsFiniteSet(d) /\ Cardinality(d) = n
  <2>1. 1 \in Int /\ n \in Int
    BY <1>1
  <2>2. /\ IsFiniteSet(1 .. n)
        /\ Cardinality(1 .. n) = IF 1 > n THEN 0 ELSE n - 1 + 1
    BY <2>1, FS_Interval
  <2>3. Cardinality(1 .. n) = n
    BY <1>1, <2>2
  <2> QED BY <1>4, <2>2, <2>3
<1>6. lost \in SUBSET d
  BY <1>2, <1>3, <1>4
<1>7. IsFiniteSet(lost) /\ Cardinality(lost) <= n
  BY <1>5, <1>6, FS_Subset
<1>8. Cardinality(lost) \in Nat
  BY <1>7, FS_CardinalityType
<1>9. PICK j : j = Cardinality(lost)
  OBVIOUS
<1>10. j \in 0 .. Len(saved)
  BY <1>1, <1>7, <1>8, <1>9
<1>11. saved' = Rest(saved, j)
  <2>1. saved' = Remaining(Markers(u))
    BY DEF Proceed
  <2> QED BY <1>2, <1>9, <2>1 DEF Remaining, Rest
<1> QED BY <1>10, <1>11

\* Lemma: the abstract variables.
LEMMA HistoryIs ==
  /\ [i \in 1 .. Len(saved) |-> ThingState(saved[i].game)] = Shown(saved)
  /\ [i \in 1 .. Len(saved) |-> ThingState(saved[i].game)]' = Shown(saved')
  BY DEF Shown

\* Lemma: each step is one of UndoHistory, or changes nothing.
LEMMA NextRefines ==
  ASSUME IInv, [Next]_vars
  PROVE  [History!Next]_(History!vars)
<1>1. saved \in Seq(Savepoint) /\ game \in Consistent
  BY GameFacts
<1>2. PICK s : s = Shown(saved)
  OBVIOUS
<1>3. /\ s \in Seq(States) /\ Len(s) = Len(saved)
      /\ \A i \in 1 .. Len(saved) : s[i] = ThingState(saved[i].game)
  BY <1>1, <1>2, ShownFacts
<1>4. ASSUME NEW u, NEW k, Proceed(u, k), Idle PROVE History!Change
  <2>1. PICK j \in 0 .. Len(saved) : saved' = Rest(saved, j)
    BY <1>1, <1>4, ProceedForgets
  <2>2. Shown(saved') = Rest(s, j)
    BY <1>1, <1>2, <2>1, ShownRest
  <2>3. Rest(s, j) \in History!Remembered(s)
    BY <1>3, RestRemembered
  <2>4. Idle'
    BY <1>4 DEF Proceed, Idle
  <2> QED BY <1>2, <1>4, <2>2, <2>3, <2>4, HistoryIs DEF History!Change
<1>5. CASE objusav
  <2>1. Idle /\ Idle' /\ game' = game
    BY <1>5 DEF objusav, Idle
  <2>2. PICK j \in 0 .. Len(saved), e \in Savepoint :
          saved' = Append(Rest(saved, j), e) /\ e.game = game
    <3>1. PICK j \in 0 .. Len(saved) :
            \E at : saved' = Append(Rest(saved, j), [at |-> at, game |-> game])
      BY <1>5, SaveIInv
    <3>4. PICK at : saved' = Append(Rest(saved, j), [at |-> at, game |-> game])
      BY <3>1
    <3>2. PICK e : e = [at |-> at, game |-> game]
      OBVIOUS
    <3>3. at \in Offsets
      <4>1. PICK u : u = objures(undo, Marker)
        OBVIOUS
      <4>2. u.prv \in Offsets
        BY <1>1, <4>1, HistAppend, MarkerFacts DEF IInv, Marker
      <4>3. saved' = Append(Remaining(Markers(u) \ {u.prv}), [at |-> u.prv, game |-> game])
        BY <1>5, <4>1 DEF objusav
      <4> QED BY <3>4, <4>2, <4>3
    <3> QED BY <1>1, <3>2, <3>3, <3>4 DEF Savepoint
  <2>3. Shown(saved') \in History!Remembered(Append(s, ThingState(game)))
    BY <1>1, <1>2, <2>2, ShownAppend
  <2>4. ThingState(game)' = ThingState(game)
    BY <2>1 DEF ThingState
  <2> QED BY <1>2, <2>1, <2>3, <2>4, HistoryIs DEF History!Next, History!Save
<1>6. ASSUME NEW o \in Objects, NEW v \in Vals, objsetp(o, v) PROVE History!Change
  BY <1>4, <1>6 DEF objsetp
<1>7. ASSUME NEW o \in Dynamic, run_new(o) \/ run_delete(o) PROVE History!Change
  BY <1>4, <1>7 DEF run_new, run_delete
<1>8. ASSUME NEW time \in Times, vocsetfd(time) PROVE History!Change
  BY <1>4, <1>8 DEF vocsetfd
<1>9. ASSUME NEW f \in Slots, vocremfd(f) PROVE History!Change
  BY <1>4, <1>9 DEF vocremfd
<1>10. CASE vocturn
  <2>1. Idle /\ \E u, k : Proceed(u, k)
    BY <1>10 DEF vocturn
  <2> QED BY <1>4, <2>1 DEF History!Next
<1>11. CASE Restart
  BY <1>4, <1>11 DEF Restart, History!Next
<1>12. CASE objundo
  <2>1. /\ Idle /\ ~Idle' /\ saved' = saved /\ Len(saved) >= 1 /\ game' = game
    BY <1>12, UndoIInv DEF objundo, Idle
  <2>2. s # << >> /\ Shown(saved') = s /\ ThingState(game)' = ThingState(game)
    BY <1>2, <1>3, <2>1 DEF ThingState
  <2> QED BY <1>2, <2>1, <2>2, HistoryIs DEF History!Next, History!BeginUndo
<1>13. CASE obj1undo
  <2>1. ~Idle /\ Len(saved) >= 1
    BY <1>13, Undo1IInv DEF obj1undo
  <2>2. CASE sav' = sav /\ saved' = saved
    <3>1. ~Idle' /\ Shown(saved') = s
      BY <1>2, <2>1, <2>2 DEF Idle
    <3> QED BY <1>2, <2>1, <3>1, HistoryIs DEF History!Next, History!Rewind
  <2>3. CASE sav' = None /\ saved' = Front(saved) /\ game' = saved[Len(saved)].game
    <3>1. Idle' /\ Shown(saved') = SubSeq(s, 1, Len(s) - 1)
      BY <1>1, <1>2, <2>1, <2>3, ShownFront DEF Idle
    <3>2. ThingState(game)' = s[Len(s)]
      <4>1. Len(saved) \in 1 .. Len(saved)
        BY <1>1, <2>1
      <4>2. s[Len(s)] = ThingState(saved[Len(saved)].game)
        BY <1>3, <4>1
      <4>3. ThingState(game)' = ThingState(game')
        BY DEF ThingState
      <4> QED BY <2>3, <4>2, <4>3
    <3> QED BY <1>2, <2>1, <3>1, <3>2, HistoryIs
            DEF History!Next, History!EndUndo, History!Newest
  <2> QED BY <1>13, <2>2, <2>3, Undo1IInv
<1>14. CASE UNCHANGED vars
  <2>1. ThingState(game)' = ThingState(game) /\ saved' = saved /\ (Idle' <=> Idle)
    BY <1>14 DEF vars, ThingState, Idle
  <2> QED BY <1>2, <2>1, HistoryIs DEF History!vars
<1> QED BY <1>5, <1>6, <1>7, <1>8, <1>9, <1>10, <1>11, <1>12, <1>13, <1>14
        DEF Next, History!Next

\* Theorem: undo keeps the promise of UndoHistory: the markers are a history of
\* game states, of which only the oldest are ever forgotten, and undo goes
\* back to the newest of them, exactly.
THEOREM UndoHistoryHolds == Spec => UndoHistorySpec
<1>1. Init => History!Init
  <2> SUFFICES ASSUME Init PROVE History!Init
    OBVIOUS
  <2>1. saved = << >> /\ Idle
    BY DEF Init, Idle
  <2>2. [i \in 1 .. Len(saved) |-> ThingState(saved[i].game)] = << >>
    BY <2>1
  <2> QED BY <2>1, <2>2 DEF History!Init
<1>2. IInv /\ [Next]_vars => [History!Next]_(History!vars)
  BY NextRefines
<1> QED BY <1>1, <1>2, IInvHolds, PTL DEF Spec, UndoHistorySpec, History!Spec
=============================================================================
