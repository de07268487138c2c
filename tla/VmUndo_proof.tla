---------------------------- MODULE VmUndo_proof ----------------------------
(***************************************************************************)
(* Proofs about UndoRing and VmUndo, for rings, savepoint limits and sets  *)
(* of objects, properties and values of any size.  Each method of the undo *)
(* manager leaves the ring well linked, and it is known which links        *)
(* remain; the contents of the ring are never taken for what they are not; *)
(* and the records that the ring keeps suffice to bring back, exactly,     *)
(* every savepoint that is still held.                                     *)
(***************************************************************************)
EXTENDS VmUndo, SequenceTheorems, FiniteSetTheorems, TLAPS

\* The manager's fields, for slots that hold values of Cell.
Manager(Cell) ==
  [ring : [Slots -> Cell], cur_first : Pointers, oldest_first : Pointers,
   next_free : Slots, savept_cnt : Nat]

\* A ring whose links are f.
Linked(Cell, u, f) == u \in Manager(Cell) /\ f \in Seq(Slots) /\ RingOK(u, f)

\* The records of ring v (links g) are records of ring u (links f), unchanged
\* and in place, but for the one in slot r.
Kept(u, f, v, g, r) ==
  \A s \in Slots : InUse(v, s) /\ ~IsLink(g, s) /\ s # r =>
    InUse(u, s) /\ ~IsLink(f, s) /\ v.ring[s] = u.ring[s]

\* Steps around the ring: they stay on the ring, tell slots apart, and are
\* additive on the way.
LEMMA DistType ==
  ASSUME NEW a \in Slots, NEW b \in Slots
  PROVE  /\ Dist(a, b) \in 0 .. (RingSize - 1) /\ Dist(a, b) \in Int
         /\ Span(a, b) \in 1 .. RingSize /\ Span(a, b) \in Int
         /\ Dist(a, a) = 0
  BY RingAssumption DEF Dist, Span, Slots

\* A slot is given by its distance from any other.
LEMMA DistInjective ==
  ASSUME NEW a \in Slots, NEW b \in Slots, NEW c \in Slots, Dist(a, b) = Dist(a, c)
  PROVE  b = c
  BY RingAssumption DEF Dist, Slots

\* Distances add up, around the end of the array too.
LEMMA DistAdds ==
  ASSUME NEW a \in Slots, NEW b \in Slots, NEW c \in Slots
  PROVE  /\ Dist(a, b) <= Dist(a, c) => Dist(b, c) = Dist(a, c) - Dist(a, b)
         /\ Dist(a, b) > Dist(a, c) => Dist(b, c) = Dist(a, c) - Dist(a, b) + RingSize
  BY RingAssumption DEF Dist, Slots

\* The null pointer points to no slot.
LEMMA NullNotSlot == \A s \in Slots : s # Null
  BY RingAssumption DEF Slots, Null

\* inc_rec_ptr and dec_rec_ptr undo each other and move by one slot.
LEMMA IncFacts ==
  ASSUME NEW a \in Slots, NEW s \in Slots
  PROVE  /\ inc_rec_ptr(s) \in Slots /\ dec_rec_ptr(s) \in Slots
         /\ inc_rec_ptr(dec_rec_ptr(s)) = s
         /\ dec_rec_ptr(inc_rec_ptr(s)) = s
         /\ Span(a, inc_rec_ptr(s)) = Dist(a, s) + 1
         /\ Dist(a, dec_rec_ptr(s)) = Span(a, s) - 1
  BY RingAssumption DEF Dist, Span, Slots, inc_rec_ptr, dec_rec_ptr

\* What Newest returns.
LEMMA NewestFacts ==
  ASSUME NEW S, NEW f \in Seq(S), NEW n \in 0 .. Len(f)
  PROVE  /\ Newest(f, n) \in Seq(S)
         /\ Len(Newest(f, n)) = n
         /\ \A i \in 1 .. n : Newest(f, n)[i] = f[Len(f) - n + i]
  BY DEF Newest

\* Where the slots in use are once the oldest link is n.
LEMMA InUseAfterDrop ==
  ASSUME NEW a \in Slots, NEW n \in Slots, NEW e \in Slots, NEW s \in Slots,
         a # n, Dist(a, n) < Span(a, e)
  PROVE  /\ Dist(n, s) < Span(n, e) <=> Dist(a, n) <= Dist(a, s) /\ Dist(a, s) < Span(a, e)
         /\ Span(a, n) = Dist(a, n)
         /\ n # e
  BY RingAssumption DEF Dist, Span, Slots

\* The newest n links of a linked ring, when only the oldest one goes.
LEMMA NewestButOne ==
  ASSUME NEW S, NEW f \in Seq(S), f # << >>
  PROVE  LET g == Newest(f, Len(f) - 1)
         IN  g \in Seq(S) /\ Len(g) = Len(f) - 1 /\ \A i \in 1 .. Len(g) : g[i] = f[i + 1]
<1>1. Len(f) - 1 \in 0 .. Len(f)
  OBVIOUS
<1>2. \A i \in 1 .. Len(f) - 1 : Len(f) - (Len(f) - 1) + i = i + 1
  OBVIOUS
<1> QED BY <1>1, <1>2, NewestFacts

\* Dropping the oldest savepoint leaves the ring linked, without its link.
LEMMA DropLinked ==
  ASSUME NEW Cell, Links \subseteq Cell, Freed \in Cell,
         NEW u, NEW f, Linked(Cell, u, f), f # << >>
  PROVE  /\ Linked(Cell, DropSegment(u), Newest(f, Len(f) - 1))
         /\ Kept(u, f, DropSegment(u), Newest(f, Len(f) - 1), Null)
<1> DEFINE d == DropSegment(u)
           g == Newest(f, Len(f) - 1)
           o == f[1]
           e == u.next_free
<1>1. /\ u \in Manager(Cell) /\ f \in Seq(Slots) /\ RingOK(u, f)
      /\ Len(f) \in Nat \ {0} /\ Len(f) = u.savept_cnt
      /\ u.oldest_first = o /\ o \in Slots /\ e \in Slots
      /\ u.cur_first = f[Len(f)]
      /\ \A i \in 1 .. Len(f) : f[i] \in Slots /\ InUse(u, f[i])
  BY DEF Linked, RingOK, Manager
<1>2. \A i \in 1 .. Len(f) : u.ring[f[i]] = Link(IF i = 1 THEN Null ELSE f[i - 1],
                                                 IF i = Len(f) THEN Null ELSE f[i + 1])
  BY <1>1 DEF RingOK
<1>0. \A i, j \in 1 .. Len(f) : i < j => Dist(o, f[i]) < Dist(o, f[j])
  BY <1>1 DEF RingOK
<1>3. g \in Seq(Slots) /\ Len(g) = Len(f) - 1 /\ \A i \in 1 .. Len(g) : g[i] = f[i + 1]
  BY <1>1, NewestButOne
<1>4. CASE Len(f) = 1
  <2>1. u.ring[o].next_first = Null
    BY <1>1, <1>2, <1>4 DEF Link
  <2>2. \A s \in Slots : d.ring[s] = Freed
    BY <1>1, <2>1 DEF DropSegment, RingOK, InUse, Null, Slots
  <2>3. d.savept_cnt = 0 /\ d.oldest_first = Null /\ d.cur_first = Null /\ d.next_free = e
    BY <1>1, <1>4, <2>1 DEF DropSegment
  <2>4. d \in Manager(Cell)
    <3>1. \A s \in Slots : s # Null
      BY DEF Slots, Null
    <3> QED BY <1>1, <1>4, <2>1, <3>1 DEF DropSegment, Manager, Pointers
  <2> HIDE DEF d, g
  <2>5. Linked(Cell, d, g)
    BY <2>2, <2>3, <2>4, <1>3, <1>4 DEF Linked, RingOK
  <2>6. Kept(u, f, d, g, Null)
    BY <2>3 DEF Kept, InUse
  <2> QED BY <2>5, <2>6 DEF d, g
<1>5. CASE Len(f) > 1
  <2> DEFINE n == f[2]
  <2>1. n \in Slots /\ n # Null
    BY <1>1, <1>5 DEF Slots, Null
  <2>2. u.ring[o].next_first = n
    <3>1. 1 \in 1 .. Len(f) /\ 1 # Len(f) /\ 1 + 1 = 2
      BY <1>1, <1>5
    <3>2. u.ring[f[1]] = Link(Null, f[2])
      BY <1>2, <3>1
    <3> QED BY <3>2 DEF Link
  <2>3. Dist(o, n) < Span(o, e)
    BY <1>1, <1>5 DEF InUse
  <2>4. o # n /\ Dist(o, n) > 0
    <3>1. 1 \in 1 .. Len(f) /\ 2 \in 1 .. Len(f) /\ 1 < 2
      BY <1>1, <1>5
    <3>2. Dist(o, o) < Dist(o, n)
      BY <1>0, <3>1
    <3>3. Dist(o, o) = 0 /\ Dist(o, n) \in Int
      BY <1>1, <2>1, DistType
    <3> QED BY <3>2, <3>3
  <2>5. /\ d.oldest_first = n /\ d.next_free = e /\ d.savept_cnt = Len(f) - 1
        /\ d.cur_first = f[Len(f)]
    BY <1>1, <2>1, <2>2 DEF DropSegment
  <2>6. \A s \in Slots : InUse(d, s) <=> InUse(u, s) /\ Dist(o, n) <= Dist(o, s)
    BY <1>1, <1>5, <2>1, <2>3, <2>4, <2>5, InUseAfterDrop DEF InUse
  <2>7. \A s \in Slots : d.ring[s] = IF Dist(o, s) < Dist(o, n) THEN Freed
                                     ELSE IF s = n THEN Link(Null, u.ring[s].next_first)
                                     ELSE u.ring[s]
    BY <1>1, <2>1, <2>2, <2>3, <2>4, InUseAfterDrop DEF DropSegment
  <2>8. \A i \in 1 .. Len(g) : /\ g[i] \in Slots /\ InUse(d, g[i])
                               /\ Dist(o, n) <= Dist(o, g[i])
                               /\ Dist(n, g[i]) = Dist(o, g[i]) - Dist(o, n)
    <3> SUFFICES ASSUME NEW i \in 1 .. Len(g)
                 PROVE  /\ g[i] \in Slots /\ InUse(d, g[i])
                        /\ Dist(o, n) <= Dist(o, g[i])
                        /\ Dist(n, g[i]) = Dist(o, g[i]) - Dist(o, n)
      OBVIOUS
    <3>1. i + 1 \in 1 .. Len(f) /\ g[i] = f[i + 1] /\ 2 \in 1 .. Len(f)
      BY <1>1, <1>3, <1>5
    <3>2. 2 < i + 1 \/ i + 1 = 2
      BY <1>3
    <3>3. g[i] \in Slots /\ Dist(o, n) \in Int /\ Dist(o, g[i]) \in Int
      BY <1>1, <2>1, <3>1, DistType
    <3>4. Dist(o, n) <= Dist(o, g[i])
      BY <1>0, <3>1, <3>2, <3>3
    <3>5. Dist(n, g[i]) = Dist(o, g[i]) - Dist(o, n)
      BY <1>1, <2>1, <3>3, <3>4, DistAdds
    <3> QED BY <1>1, <2>6, <3>1, <3>3, <3>4, <3>5
  <2>9. \A i \in 1 .. Len(g) :
          d.ring[g[i]] = Link(IF i = 1 THEN Null ELSE g[i - 1],
                              IF i = Len(g) THEN Null ELSE g[i + 1])
    <3> SUFFICES ASSUME NEW i \in 1 .. Len(g)
                 PROVE  d.ring[g[i]] = Link(IF i = 1 THEN Null ELSE g[i - 1],
                                            IF i = Len(g) THEN Null ELSE g[i + 1])
      OBVIOUS
    <3>1. /\ i + 1 \in 1 .. Len(f) /\ g[i] = f[i + 1] /\ i + 1 # 1 /\ (i + 1) - 1 = i
          /\ (i + 1 = Len(f)) <=> (i = Len(g))
          /\ i # Len(g) => g[i + 1] = f[(i + 1) + 1]
      BY <1>1, <1>3, <1>5
    <3>2. u.ring[g[i]] = Link(f[i], IF i = Len(g) THEN Null ELSE g[i + 1])
      BY <1>2, <3>1
    <3>3. ~(Dist(o, g[i]) < Dist(o, n))
      <4>1. g[i] \in Slots /\ Dist(o, n) <= Dist(o, g[i])
        BY <2>8
      <4>2. Dist(o, n) \in Int /\ Dist(o, g[i]) \in Int
        BY <4>1, <1>1, <2>1, DistType
      <4> QED BY <4>1, <4>2
    <3>4. CASE i = 1
      <4>1. g[i] = n
        BY <3>1, <3>4
      <4> QED BY <2>7, <2>8, <3>2, <3>3, <3>4, <4>1 DEF Link
    <3>5. CASE i # 1
      <4>1. i - 1 \in 1 .. Len(g) /\ g[i - 1] = f[i]
        BY <1>3, <3>5
      <4>2. g[i] # n
        <5>1. 2 \in 1 .. Len(f) /\ 2 < i + 1
          BY <1>1, <1>5, <3>5, <1>3
        <5>2. Dist(o, n) < Dist(o, g[i])
          BY <5>1, <3>1, <1>0
        <5>3. Dist(o, n) \in Int
          BY <1>1, <2>1, DistType
        <5> QED BY <5>2, <5>3
      <4> QED BY <2>7, <2>8, <3>2, <3>3, <3>5, <4>1, <4>2
    <3> QED BY <3>4, <3>5
  <2>10. \A i, j \in 1 .. Len(g) : i < j => Dist(n, g[i]) < Dist(n, g[j])
    <3> SUFFICES ASSUME NEW i \in 1 .. Len(g), NEW j \in 1 .. Len(g), i < j
                 PROVE  Dist(n, g[i]) < Dist(n, g[j])
      OBVIOUS
    <3>1. i + 1 \in 1 .. Len(f) /\ j + 1 \in 1 .. Len(f) /\ i + 1 < j + 1
      BY <1>1, <1>3
    <3>2. Dist(o, g[i]) < Dist(o, g[j])
      BY <1>0, <1>3, <3>1
    <3>3. Dist(o, n) \in Int /\ Dist(o, g[i]) \in Int /\ Dist(o, g[j]) \in Int
      BY <1>1, <2>1, <2>8, DistType
    <3> QED BY <2>8, <3>2, <3>3
  <2>11. d \in Manager(Cell)
    <3>1. \A s \in Slots : d.ring[s] \in Cell
      <4>1. u.ring[n] = Link(o, u.ring[n].next_first) /\ u.ring[n].next_first \in Pointers
        <5>1. /\ 2 \in 1 .. Len(f) /\ 2 # 1 /\ 2 - 1 = 1
              /\ 2 # Len(f) => f[2 + 1] \in Slots
          BY <1>1, <1>5
        <5>2. u.ring[n] = Link(o, IF 2 = Len(f) THEN Null ELSE f[2 + 1])
          BY <5>1, <1>2
        <5> QED BY <5>1, <5>2 DEF Link, Pointers
      <4> QED BY <1>1, <2>7, <4>1 DEF Manager, Link, Links, Pointers
    <3>2. DOMAIN d.ring = Slots /\ d.ring = [s \in Slots |-> d.ring[s]]
      BY DEF DropSegment
    <3> QED BY <1>1, <1>5, <2>1, <2>2, <3>1, <3>2 DEF DropSegment, Manager, Pointers
  <2>12. \A s \in Slots : ~InUse(d, s) => d.ring[s] = Freed
    <3>1. \A s \in Slots : ~InUse(u, s) => u.ring[s] = Freed
      BY <1>1 DEF RingOK
    <3>2. 2 \in 1 .. Len(f)
      BY <1>1, <1>5
    <3>3. InUse(u, n)
      BY <1>1, <3>2
    <3>4. Dist(o, n) \in Int /\ \A s \in Slots : Dist(o, s) \in Int
      BY <1>1, <2>1, DistType
    <3> QED BY <1>1, <2>1, <2>6, <2>7, <3>1, <3>3, <3>4
  <2>13. g # << >> /\ g[1] = n /\ g[Len(g)] = f[Len(f)]
    BY <1>1, <1>3, <1>5
  <2>14. Kept(u, f, d, g, Null)
    <3> SUFFICES ASSUME NEW s \in Slots, InUse(d, s), ~IsLink(g, s)
                 PROVE  InUse(u, s) /\ ~IsLink(f, s) /\ d.ring[s] = u.ring[s]
      BY DEF Kept
    <3>1. InUse(u, s) /\ Dist(o, n) <= Dist(o, s)
      BY <2>6
    <3>2. s # o
      <4>1. Dist(o, o) = 0 /\ Dist(o, n) \in Int
        BY <1>1, <2>1, DistType
      <4> QED BY <2>4, <3>1, <4>1
    <3>3. \A i \in 2 .. Len(f) : s # f[i]
      <4>1. \A i \in 2 .. Len(f) : i - 1 \in 1 .. Len(g) /\ g[i - 1] = f[i]
        BY <1>1, <1>3, <1>5
      <4> QED BY <4>1 DEF IsLink
    <3>4. ~IsLink(f, s)
      <4>1. \A i \in 1 .. Len(f) : i = 1 \/ i \in 2 .. Len(f)
        BY <1>1
      <4> QED BY <3>2, <3>3, <4>1 DEF IsLink
    <3>5. s # n
      BY <1>1, <1>5, <3>3
    <3>6. Dist(o, n) \in Int /\ Dist(o, s) \in Int
      BY <1>1, <2>1, DistType
    <3> QED BY <2>7, <3>1, <3>4, <3>5, <3>6
  <2> HIDE DEF d, g
  <2>15. Linked(Cell, d, g)
    BY <1>1, <1>3, <2>5, <2>8, <2>9, <2>10, <2>11, <2>12, <2>13 DEF Linked, RingOK
  <2> QED BY <2>14, <2>15 DEF d, g
<1> QED BY <1>1, <1>4, <1>5

-----------------------------------------------------------------------------
\* Newest with nothing left out.
LEMMA NewestAll ==
  ASSUME NEW S, NEW f \in Seq(S)
  PROVE  Newest(f, Len(f)) = f
<1>1. /\ Newest(f, Len(f)) \in Seq(S) /\ Len(Newest(f, Len(f))) = Len(f)
      /\ \A i \in 1 .. Len(f) : Newest(f, Len(f))[i] = f[Len(f) - Len(f) + i]
  BY NewestFacts
<1>2. \A i \in 1 .. Len(f) : Len(f) - Len(f) + i = i
  OBVIOUS
<1> QED BY <1>1, <1>2, SeqEqual

\* Leaving out twice leaves out once.
LEMMA NewestNewest ==
  ASSUME NEW S, NEW f \in Seq(S), NEW m \in 0 .. Len(f), NEW n \in 0 .. m
  PROVE  Newest(Newest(f, m), n) = Newest(f, n)
<1>1. /\ Newest(f, m) \in Seq(S) /\ Len(Newest(f, m)) = m
      /\ \A i \in 1 .. m : Newest(f, m)[i] = f[Len(f) - m + i]
  BY NewestFacts
<1>2. /\ Newest(Newest(f, m), n) \in Seq(S) /\ Len(Newest(Newest(f, m), n)) = n
      /\ \A i \in 1 .. n : Newest(Newest(f, m), n)[i] = Newest(f, m)[m - n + i]
  <2> DEFINE k == Newest(f, m)
  <2> HIDE DEF k
  <2>1. k \in Seq(S) /\ Len(k) = m /\ n \in 0 .. Len(k)
    BY <1>1 DEF k
  <2>2. /\ Newest(k, n) \in Seq(S) /\ Len(Newest(k, n)) = n
        /\ \A i \in 1 .. n : Newest(k, n)[i] = k[Len(k) - n + i]
    BY <2>1, NewestFacts
  <2> QED BY <2>1, <2>2 DEF k
<1>3. /\ Newest(f, n) \in Seq(S) /\ Len(Newest(f, n)) = n
      /\ \A i \in 1 .. n : Newest(f, n)[i] = f[Len(f) - n + i]
  <2>1. n \in 0 .. Len(f)
    OBVIOUS
  <2> QED BY <2>1, NewestFacts
<1>4. \A i \in 1 .. n : m - n + i \in 1 .. m /\ Len(f) - m + (m - n + i) = Len(f) - n + i
  OBVIOUS
<1> QED BY <1>1, <1>2, <1>3, <1>4, SeqEqual

\* A new link behind those that are left.
LEMMA NewestAppend ==
  ASSUME NEW S, NEW f \in Seq(S), NEW x \in S, NEW n \in 0 .. Len(f)
  PROVE  Append(Newest(f, n), x) = Newest(Append(f, x), n + 1)
<1> DEFINE g == Newest(f, n)
           h == Append(f, x)
<1>1. /\ g \in Seq(S) /\ Len(g) = n
      /\ \A i \in 1 .. n : g[i] = f[Len(f) - n + i]
  BY NewestFacts
<1>2. /\ h \in Seq(S) /\ Len(h) = Len(f) + 1 /\ h[Len(f) + 1] = x
      /\ \A i \in 1 .. Len(f) : h[i] = f[i]
  OBVIOUS
<1>3. /\ Newest(h, n + 1) \in Seq(S) /\ Len(Newest(h, n + 1)) = n + 1
      /\ \A i \in 1 .. n + 1 : Newest(h, n + 1)[i] = h[Len(h) - (n + 1) + i]
  <2>1. n + 1 \in 0 .. Len(h)
    BY <1>2
  <2> HIDE DEF h
  <2> QED BY <1>2, <2>1, NewestFacts
<1>4. /\ Append(g, x) \in Seq(S) /\ Len(Append(g, x)) = n + 1
      /\ Append(g, x)[n + 1] = x
      /\ \A i \in 1 .. n : Append(g, x)[i] = g[i]
  <2> HIDE DEF g
  <2> QED BY <1>1
<1>5. \A i \in 1 .. n + 1 : Append(g, x)[i] = Newest(h, n + 1)[i]
  <2> SUFFICES ASSUME NEW i \in 1 .. n + 1
               PROVE  Append(g, x)[i] = Newest(h, n + 1)[i]
    OBVIOUS
  <2>1. Len(h) - (n + 1) + i = Len(f) - n + i
    BY <1>2
  <2>2. CASE i = n + 1
    <3>1. Len(f) - n + i = Len(f) + 1
      BY <2>2
    <3> HIDE DEF g, h
    <3> QED BY <1>2, <1>3, <1>4, <2>1, <2>2, <3>1
  <2>3. CASE i # n + 1
    <3>1. i \in 1 .. n /\ Len(f) - n + i \in 1 .. Len(f)
      BY <2>3
    <3> HIDE DEF g, h
    <3>2. Newest(h, n + 1)[i] = h[Len(f) - n + i]
      BY <1>3, <2>1
    <3>3. h[Len(f) - n + i] = f[Len(f) - n + i]
      BY <1>2, <3>1
    <3>4. Append(g, x)[i] = f[Len(f) - n + i]
      BY <1>1, <1>4, <3>1
    <3> QED BY <3>2, <3>3, <3>4
  <2> QED BY <2>2, <2>3
<1> HIDE DEF g, h
<1> QED BY <1>3, <1>4, <1>5, SeqEqual DEF g, h

\* One drop always makes room: alloc_rec turns its loop at most once.
LEMMA DropMakesRoom ==
  ASSUME NEW Cell, NEW u, NEW f, Linked(Cell, u, f), f # << >>
  PROVE  HasRoom(DropSegment(u))
<1>1. /\ u \in Manager(Cell) /\ f \in Seq(Slots) /\ Len(f) = u.savept_cnt
      /\ u.oldest_first = f[1] /\ Len(f) \in Nat \ {0}
      /\ \A i \in 1 .. Len(f) : f[i] \in Slots /\ InUse(u, f[i])
      /\ \A i, j \in 1 .. Len(f) : i < j => Dist(f[1], f[i]) < Dist(f[1], f[j])
      /\ \A i \in 1 .. Len(f) : u.ring[f[i]] = Link(IF i = 1 THEN Null ELSE f[i - 1],
                                                    IF i = Len(f) THEN Null ELSE f[i + 1])
  BY DEF Linked, RingOK, Manager
<1>2. CASE Len(f) = 1
  BY <1>1, <1>2 DEF HasRoom, DropSegment
<1>3. CASE Len(f) > 1
  <2>1. 1 \in 1 .. Len(f) /\ 2 \in 1 .. Len(f) /\ 1 # Len(f) /\ 1 + 1 = 2 /\ 1 < 2
    BY <1>1, <1>3
  <2>2. u.ring[f[1]] = Link(Null, f[2])
    BY <1>1, <2>1
  <2>3. f[1] # f[2] /\ Dist(f[1], f[2]) < Span(f[1], u.next_free)
    BY <1>1, <2>1, DistType DEF InUse
  <2>4. f[2] # u.next_free
    BY <1>1, <2>1, <2>3, InUseAfterDrop DEF Manager
  <2> QED BY <1>1, <2>2, <2>4 DEF HasRoom, DropSegment, Link
<1> QED BY <1>1, <1>2, <1>3

-----------------------------------------------------------------------------
\* What is true of a slot r that alloc_rec has just handed out.
Fresh(u, f, r) ==
  /\ r \in Slots /\ u.ring[r] = Freed
  /\ u.next_free = inc_rec_ptr(r)
  /\ f # << >> => InUse(u, r)
  /\ \A i \in 1 .. Len(f) : Dist(f[1], f[i]) < Dist(f[1], r)

\* Taking the slot at next_free keeps the links and yields a fresh slot.
LEMMA TakeLinked ==
  ASSUME NEW Cell, NEW u, NEW f, Linked(Cell, u, f), HasRoom(u)
  PROVE  /\ Linked(Cell, Take(u).undo, f)
         /\ Fresh(Take(u).undo, f, Take(u).rec)
         /\ Kept(u, f, Take(u).undo, f, Take(u).rec)
<1> DEFINE t == Take(u).undo
           r == Take(u).rec
           o == f[1]
<1>1. /\ u \in Manager(Cell) /\ f \in Seq(Slots) /\ RingOK(u, f)
      /\ Len(f) \in Nat /\ Len(f) = u.savept_cnt /\ r = u.next_free /\ r \in Slots
  BY DEF Linked, RingOK, Manager, Take
<1>2. /\ t.ring = u.ring /\ t.cur_first = u.cur_first /\ t.oldest_first = u.oldest_first
      /\ t.savept_cnt = u.savept_cnt /\ t.next_free = inc_rec_ptr(r)
  BY DEF Take
<1>3. t \in Manager(Cell)
  BY <1>1, IncFacts DEF Take, Manager
<1>4. CASE f = << >>
  <2>1. \A s \in Slots : ~InUse(u, s) /\ ~InUse(t, s)
    BY <1>1, <1>2, <1>4 DEF InUse
  <2> HIDE DEF t, r
  <2> QED BY <1>1, <1>2, <1>3, <1>4, <2>1 DEF Linked, RingOK, Fresh, Kept, t, r
<1>5. CASE f # << >>
  <2>1. /\ o \in Slots /\ u.oldest_first = o /\ u.savept_cnt > 0 /\ r # o
        /\ \A i \in 1 .. Len(f) : f[i] \in Slots /\ InUse(u, f[i])
    BY <1>1, <1>5 DEF RingOK, HasRoom
  <2>2. Span(o, u.next_free) = Dist(o, r) /\ Span(o, t.next_free) = Dist(o, r) + 1
    BY <1>1, <1>2, <2>1, IncFacts DEF Span
  <2>3. \A s \in Slots : Dist(o, s) \in Int
    BY <2>1, DistType
  <2>4. \A s \in Slots : InUse(u, s) <=> Dist(o, s) < Dist(o, r)
    BY <2>1, <2>2 DEF InUse
  <2>5. \A s \in Slots : InUse(t, s) <=> Dist(o, s) < Dist(o, r) + 1
    BY <1>2, <2>1, <2>2 DEF InUse
  <2>6. \A s \in Slots : InUse(u, s) => InUse(t, s)
    BY <1>1, <2>3, <2>4, <2>5
  <2>7. InUse(t, r) /\ ~InUse(u, r)
    BY <1>1, <2>3, <2>4, <2>5
  <2> HIDE DEF t, r
  <2>8. Linked(Cell, t, f)
    BY <1>1, <1>2, <1>3, <2>1, <2>6 DEF Linked, RingOK
  <2>9. Fresh(t, f, r)
    BY <1>1, <1>2, <2>1, <2>4, <2>7 DEF RingOK, Fresh
  <2>10. \A s \in Slots : InUse(t, s) /\ s # r => InUse(u, s)
    <3> SUFFICES ASSUME NEW s \in Slots, InUse(t, s), s # r PROVE InUse(u, s)
      OBVIOUS
    <3>1. Dist(o, s) \in Int /\ Dist(o, r) \in Int /\ Dist(o, s) # Dist(o, r)
      BY <1>1, <2>1, DistType, DistInjective
    <3> QED BY <2>4, <2>5, <3>1
  <2>11. Kept(u, f, t, f, r)
    BY <1>2, <2>10 DEF Kept
  <2> QED BY <2>8, <2>9, <2>11 DEF t, r
<1> QED BY <1>4, <1>5

\* A fresh slot is none of the links.
LEMMA FreshNotLink ==
  ASSUME NEW Cell, NEW u, NEW f, NEW r, Linked(Cell, u, f), Fresh(u, f, r)
  PROVE  \A i \in 1 .. Len(f) : f[i] # r
<1> SUFFICES ASSUME NEW i \in 1 .. Len(f), f[i] = r PROVE FALSE
  OBVIOUS
<1>1. f[1] \in Slots /\ r \in Slots /\ Dist(f[1], f[i]) < Dist(f[1], r)
  BY DEF Linked, Fresh
<1> QED BY <1>1, DistType

\* Writing a record to a fresh slot touches neither a link nor another record.
LEMMA StoreLinked ==
  ASSUME NEW Cell, NEW u, NEW f, NEW r, NEW x \in Cell,
         Linked(Cell, u, f), Fresh(u, f, r), f # << >>
  PROVE  /\ Linked(Cell, Store(u, r, x), f)
         /\ Kept(u, f, Store(u, r, x), f, r) /\ Store(u, r, x).ring[r] = x
<1> DEFINE t == Store(u, r, x)
<1>1. /\ u \in Manager(Cell) /\ f \in Seq(Slots) /\ RingOK(u, f)
      /\ r \in Slots /\ InUse(u, r) /\ Len(f) \in Nat
      /\ \A i \in 1 .. Len(f) : f[i] \in Slots /\ f[i] # r
  BY FreshNotLink DEF Linked, Fresh
<1>2. /\ t.cur_first = u.cur_first /\ t.oldest_first = u.oldest_first
      /\ t.savept_cnt = u.savept_cnt /\ t.next_free = u.next_free
      /\ \A s \in Slots : s # r => t.ring[s] = u.ring[s]
  BY <1>1 DEF Store, Manager
<1>3. t \in Manager(Cell)
  BY <1>1 DEF Store, Manager
<1>4. \A s \in Slots : InUse(t, s) <=> InUse(u, s)
  BY <1>2 DEF InUse
<1>5. t.ring[r] = x
  BY <1>1 DEF Store, Manager
<1> HIDE DEF t
<1>6. Linked(Cell, t, f)
  BY <1>1, <1>2, <1>3, <1>4 DEF Linked, RingOK
<1>7. Kept(u, f, t, f, r)
  BY <1>2, <1>4 DEF Kept
<1> QED BY <1>5, <1>6, <1>7 DEF t

\* A new link at a fresh slot, once it is counted, is the newest link.
LEMMA PushLinked ==
  ASSUME NEW Cell, Links \subseteq Cell,
         NEW u, NEW f, NEW r, Linked(Cell, u, f), Fresh(u, f, r)
  PROVE  /\ Linked(Cell, CountSavept(PushLink(u, r)), Append(f, r))
         /\ Kept(u, f, CountSavept(PushLink(u, r)), Append(f, r), Null)
<1> DEFINE t == CountSavept(PushLink(u, r))
           h == Append(f, r)
           n == Len(f)
<1>1. /\ u \in Manager(Cell) /\ f \in Seq(Slots) /\ RingOK(u, f)
      /\ r \in Slots /\ r # Null /\ n \in Nat /\ n = u.savept_cnt
      /\ u.next_free = inc_rec_ptr(r)
      /\ \A i \in 1 .. n : f[i] \in Slots /\ f[i] # r /\ f[i] # Null
  <2>1. /\ u \in Manager(Cell) /\ f \in Seq(Slots) /\ RingOK(u, f)
        /\ r \in Slots /\ u.next_free = inc_rec_ptr(r)
    BY DEF Linked, Fresh
  <2>2. \A i \in 1 .. n : f[i] \in Slots /\ f[i] # r
    BY <2>1, FreshNotLink
  <2>3. Len(f) = u.savept_cnt
    BY <2>1 DEF RingOK
  <2>4. n \in Nat
    BY <2>1
  <2>5. r # Null /\ \A i \in 1 .. n : f[i] # Null
    BY <2>1, <2>2, NullNotSlot
  <2> QED BY <2>1, <2>2, <2>3, <2>4, <2>5
<1>2. /\ h \in Seq(Slots) /\ Len(h) = n + 1 /\ h[n + 1] = r /\ h # << >>
      /\ \A i \in 1 .. n : h[i] = f[i]
  <2>1. f \in Seq(Slots) /\ r \in Slots
    BY <1>1
  <2> QED BY <2>1
<1>3. /\ t.cur_first = r /\ t.next_free = u.next_free /\ t.savept_cnt = n + 1
      /\ t.oldest_first = IF u.oldest_first = Null THEN r ELSE u.oldest_first
      /\ t.ring = [s \in Slots |->
                     IF s = r THEN Link(u.cur_first, Null)
                     ELSE IF s = u.cur_first THEN Link(u.ring[s].prev_first, r)
                     ELSE u.ring[s]]
  BY <1>1 DEF CountSavept, PushLink
<1>4. t = [ring |-> t.ring, cur_first |-> t.cur_first, oldest_first |-> t.oldest_first,
           next_free |-> t.next_free, savept_cnt |-> t.savept_cnt]
  BY DEF CountSavept
<1>5. CASE n = 0
  <2>1. u.cur_first = Null /\ u.oldest_first = Null /\ \A s \in Slots : u.ring[s] = Freed
    BY <1>1, <1>5 DEF RingOK, InUse
  <2>2. \A s \in Slots : InUse(t, s) <=> s = r
    <3>1. Span(r, inc_rec_ptr(r)) = 1
      BY <1>1, IncFacts, DistType
    <3>2. \A s \in Slots : Dist(r, s) < 1 <=> s = r
      BY <1>1, DistType, DistInjective
    <3> HIDE DEF t
    <3> QED BY <1>1, <1>3, <1>5, <2>1, <3>1, <3>2 DEF InUse
  <2>3. t \in Manager(Cell)
    <3>1. Link(Null, Null) \in Cell
      BY DEF Link, Links, Pointers
    <3> HIDE DEF t
    <3>2. \A s \in Slots : t.ring[s] \in Cell
      BY <1>1, <1>3, <2>1, <3>1, NullNotSlot DEF Manager
    <3>3. t.ring \in [Slots -> Cell]
      BY <1>3, <3>2
    <3> QED BY <1>1, <1>3, <1>4, <1>5, <2>1, <3>3 DEF Manager, Pointers
  <2> HIDE DEF t, h
  <2>4. Linked(Cell, t, h)
    <3>1. h[1] = r /\ Len(h) = 1 /\ t.ring[r] = Link(Null, Null)
      BY <1>1, <1>2, <1>3, <1>5, <2>1
    <3>2. \A s \in Slots : ~InUse(t, s) => t.ring[s] = Freed
      BY <1>3, <2>1, <2>2, NullNotSlot
    <3> QED BY <1>1, <1>2, <1>3, <1>5, <2>1, <2>2, <2>3, <3>1, <3>2 DEF Linked, RingOK
  <2>5. Kept(u, f, t, h, Null)
    BY <1>2, <1>5, <2>2 DEF Kept, IsLink
  <2> QED BY <2>4, <2>5 DEF t, h
<1>6. CASE n > 0
  <2> DEFINE o == f[1]
  <2>1. /\ o \in Slots /\ u.oldest_first = o /\ o # Null /\ u.cur_first = f[n]
        /\ \A i \in 1 .. n : InUse(u, f[i])
        /\ InUse(u, r)
    BY <1>1, <1>6 DEF RingOK, Fresh
  <2>2. \A i \in 1 .. n : u.ring[f[i]] = Link(IF i = 1 THEN Null ELSE f[i - 1],
                                              IF i = n THEN Null ELSE f[i + 1])
    BY <1>1 DEF RingOK
  <2>3. \A s \in Slots : InUse(t, s) <=> InUse(u, s)
    <3> HIDE DEF t
    <3> QED BY <1>1, <1>3, <1>6, <2>1 DEF InUse
  <2>4. \A i, j \in 1 .. n : i < j => Dist(o, f[i]) < Dist(o, f[j])
    BY <1>1 DEF RingOK
  <2>5. \A i \in 1 .. n : Dist(o, f[i]) < Dist(o, r)
    BY DEF Fresh
  <2>6. \A i, j \in 1 .. n : i # j => f[i] # f[j]
    <3> SUFFICES ASSUME NEW i \in 1 .. n, NEW j \in 1 .. n, i # j PROVE f[i] # f[j]
      OBVIOUS
    <3>1. i < j \/ j < i
      BY <1>1
    <3>2. Dist(o, f[i]) \in Int /\ Dist(o, f[j]) \in Int
      BY <1>1, <2>1, DistType
    <3> QED BY <2>4, <3>1, <3>2
  <2>7. \A i \in 1 .. n + 1 :
          t.ring[h[i]] = Link(IF i = 1 THEN Null ELSE h[i - 1],
                              IF i = n + 1 THEN Null ELSE h[i + 1])
    <3> SUFFICES ASSUME NEW i \in 1 .. n + 1
                 PROVE  t.ring[h[i]] = Link(IF i = 1 THEN Null ELSE h[i - 1],
                                            IF i = n + 1 THEN Null ELSE h[i + 1])
      OBVIOUS
    <3>1. CASE i = n + 1
      <4>1. h[i] = r /\ h[i - 1] = f[n] /\ i # 1
        BY <1>1, <1>2, <1>6, <3>1
      <4> HIDE DEF t, h
      <4> QED BY <1>1, <1>3, <2>1, <3>1, <4>1
    <3>2. CASE i = n
      <4>1. h[i] = f[n] /\ h[i + 1] = r /\ i # n + 1 /\ (i # 1 => h[i - 1] = f[n - 1])
        BY <1>1, <1>2, <1>6, <3>2
      <4>2. t.ring[f[n]] = Link(u.ring[f[n]].prev_first, r)
        BY <1>1, <1>3, <1>6, <2>1
      <4>3. u.ring[f[n]] = Link(IF n = 1 THEN Null ELSE f[n - 1], Null)
        BY <1>1, <1>6, <2>2
      <4> HIDE DEF t, h
      <4> QED BY <3>2, <4>1, <4>2, <4>3 DEF Link
    <3>3. CASE i # n /\ i # n + 1
      <4>1. i \in 1 .. n /\ i + 1 \in 1 .. n /\ (i # 1 => i - 1 \in 1 .. n)
        BY <1>1, <3>3
      <4>2. h[i] = f[i] /\ h[i + 1] = f[i + 1] /\ (i # 1 => h[i - 1] = f[i - 1])
        BY <1>2, <4>1
      <4>3. f[i] # f[n]
        BY <1>1, <1>6, <2>6, <3>3, <4>1
      <4>4. t.ring[f[i]] = u.ring[f[i]]
        BY <1>1, <1>3, <2>1, <4>1, <4>3
      <4> HIDE DEF t, h
      <4> QED BY <2>2, <3>3, <4>1, <4>2, <4>4
    <3> QED BY <3>1, <3>2, <3>3
  <2>8. \A i, j \in 1 .. n + 1 : i < j => Dist(h[1], h[i]) < Dist(h[1], h[j])
    <3> SUFFICES ASSUME NEW i \in 1 .. n + 1, NEW j \in 1 .. n + 1, i < j
                 PROVE  Dist(h[1], h[i]) < Dist(h[1], h[j])
      OBVIOUS
    <3>1. i \in 1 .. n /\ 1 \in 1 .. n /\ (j \in 1 .. n \/ j = n + 1)
      BY <1>1, <1>6
    <3> QED BY <1>2, <2>4, <2>5, <3>1
  <2>9. t \in Manager(Cell)
    <3>1. Link(f[n], Null) \in Cell
      BY <1>1, <1>6 DEF Link, Links, Pointers
    <3>2. Link(u.ring[f[n]].prev_first, r) \in Cell
      <4>0. n \in 1 .. n /\ u.ring[f[n]] = Link(IF n = 1 THEN Null ELSE f[n - 1], Null)
        BY <1>1, <1>6, <2>2
      <4>1. u.ring[f[n]].prev_first = IF n = 1 THEN Null ELSE f[n - 1]
        BY <4>0 DEF Link
      <4>2. u.ring[f[n]].prev_first \in Pointers
        BY <1>1, <1>6, <4>1 DEF Pointers
      <4> QED BY <1>1, <4>2 DEF Link, Links, Pointers
    <3>3. \A s \in Slots : t.ring[s] \in Cell
      BY <1>1, <1>3, <2>1, <3>1, <3>2 DEF Manager
    <3> HIDE DEF t
    <3>4. t.ring \in [Slots -> Cell]
      BY <1>3, <3>3
    <3> QED BY <1>1, <1>3, <1>4, <1>6, <2>1, <3>4 DEF Manager, Pointers
  <2>10. \A s \in Slots : ~InUse(t, s) => t.ring[s] = Freed
    <3>1. \A s \in Slots : ~InUse(u, s) => u.ring[s] = Freed /\ s # r /\ s # f[n]
      BY <1>1, <1>6, <2>1 DEF RingOK
    <3> QED BY <1>3, <2>1, <2>3, <3>1
  <2>11. \A i \in 1 .. n + 1 : InUse(t, h[i])
    BY <1>1, <1>2, <2>1, <2>3
  <2>12. h[1] = o
    BY <1>2, <1>6, <1>1
  <2> HIDE DEF t, h
  <2>13. Linked(Cell, t, h)
    BY <1>1, <1>2, <1>3, <2>1, <2>7, <2>8, <2>9, <2>10, <2>11, <2>12 DEF Linked, RingOK
  <2>14. Kept(u, f, t, h, Null)
    <3> SUFFICES ASSUME NEW s \in Slots, InUse(t, s), ~IsLink(h, s)
                 PROVE  InUse(u, s) /\ ~IsLink(f, s) /\ t.ring[s] = u.ring[s]
      BY DEF Kept
    <3>1. \A i \in 1 .. n : i \in 1 .. Len(h) /\ h[i] = f[i]
      BY <1>1, <1>2
    <3>2. ~IsLink(f, s)
      BY <3>1 DEF IsLink
    <3>3. s # r /\ s # f[n]
      <4>1. n + 1 \in 1 .. Len(h) /\ n \in 1 .. Len(f)
        BY <1>1, <1>2, <1>6
      <4> QED BY <1>2, <3>2, <4>1 DEF IsLink
    <3> QED BY <1>3, <2>1, <2>3, <3>2, <3>3
  <2> QED BY <2>13, <2>14 DEF t, h
<1> QED BY <1>1, <1>5, <1>6

\* A sequence without its last element.
LEMMA FrontFacts ==
  ASSUME NEW S, NEW f \in Seq(S), f # << >>
  PROVE  LET g == SubSeq(f, 1, Len(f) - 1)
         IN  g \in Seq(S) /\ Len(g) = Len(f) - 1 /\ \A i \in 1 .. Len(f) - 1 : g[i] = f[i]
  OBVIOUS

\* Going back to the newest savepoint takes its link, and only that, away.
LEMMA UnwindLinked ==
  ASSUME NEW Cell, Links \subseteq Cell, Freed \in Cell,
         NEW u, NEW f, Linked(Cell, u, f), f # << >>
  PROVE  /\ Linked(Cell, unwind(u), SubSeq(f, 1, Len(f) - 1))
         /\ Kept(u, f, unwind(u), SubSeq(f, 1, Len(f) - 1), Null)
<1> DEFINE t == unwind(u)
           n == Len(f)
           g == SubSeq(f, 1, n - 1)
           o == f[1]
           c == f[n]
           e == u.next_free
<1>1. /\ u \in Manager(Cell) /\ f \in Seq(Slots) /\ RingOK(u, f)
      /\ n \in Nat \ {0} /\ n = u.savept_cnt /\ e \in Slots
      /\ o \in Slots /\ c \in Slots /\ u.oldest_first = o /\ u.cur_first = c
      /\ \A i \in 1 .. n : f[i] \in Slots /\ InUse(u, f[i])
      /\ \A s \in Slots : u.ring[s] \in Cell
  BY DEF Linked, RingOK, Manager
<1>2. \A i \in 1 .. n : u.ring[f[i]] = Link(IF i = 1 THEN Null ELSE f[i - 1],
                                            IF i = n THEN Null ELSE f[i + 1])
  BY <1>1 DEF RingOK
<1>3. \A i, j \in 1 .. n : i < j => Dist(o, f[i]) < Dist(o, f[j])
  BY <1>1 DEF RingOK
<1>4. \A s \in Slots : ~InUse(u, s) => u.ring[s] = Freed
  BY <1>1 DEF RingOK
<1>5. g \in Seq(Slots) /\ Len(g) = n - 1 /\ \A i \in 1 .. n - 1 : g[i] = f[i]
  BY <1>1, FrontFacts
<1> HIDE DEF g
<1>6. u.ring[c].prev_first = IF n = 1 THEN Null ELSE f[n - 1]
  <2>1. n \in 1 .. n /\ u.ring[c] = Link(IF n = 1 THEN Null ELSE f[n - 1], Null)
    BY <1>1, <1>2
  <2> QED BY <2>1 DEF Link
<1>7. t = [ring |-> t.ring, cur_first |-> t.cur_first, oldest_first |-> t.oldest_first,
           next_free |-> t.next_free, savept_cnt |-> t.savept_cnt]
  BY DEF unwind
<1>8. /\ t.cur_first = u.ring[c].prev_first /\ t.next_free = c /\ t.savept_cnt = n - 1
      /\ t.oldest_first = IF u.ring[c].prev_first = Null THEN Null ELSE o
      /\ t.ring = [s \in Slots |->
                     IF Dist(c, s) < Span(c, e) THEN Freed
                     ELSE IF s = u.ring[c].prev_first
                          THEN Link(u.ring[s].prev_first, Null)
                     ELSE u.ring[s]]
  BY <1>1 DEF unwind
<1>9. CASE n = 1
  <2>1. t.cur_first = Null /\ t.oldest_first = Null /\ t.savept_cnt = 0 /\ g = << >>
    BY <1>5, <1>6, <1>8, <1>9
  <2>2. \A s \in Slots : InUse(u, s) <=> Dist(c, s) < Span(c, e)
    BY <1>1, <1>9 DEF InUse
  <2> HIDE DEF t
  <2>3. \A s \in Slots : t.ring[s] = Freed
    BY <1>4, <1>6, <1>8, <1>9, <2>2, NullNotSlot
  <2>4. t.ring \in [Slots -> Cell]
    BY <1>8, <2>3
  <2>5. t \in Manager(Cell)
    BY <1>1, <1>7, <1>8, <2>1, <2>4 DEF Manager, Pointers
  <2>6. Linked(Cell, t, g)
    BY <1>5, <2>1, <2>3, <2>5 DEF Linked, RingOK
  <2>7. Kept(u, f, t, g, Null)
    BY <2>1 DEF Kept, InUse
  <2> QED BY <2>6, <2>7 DEF t, g
<1>10. CASE n > 1
  <2> DEFINE p == f[n - 1]
  <2>1. /\ n \in 1 .. n /\ n - 1 \in 1 .. n /\ n - 1 # n /\ 1 \in 1 .. n /\ 1 < n
        /\ (n - 1) + 1 = n
    BY <1>1, <1>10
  <2>2. p \in Slots /\ p # Null /\ u.ring[c].prev_first = p
    BY <1>1, <1>6, <1>10, <2>1, NullNotSlot
  <2>3. Dist(o, c) \in Int /\ 0 < Dist(o, c) /\ o # c
    <3>1. Dist(o, o) = 0 /\ Dist(o, c) \in Int
      BY <1>1, DistType
    <3>2. Dist(o, o) < Dist(o, c)
      BY <1>3, <2>1
    <3> QED BY <3>1, <3>2
  <2>4. Dist(o, c) < Span(o, e)
    BY <1>1, <2>1 DEF InUse
  <2>5. \A s \in Slots : Dist(c, s) < Span(c, e)
                           <=> Dist(o, c) <= Dist(o, s) /\ Dist(o, s) < Span(o, e)
    BY <1>1, <2>3, <2>4, InUseAfterDrop
  <2>6. \A s \in Slots : InUse(u, s) <=> Dist(o, s) < Span(o, e)
    BY <1>1 DEF InUse
  <2>7. \A s \in Slots : InUse(t, s) <=> Dist(o, s) < Dist(o, c)
    <3>1. t.oldest_first = o /\ t.next_free = c /\ t.savept_cnt > 0
      BY <1>1, <1>8, <1>10, <2>2
    <3>2. Span(o, c) = Dist(o, c)
      BY <2>3 DEF Span
    <3> HIDE DEF t
    <3> QED BY <3>1, <3>2 DEF InUse
  <2>8. \A s \in Slots : Dist(o, s) \in Int /\ Span(o, e) \in Int
    BY <1>1, DistType
  <2>9. \A i \in 1 .. n - 1 : f[i] \in Slots /\ InUse(t, f[i])
    <3> SUFFICES ASSUME NEW i \in 1 .. n - 1
                 PROVE  f[i] \in Slots /\ InUse(t, f[i])
      OBVIOUS
    <3>1. i \in 1 .. n /\ i < n
      BY <1>1
    <3>2. Dist(o, f[i]) < Dist(o, c)
      BY <1>3, <2>1, <3>1
    <3> QED BY <1>1, <2>7, <3>1, <3>2
  <2>10. \A s \in Slots : t.ring[s] = IF ~InUse(t, s) THEN Freed
                                      ELSE IF s = p THEN Link(u.ring[s].prev_first, Null)
                                      ELSE u.ring[s]
    <3> SUFFICES ASSUME NEW s \in Slots
                 PROVE  t.ring[s] = IF ~InUse(t, s) THEN Freed
                                    ELSE IF s = p THEN Link(u.ring[s].prev_first, Null)
                                    ELSE u.ring[s]
      OBVIOUS
    <3>1. InUse(t, s) => ~(Dist(c, s) < Span(c, e))
      BY <2>3, <2>5, <2>7, <2>8
    <3>2. ~InUse(t, s) => Dist(c, s) < Span(c, e) \/ (u.ring[s] = Freed /\ s # p)
      <4>1. InUse(t, p)
        BY <1>1, <1>10, <2>9
      <4> HIDE DEF t
      <4> QED BY <1>4, <2>3, <2>5, <2>6, <2>7, <2>8, <4>1
    <3> HIDE DEF t
    <3> QED BY <1>8, <2>2, <3>1, <3>2
  <2>11. \A i \in 1 .. n - 1 :
           t.ring[f[i]] = Link(IF i = 1 THEN Null ELSE f[i - 1],
                               IF i = n - 1 THEN Null ELSE f[i + 1])
    <3> SUFFICES ASSUME NEW i \in 1 .. n - 1
                 PROVE  t.ring[f[i]] = Link(IF i = 1 THEN Null ELSE f[i - 1],
                                            IF i = n - 1 THEN Null ELSE f[i + 1])
      OBVIOUS
    <3>1. i \in 1 .. n /\ i # n
      BY <1>1
    <3>2. u.ring[f[i]] = Link(IF i = 1 THEN Null ELSE f[i - 1], f[i + 1])
      BY <1>2, <3>1
    <3> HIDE DEF t
    <3>3. CASE i = n - 1
      BY <2>9, <2>10, <3>2, <3>3 DEF Link
    <3>4. CASE i # n - 1
      <4>1. i < n - 1
        BY <1>1, <3>4
      <4>2. f[i] # p
        <5>1. Dist(o, f[i]) < Dist(o, p)
          BY <1>3, <2>1, <3>1, <4>1
        <5> QED BY <5>1, <2>2, <2>8
      <4> QED BY <2>9, <2>10, <3>2, <3>4, <4>2
    <3> QED BY <3>3, <3>4
  <2>12. t \in Manager(Cell)
    <3>1. Link(u.ring[p].prev_first, Null) \in Cell
      <4>1. u.ring[p] = Link(IF n - 1 = 1 THEN Null ELSE f[(n - 1) - 1], c)
        BY <1>2, <2>1
      <4>2. n - 1 # 1 => f[(n - 1) - 1] \in Slots
        <5>1. n - 1 # 1 => (n - 1) - 1 \in 1 .. n
          BY <1>1, <1>10
        <5> QED BY <1>1, <5>1
      <4>3. u.ring[p].prev_first \in Pointers
        BY <4>1, <4>2 DEF Link, Pointers
      <4> QED BY <4>3 DEF Link, Links, Pointers
    <3> HIDE DEF t
    <3>2. \A s \in Slots : t.ring[s] \in Cell
      BY <1>1, <2>10, <3>1
    <3>3. t.ring \in [Slots -> Cell]
      BY <1>8, <3>2
    <3> QED BY <1>1, <1>7, <1>8, <1>10, <2>2, <3>3 DEF Manager, Pointers
  <2>13. g # << >> /\ g[1] = o /\ g[Len(g)] = p /\ t.oldest_first = o /\ t.cur_first = p
    <3>1. 1 \in 1 .. n - 1 /\ n - 1 \in 1 .. n - 1
      BY <1>1, <1>10
    <3> QED BY <1>5, <1>8, <2>2, <3>1
  <2>14. \A i \in 1 .. n - 1 :
           /\ i # 1 => g[i - 1] = f[i - 1]
           /\ i # n - 1 => g[i + 1] = f[i + 1]
    <3>1. \A i \in 1 .. n - 1 : (i # 1 => i - 1 \in 1 .. n - 1)
                                /\ (i # n - 1 => i + 1 \in 1 .. n - 1)
      BY <1>1
    <3> QED BY <1>5, <3>1
  <2>15. \A i, j \in 1 .. n - 1 : i < j => Dist(o, g[i]) < Dist(o, g[j])
    <3>1. \A i \in 1 .. n - 1 : i \in 1 .. n
      BY <1>1
    <3> QED BY <1>3, <1>5, <3>1
  <2> HIDE DEF t
  <2>16. Linked(Cell, t, g)
    <3>1. Len(g) = t.savept_cnt /\ t.oldest_first = g[1] /\ t.cur_first = g[Len(g)]
      BY <1>5, <1>8, <2>13
    <3>2. \A i \in 1 .. Len(g) :
            /\ InUse(t, g[i])
            /\ t.ring[g[i]] = Link(IF i = 1 THEN Null ELSE g[i - 1],
                                   IF i = Len(g) THEN Null ELSE g[i + 1])
      BY <1>5, <2>9, <2>11, <2>14
    <3>3. \A i, j \in 1 .. Len(g) : i < j => Dist(g[1], g[i]) < Dist(g[1], g[j])
      BY <1>5, <2>13, <2>15
    <3> QED BY <1>5, <2>10, <2>12, <2>13, <3>1, <3>2, <3>3 DEF Linked, RingOK
  <2>17. Kept(u, f, t, g, Null)
    <3> SUFFICES ASSUME NEW s \in Slots, InUse(t, s), ~IsLink(g, s)
                 PROVE  InUse(u, s) /\ ~IsLink(f, s) /\ t.ring[s] = u.ring[s]
      BY DEF Kept
    <3>1. Dist(o, s) < Dist(o, c) /\ Dist(o, s) \in Int /\ Dist(o, c) \in Int
      BY <1>1, <2>7, <2>8
    <3>2. InUse(u, s)
      BY <2>4, <2>6, <2>8, <3>1
    <3>3. \A i \in 1 .. n : i = n \/ (i \in 1 .. Len(g) /\ g[i] = f[i])
      BY <1>1, <1>5
    <3>4. ~IsLink(f, s)
      BY <3>1, <3>3 DEF IsLink
    <3>5. s # p
      BY <2>1, <3>4 DEF IsLink
    <3> QED BY <2>10, <3>2, <3>4, <3>5
  <2> QED BY <2>16, <2>17 DEF t, g
<1> QED BY <1>1, <1>9, <1>10

-----------------------------------------------------------------------------
\* The methods.  v is a ring with some of the oldest links of f dropped.
Shrunk(Cell, v, f) ==
  v.savept_cnt \in 0 .. Len(f) /\ Linked(Cell, v, Newest(f, v.savept_cnt))

\* Records kept by two operations in a row are kept.
LEMMA KeptTrans ==
  ASSUME NEW u, NEW f, NEW v, NEW g, NEW w, NEW h, NEW r,
         Kept(u, f, v, g, Null), Kept(v, g, w, h, r)
  PROVE  Kept(u, f, w, h, r)
  BY NullNotSlot DEF Kept

\* The constructor, and drop_undo, leave a linked ring without savepoints.
LEMMA NewUndoLinked ==
  ASSUME NEW Cell, Freed \in Cell
  PROVE  Linked(Cell, NewUndo, << >>)
<1>1. 0 \in Slots
  BY RingAssumption DEF Slots
<1>2. NewUndo \in Manager(Cell)
  BY <1>1 DEF NewUndo, Manager, Pointers
<1>3. NewUndo.savept_cnt = 0 /\ NewUndo.oldest_first = Null /\ NewUndo.cur_first = Null
      /\ \A s \in Slots : NewUndo.ring[s] = Freed
  BY DEF NewUndo
<1> QED BY <1>2, <1>3 DEF Linked, RingOK

\* alloc_rec drops at most old savepoints, and gives a fresh slot or none.
LEMMA AllocLinked ==
  ASSUME NEW Cell, Links \subseteq Cell, Freed \in Cell, NEW u, NEW f, Linked(Cell, u, f)
  PROVE  LET a == alloc_rec(u)
         IN  /\ Shrunk(Cell, a.undo, f)
             /\ a.rec = Null => a.undo.savept_cnt = 0
             /\ a.rec # Null => Fresh(a.undo, Newest(f, a.undo.savept_cnt), a.rec)
             /\ a.rec # Null /\ u.savept_cnt > 0 => a.undo.savept_cnt > 0
             /\ Kept(u, f, a.undo, Newest(f, a.undo.savept_cnt), a.rec)
<1> DEFINE a == alloc_rec(u)
           d == DropSegment(u)
           g == Newest(f, Len(f) - 1)
<1>1. f \in Seq(Slots) /\ Len(f) = u.savept_cnt /\ Len(f) \in Nat
  BY DEF Linked, RingOK
<1>2. CASE HasRoom(u)
  <2>1. /\ Linked(Cell, Take(u).undo, f) /\ Fresh(Take(u).undo, f, Take(u).rec)
        /\ Kept(u, f, Take(u).undo, f, Take(u).rec)
    BY <1>2, TakeLinked
  <2>2. a = Take(u) /\ Newest(f, Len(f)) = f
    BY <1>1, <1>2, NewestAll DEF alloc_rec
  <2>3. a.undo.savept_cnt = Len(f)
    BY <1>1, <2>2 DEF Take
  <2>4. a.rec # Null
    BY <2>1, <2>2, NullNotSlot DEF Fresh
  <2> HIDE DEF a
  <2> QED BY <1>1, <2>1, <2>2, <2>3, <2>4 DEF Shrunk, a
<1>3. CASE ~HasRoom(u)
  <2>1. f # << >> /\ u.savept_cnt # 0 /\ drop_oldest_savept(u) = d
    BY <1>1, <1>3 DEF HasRoom, drop_oldest_savept
  <2>2. Linked(Cell, d, g) /\ HasRoom(d) /\ Kept(u, f, d, g, Null)
    BY <2>1, DropLinked, DropMakesRoom
  <2>3. Len(g) = Len(f) - 1 /\ d.savept_cnt = Len(f) - 1
    BY <1>1, <2>1, NewestButOne DEF DropSegment
  <2>4. CASE u.savept_cnt > 1
    <3>1. a = Take(d)
      BY <1>3, <2>1, <2>4 DEF alloc_rec
    <3>2. Linked(Cell, a.undo, g) /\ Fresh(a.undo, g, a.rec)
          /\ Kept(d, g, a.undo, g, a.rec)
      BY <2>2, <3>1, TakeLinked
    <3>5. Kept(u, f, a.undo, g, a.rec)
      BY <2>2, <3>2, KeptTrans
    <3>3. a.undo.savept_cnt = Len(f) - 1
      BY <2>3, <3>1 DEF Take
    <3>4. a.rec # Null
      BY <3>2, NullNotSlot DEF Fresh
    <3> HIDE DEF a
    <3> QED BY <1>1, <2>4, <3>2, <3>3, <3>4, <3>5 DEF Shrunk, a
  <2>5. CASE ~(u.savept_cnt > 1)
    <3>1. a.undo = d /\ a.rec = Null
      BY <1>3, <2>1, <2>5 DEF alloc_rec
    <3>2. Len(f) = 1
      BY <1>1, <2>1, <2>5
    <3> HIDE DEF a
    <3> QED BY <2>2, <2>3, <3>1, <3>2 DEF Shrunk, a
  <2> QED BY <2>4, <2>5
<1> QED BY <1>2, <1>3

\* add_new_record keeps the links that remain, and adds at most one record.
LEMMA AddLinked ==
  ASSUME NEW Cell, Links \subseteq Cell, Freed \in Cell, NEW u, NEW f, Linked(Cell, u, f),
         NEW b, NEW x \in Cell
  PROVE  LET v == add_new_record(u, b, x)
         IN  /\ Shrunk(Cell, v, f)
             /\ \E r \in Pointers :
                  /\ Kept(u, f, v, Newest(f, v.savept_cnt), r)
                  /\ r # Null => v.ring[r] = x
<1> DEFINE a == alloc_rec(u)
           v == add_new_record(u, b, x)
<1>1. f \in Seq(Slots) /\ Len(f) = u.savept_cnt /\ Len(f) \in Nat /\ Newest(f, Len(f)) = f
  BY NewestAll DEF Linked, RingOK
<1>2. CASE u.savept_cnt = 0 \/ ~b
  <2>1. v = u
    BY <1>2 DEF add_new_record
  <2>2. Kept(u, f, u, f, Null)
    BY DEF Kept
  <2> QED BY <1>1, <2>1, <2>2 DEF Shrunk, Pointers
<1>3. CASE ~(u.savept_cnt = 0 \/ ~b)
  <2> DEFINE g == Newest(f, a.undo.savept_cnt)
  <2>1. /\ Shrunk(Cell, a.undo, f)
        /\ a.rec # Null => Fresh(a.undo, g, a.rec)
        /\ a.rec # Null => a.undo.savept_cnt > 0
        /\ Kept(u, f, a.undo, g, a.rec)
    <3>1. ~(u.savept_cnt = 0) => u.savept_cnt > 0
      BY <1>1
    <3> QED BY <1>1, <1>3, <3>1, AllocLinked
  <2>2. CASE a.rec = Null
    <3>1. v = a.undo
      BY <1>3, <2>2 DEF add_new_record
    <3> QED BY <2>1, <2>2, <3>1 DEF Pointers
  <2>3. CASE a.rec # Null
    <3>1. v = Store(a.undo, a.rec, x)
      BY <1>3, <2>3 DEF add_new_record
    <3>2. Linked(Cell, a.undo, g) /\ a.undo.savept_cnt \in 0 .. Len(f)
      BY <2>1 DEF Shrunk
    <3>3. g # << >>
      BY <2>1, <2>3, <3>2 DEF Linked, RingOK
    <3> HIDE DEF a, g
    <3>4. /\ Linked(Cell, Store(a.undo, a.rec, x), g)
          /\ Kept(a.undo, g, Store(a.undo, a.rec, x), g, a.rec)
          /\ Store(a.undo, a.rec, x).ring[a.rec] = x
      BY <2>1, <2>3, <3>2, <3>3, StoreLinked
    <3>6. Kept(u, f, Store(a.undo, a.rec, x), g, a.rec)
      BY <2>1, <3>4 DEF Kept
    <3>7. a.rec \in Pointers
      BY <2>1, <2>3 DEF Fresh, Pointers
    <3>5. Store(a.undo, a.rec, x).savept_cnt = a.undo.savept_cnt
      BY DEF Store
    <3> QED BY <3>1, <3>2, <3>4, <3>5, <3>6, <3>7 DEF Shrunk, g
  <2> QED BY <2>2, <2>3
<1> QED BY <1>2, <1>3

\* Counting the new savepoint and dropping the oldest one commute.
LEMMA CountAfterDrop ==
  ASSUME NEW c, c.savept_cnt \in Int
  PROVE  CountSavept(DropSegment(c)) = DropSegment(CountSavept(c))
<1>1. (c.savept_cnt - 1) + 1 = (c.savept_cnt + 1) - 1
  OBVIOUS
<1> QED BY <1>1 DEF CountSavept, DropSegment

\* A savepoint that finds a record is the newest link and one of at most
\* MaxSavepts; one that finds none leaves no savepoint at all.
LEMMA CreateLinked ==
  ASSUME NEW Cell, Links \subseteq Cell, Freed \in Cell, NEW u, NEW f, Linked(Cell, u, f),
         u.savept_cnt <= MaxSavepts
  PROVE  LET v == create_savept(u)
         IN  /\ v.savept_cnt \in 0 .. MaxSavepts
             /\ alloc_rec(u).rec = Null => v.savept_cnt = 0 /\ Linked(Cell, v, << >>)
             /\ alloc_rec(u).rec # Null =>
                  /\ v.savept_cnt \in 1 .. (Len(f) + 1) /\ v.cur_first \in Slots
                  /\ Linked(Cell, v, Newest(Append(f, v.cur_first), v.savept_cnt))
                  /\ Kept(u, f, v, Newest(Append(f, v.cur_first), v.savept_cnt), Null)
<1> DEFINE a == alloc_rec(u)
           v == create_savept(u)
           k == a.undo.savept_cnt
           g == Newest(f, k)
           r == a.rec
           c == PushLink(a.undo, r)
           h == Append(f, r)
<1>1. f \in Seq(Slots) /\ Len(f) = u.savept_cnt /\ Len(f) \in Nat
  BY DEF Linked, RingOK
<1>2. /\ k \in 0 .. Len(f) /\ Linked(Cell, a.undo, g)
      /\ r = Null => k = 0
      /\ r # Null => Fresh(a.undo, g, r)
      /\ Kept(u, f, a.undo, g, r)
  BY AllocLinked DEF Shrunk
<1>3. CASE r = Null
  <2>1. v = a.undo /\ k = 0
    BY <1>2, <1>3 DEF create_savept
  <2>2. g = << >>
    BY <1>2, <2>1 DEF Linked, RingOK
  <2> HIDE DEF v, a, g
  <2> QED BY <1>2, <1>3, <2>1, <2>2, RingAssumption DEF v, a
<1>4. CASE r # Null
  <2>1. r \in Slots /\ Fresh(a.undo, g, r)
    BY <1>2, <1>4 DEF Fresh
  <2>2. /\ Linked(Cell, CountSavept(c), Append(g, r)) /\ c.savept_cnt = k
        /\ Kept(u, f, CountSavept(c), Append(g, r), Null)
    <3> HIDE DEF a, g
    <3>1. /\ Linked(Cell, CountSavept(c), Append(g, r)) /\ c.savept_cnt = k
          /\ Kept(a.undo, g, CountSavept(c), Append(g, r), Null)
      BY <1>2, <2>1, PushLinked DEF PushLink
    <3>2. IsLink(Append(g, r), r)
      <4>1. g \in Seq(Slots) /\ r \in Slots
        BY <1>2, <2>1 DEF Linked
      <4>2. Len(g) + 1 \in 1 .. Len(Append(g, r)) /\ Append(g, r)[Len(g) + 1] = r
        BY <4>1
      <4> QED BY <4>2 DEF IsLink
    <3>3. Kept(u, f, CountSavept(c), Append(g, r), Null)
      BY <1>2, <3>1, <3>2, NullNotSlot DEF Kept
    <3> QED BY <3>1, <3>3
  <2>3. h \in Seq(Slots) /\ Len(h) = Len(f) + 1 /\ h[Len(h)] = r
        /\ Append(g, r) = Newest(h, k + 1)
    <3> HIDE DEF a
    <3> QED BY <1>1, <1>2, <2>1, NewestAppend
  <2>6. v = CountSavept(IF c.savept_cnt = MaxSavepts THEN drop_oldest_savept(c) ELSE c)
    BY <1>4 DEF create_savept
  <2> HIDE DEF a, g, h
  <2>4. Linked(Cell, v, Newest(h, v.savept_cnt)) /\ v.savept_cnt \in 1 .. (Len(f) + 1)
        /\ v.savept_cnt <= MaxSavepts
        /\ Kept(u, f, v, Newest(h, v.savept_cnt), Null)
    <3>1. CASE k = MaxSavepts
      <4>1. v = CountSavept(DropSegment(c)) /\ k # 0
        <5>1. k # 0 /\ c.savept_cnt = k
          BY <2>2, <3>1, RingAssumption
        <5>2. v = CountSavept(drop_oldest_savept(c))
          BY <2>6, <3>1, <5>1
        <5> HIDE DEF v, c, k
        <5> QED BY <5>1, <5>2 DEF drop_oldest_savept
      <4>2. CountSavept(DropSegment(c)) = DropSegment(CountSavept(c))
        <5>1. c.savept_cnt \in Int
          BY <1>1, <1>2, <2>2
        <5> HIDE DEF c
        <5> QED BY <5>1, CountAfterDrop
      <4>3. Newest(h, k + 1) \in Seq(Slots) /\ Len(Newest(h, k + 1)) = k + 1
        <5>1. k + 1 \in 0 .. Len(h) /\ h \in Seq(Slots)
          BY <1>1, <1>2, <2>3
        <5> HIDE DEF k
        <5> QED BY <5>1, NewestFacts
      <4>4. /\ Linked(Cell, DropSegment(CountSavept(c)), Newest(Newest(h, k + 1), (k + 1) - 1))
            /\ Kept(CountSavept(c), Newest(h, k + 1), DropSegment(CountSavept(c)),
                    Newest(Newest(h, k + 1), (k + 1) - 1), Null)
        BY <1>2, <2>2, <2>3, <4>3, DropLinked
      <4>7. Kept(u, f, DropSegment(CountSavept(c)),
                 Newest(Newest(h, k + 1), (k + 1) - 1), Null)
        BY <2>2, <2>3, <4>4, KeptTrans
      <4>5. Newest(Newest(h, k + 1), k) = Newest(h, k)
        BY <1>1, <1>2, <2>3, NewestNewest
      <4>6. v.savept_cnt = k /\ (k + 1) - 1 = k
        <5>1. k \in Nat /\ c.savept_cnt = k
          BY <1>2, <2>2
        <5>2. CountSavept(DropSegment(c)).savept_cnt = (c.savept_cnt - 1) + 1
          <6> HIDE DEF c
          <6> QED BY DEF CountSavept, DropSegment
        <5> HIDE DEF k, c, v
        <5> QED BY <4>1, <5>1, <5>2
      <4>8. Linked(Cell, v, Newest(h, k)) /\ Kept(u, f, v, Newest(h, k), Null)
        BY <4>1, <4>2, <4>4, <4>5, <4>6, <4>7
      <4>9. k \in 1 .. (Len(f) + 1) /\ k <= MaxSavepts
        <5>1. k \in 0 .. Len(f) /\ k # 0 /\ k = MaxSavepts
          BY <1>2, <3>1, <4>1
        <5> HIDE DEF k
        <5> QED BY <1>1, <5>1, RingAssumption
      <4> HIDE DEF v, k
      <4> QED BY <4>6, <4>8, <4>9
    <3>2. CASE k # MaxSavepts
      <4>1. v = CountSavept(c)
        BY <2>2, <2>6, <3>2
      <4>2. v.savept_cnt = k + 1
        BY <2>2, <4>1 DEF CountSavept
      <4>3. k \in 0 .. Len(f) /\ k <= MaxSavepts
        <5>1. k <= Len(f) /\ Len(f) <= MaxSavepts
          BY <1>1, <1>2
        <5> QED BY <1>1, <1>2, <5>1, RingAssumption
      <4>4. k + 1 \in 1 .. (Len(f) + 1) /\ k + 1 <= MaxSavepts
        <5> HIDE DEF k
        <5> QED BY <1>1, <3>2, <4>3, RingAssumption
      <4>5. Linked(Cell, v, Newest(h, k + 1)) /\ Kept(u, f, v, Newest(h, k + 1), Null)
        BY <2>2, <2>3, <4>1
      <4> HIDE DEF k, v
      <4> QED BY <4>2, <4>4, <4>5
    <3> QED BY <3>1, <3>2
  <2>5. v.cur_first = r
    <3> DEFINE m == v.savept_cnt
               q == Newest(h, m)
    <3>1. m \in 1 .. Len(h) /\ m \in 0 .. Len(h) /\ m \in 1 .. m
      BY <1>1, <2>3, <2>4
    <3>2. Len(q) = m /\ q[m] = h[Len(h) - m + m]
      BY <2>3, <3>1, NewestFacts
    <3>3. Len(h) - m + m = Len(h)
      BY <2>3, <3>1
    <3>4. v.cur_first = q[Len(q)]
      <4> HIDE DEF q, v
      <4> QED BY <2>4, <3>1, <3>2 DEF Linked, RingOK, q
    <3> QED BY <2>3, <3>2, <3>3, <3>4
  <2> HIDE DEF v
  <2> QED BY <1>4, <2>1, <2>4, <2>5, RingAssumption DEF v, a, h
<1> QED BY <1>3, <1>4

-----------------------------------------------------------------------------
\* The undo ring in the VM: what its slots hold.

Cell == Links \union UndoRecord \union {Freed}

SavedType == [first : Slots, image : [Objects -> ObjectImage \union {NoObject}]]

FirstsOf(sv) == [i \in 1 .. Len(sv) |-> sv[i].first]

Records(u, f) == \A s \in Slots : InUse(u, s) /\ ~IsLink(f, s) => u.ring[s] \in UndoRecord

\* The inductive invariant.
Inv == TypeOK /\ UndoStructure

\* The part of it that is about the ring, the links of which are f.
RingInv(u, f) == Linked(Cell, u, f) /\ u.savept_cnt <= MaxSavepts /\ Records(u, f)

\* A slot's contents have one of the types of Cell.
LEMMA CellFacts == Links \subseteq Cell /\ Freed \in Cell /\ UndoRecord \subseteq Cell
  BY DEF Cell

\* The links of the savepoints that are left.
LEMMA FirstsType ==
  ASSUME NEW sv \in Seq(SavedType)
  PROVE  FirstsOf(sv) \in Seq(Slots) /\ Len(FirstsOf(sv)) = Len(sv)
<1>1. Len(sv) \in Nat /\ \A i \in 1 .. Len(sv) : sv[i] \in SavedType
  OBVIOUS
<1>2. \A i \in 1 .. Len(sv) : sv[i].first \in Slots
  BY <1>1 DEF SavedType
<1> DEFINE f == FirstsOf(sv)
<1>3. f \in [1 .. Len(sv) -> Slots]
  BY <1>2 DEF FirstsOf
<1> HIDE DEF f
<1>4. f \in Seq(Slots) /\ Len(f) = Len(sv)
  BY <1>1, <1>3
<1> QED BY <1>4 DEF f

\* The links of the newest savepoints.
LEMMA FirstsNewest ==
  ASSUME NEW sv \in Seq(SavedType), NEW n \in 0 .. Len(sv)
  PROVE  Newest(sv, n) \in Seq(SavedType) /\ FirstsOf(Newest(sv, n)) = Newest(FirstsOf(sv), n)
<1> DEFINE w == Newest(sv, n)
           x == Newest(FirstsOf(sv), n)
<1>1. w \in Seq(SavedType) /\ Len(w) = n /\ \A i \in 1 .. n : w[i] = sv[Len(sv) - n + i]
  BY NewestFacts
<1>2. FirstsOf(sv) \in Seq(Slots) /\ Len(FirstsOf(sv)) = Len(sv)
  BY FirstsType
<1>3. /\ x \in Seq(Slots) /\ Len(x) = n
      /\ \A i \in 1 .. n : x[i] = FirstsOf(sv)[Len(sv) - n + i]
  <2> DEFINE f == FirstsOf(sv)
  <2>1. f \in Seq(Slots) /\ n \in 0 .. Len(f) /\ Len(f) = Len(sv)
    BY <1>2
  <2> HIDE DEF f
  <2>2. /\ Newest(f, n) \in Seq(Slots) /\ Len(Newest(f, n)) = n
        /\ \A i \in 1 .. n : Newest(f, n)[i] = f[Len(f) - n + i]
    BY <2>1, NewestFacts
  <2> QED BY <2>1, <2>2 DEF f
<1>4. \A i \in 1 .. n : Len(sv) - n + i \in 1 .. Len(sv)
  OBVIOUS
<1> HIDE DEF w, x
<1>5. FirstsOf(w) \in Seq(Slots) /\ Len(FirstsOf(w)) = n
  BY <1>1, FirstsType
<1>6. \A i \in 1 .. n : FirstsOf(w)[i] = x[i]
  BY <1>1, <1>3, <1>4 DEF FirstsOf
<1>7. FirstsOf(w) = x
  BY <1>3, <1>5, <1>6, SeqEqual
<1> QED BY <1>1, <1>7 DEF w, x

\* The link of a new savepoint comes last.
LEMMA FirstsAppend ==
  ASSUME NEW sv \in Seq(SavedType), NEW c \in SavedType
  PROVE  /\ Append(sv, c) \in Seq(SavedType)
         /\ FirstsOf(Append(sv, c)) = Append(FirstsOf(sv), c.first)
<1> DEFINE w == Append(sv, c)
<1>1. /\ w \in Seq(SavedType) /\ Len(w) = Len(sv) + 1 /\ w[Len(sv) + 1] = c
      /\ \A i \in 1 .. Len(sv) : w[i] = sv[i]
  OBVIOUS
<1> HIDE DEF w
<1>2. FirstsOf(sv) \in Seq(Slots) /\ Len(FirstsOf(sv)) = Len(sv) /\ c.first \in Slots
  BY FirstsType DEF SavedType
<1>3. FirstsOf(w) \in Seq(Slots) /\ Len(FirstsOf(w)) = Len(sv) + 1
  BY <1>1, FirstsType
<1>4. /\ Append(FirstsOf(sv), c.first) \in Seq(Slots)
      /\ Len(Append(FirstsOf(sv), c.first)) = Len(sv) + 1
      /\ Append(FirstsOf(sv), c.first)[Len(sv) + 1] = c.first
      /\ \A i \in 1 .. Len(sv) : Append(FirstsOf(sv), c.first)[i] = FirstsOf(sv)[i]
  BY <1>2
<1>5. /\ FirstsOf(w)[Len(sv) + 1] = c.first
      /\ \A i \in 1 .. Len(sv) : FirstsOf(w)[i] = sv[i].first /\ FirstsOf(sv)[i] = sv[i].first
  <2>1. \A i \in 1 .. Len(sv) : i \in 1 .. Len(w)
    BY <1>1
  <2>2. Len(sv) + 1 \in 1 .. Len(w)
    BY <1>1
  <2> QED BY <1>1, <2>1, <2>2 DEF FirstsOf
<1>6. \A i \in 1 .. Len(sv) + 1 : FirstsOf(w)[i] = Append(FirstsOf(sv), c.first)[i]
  <2>1. \A i \in 1 .. Len(sv) + 1 : i = Len(sv) + 1 \/ i \in 1 .. Len(sv)
    OBVIOUS
  <2> QED BY <1>4, <1>5, <2>1
<1>7. FirstsOf(w) = Append(FirstsOf(sv), c.first)
  BY <1>3, <1>4, <1>6, SeqEqual
<1> QED BY <1>1, <1>7 DEF w

\* The links once the newest savepoint is gone.
LEMMA FirstsFront ==
  ASSUME NEW sv \in Seq(SavedType), sv # << >>
  PROVE  /\ SubSeq(sv, 1, Len(sv) - 1) \in Seq(SavedType)
         /\ FirstsOf(SubSeq(sv, 1, Len(sv) - 1)) = SubSeq(FirstsOf(sv), 1, Len(sv) - 1)
<1> DEFINE w == SubSeq(sv, 1, Len(sv) - 1)
           f == FirstsOf(sv)
           g == SubSeq(f, 1, Len(sv) - 1)
<1>1. /\ w \in Seq(SavedType) /\ Len(w) = Len(sv) - 1
      /\ \A i \in 1 .. Len(sv) - 1 : w[i] = sv[i]
  BY FrontFacts
<1>2. f \in Seq(Slots) /\ Len(f) = Len(sv) /\ f # << >>
      /\ \A i \in 1 .. Len(sv) - 1 : f[i] = sv[i].first
  <2>1. f \in Seq(Slots) /\ Len(f) = Len(sv) /\ Len(sv) # 0
    BY FirstsType
  <2> QED BY <2>1 DEF FirstsOf
<1>3. /\ g \in Seq(Slots) /\ Len(g) = Len(sv) - 1 /\ \A i \in 1 .. Len(sv) - 1 : g[i] = f[i]
  <2> HIDE DEF f
  <2> QED BY <1>2, FrontFacts
<1> HIDE DEF w, f, g
<1>4. FirstsOf(w) \in Seq(Slots) /\ Len(FirstsOf(w)) = Len(sv) - 1
      /\ \A i \in 1 .. Len(sv) - 1 : FirstsOf(w)[i] = sv[i].first
  BY <1>1, FirstsType DEF FirstsOf
<1>5. FirstsOf(w) = g
  BY <1>2, <1>3, <1>4, SeqEqual
<1> QED BY <1>1, <1>5 DEF w, g, f

-----------------------------------------------------------------------------
\* Records that are kept are records, and so is the one that is added.
LEMMA KeptRecords ==
  ASSUME NEW u, NEW f, NEW v, NEW g, NEW r, Records(u, f), Kept(u, f, v, g, r),
         r # Null => v.ring[r] \in UndoRecord
  PROVE  Records(v, g)
  BY NullNotSlot DEF Records, Kept

\* add_new_record keeps the ring well linked, for the links that remain.
LEMMA AddInv ==
  ASSUME NEW u, NEW f, RingInv(u, f), NEW b, NEW x \in UndoRecord
  PROVE  LET v == add_new_record(u, b, x)
         IN  v.savept_cnt \in 0 .. Len(f) /\ RingInv(v, Newest(f, v.savept_cnt))
<1> DEFINE v == add_new_record(u, b, x)
           g == Newest(f, v.savept_cnt)
<1>1. /\ Shrunk(Cell, v, f)
      /\ \E r \in Pointers : Kept(u, f, v, g, r) /\ (r # Null => v.ring[r] = x)
  BY CellFacts, AddLinked DEF RingInv
<1>2. v.savept_cnt \in 0 .. Len(f) /\ Linked(Cell, v, g)
  BY <1>1 DEF Shrunk
<1>3. v.savept_cnt <= MaxSavepts
  <2>1. Len(f) = u.savept_cnt /\ u.savept_cnt <= MaxSavepts /\ f \in Seq(Slots)
    BY DEF RingInv, Linked, RingOK
  <2> HIDE DEF v
  <2> QED BY <1>2, <2>1, RingAssumption
<1> HIDE DEF v, g
<1>4. Records(v, g)
  BY <1>1, KeptRecords DEF RingInv
<1> QED BY <1>2, <1>3, <1>4 DEF RingInv, v, g

\* So does a row of calls.
LEMMA AddAgain ==
  ASSUME NEW u, NEW f \in Seq(Slots), NEW v, v.savept_cnt \in 0 .. Len(f),
         RingInv(v, Newest(f, v.savept_cnt)), NEW b, NEW x \in UndoRecord
  PROVE  LET w == add_new_record(v, b, x)
         IN  w.savept_cnt \in 0 .. Len(f) /\ RingInv(w, Newest(f, w.savept_cnt))
<1> DEFINE w == add_new_record(v, b, x)
           g == Newest(f, v.savept_cnt)
<1>1. Len(g) = v.savept_cnt /\ RingInv(v, g)
  BY NewestFacts
<1>2. w.savept_cnt \in 0 .. Len(g) /\ RingInv(w, Newest(g, w.savept_cnt))
  <2> HIDE DEF g
  <2> QED BY <1>1, AddInv
<1> HIDE DEF w
<1>3. w.savept_cnt \in 0 .. v.savept_cnt
  BY <1>1, <1>2
<1>4. Newest(g, w.savept_cnt) = Newest(f, w.savept_cnt)
  BY <1>3, NewestNewest
<1>5. w.savept_cnt \in 0 .. Len(f)
  BY <1>3
<1> QED BY <1>2, <1>4, <1>5 DEF w

\* The slots from the current link on, but for the link itself, hold records:
\* those the loop of undo_to_savept goes through.
LEMMA CurrentSegment ==
  ASSUME NEW C, NEW u, NEW f, Linked(C, u, f), u.savept_cnt > 0,
         NEW s \in Slots, s # u.cur_first,
         Dist(u.cur_first, s) < Span(u.cur_first, u.next_free)
  PROVE  InUse(u, s) /\ ~IsLink(f, s)
<1> DEFINE n == Len(f)
           o == f[1]
           c == f[n]
           e == u.next_free
<1>1. /\ u \in Manager(C) /\ f \in Seq(Slots) /\ n = u.savept_cnt /\ n \in Nat \ {0}
      /\ e \in Slots /\ o \in Slots /\ c \in Slots
      /\ u.oldest_first = o /\ u.cur_first = c
      /\ \A i \in 1 .. n : f[i] \in Slots /\ InUse(u, f[i])
  BY DEF Linked, RingOK, Manager
<1>2. \A i, j \in 1 .. n : i < j => Dist(o, f[i]) < Dist(o, f[j])
  BY DEF Linked, RingOK
<1>3. n \in 1 .. n /\ 1 \in 1 .. n
  BY <1>1
<1> HIDE DEF n
<1>4. /\ Dist(o, c) <= Dist(o, s) /\ Dist(o, s) < Span(o, e)
  <2>1. CASE o = c
    <3>1. Dist(o, o) = 0 /\ Dist(o, s) \in 0 .. (RingSize - 1)
      BY <1>1, DistType
    <3> QED BY <1>1, <2>1, <3>1, RingAssumption
  <2>2. CASE o # c
    <3>1. Dist(o, c) < Span(o, e)
      BY <1>1, <1>3 DEF InUse
    <3>2. Dist(c, s) < Span(c, e) <=> Dist(o, c) <= Dist(o, s) /\ Dist(o, s) < Span(o, e)
      BY <1>1, <2>2, <3>1, InUseAfterDrop
    <3> QED BY <1>1, <3>2
  <2> QED BY <2>1, <2>2
<1>5. \A i \in 1 .. n : f[i] # s
  <2> SUFFICES ASSUME NEW i \in 1 .. n, f[i] = s PROVE FALSE
    OBVIOUS
  <2>1. i # n /\ i < n
    BY <1>1
  <2>2. Dist(o, s) < Dist(o, c)
    BY <1>2, <1>3, <2>1
  <2>3. Dist(o, s) \in Int /\ Dist(o, c) \in Int
    BY <1>1, DistType
  <2> QED BY <1>4, <2>2, <2>3
<1> QED BY <1>1, <1>4, <1>5 DEF InUse, IsLink, n

-----------------------------------------------------------------------------
\* What the invariant says of the ring, and what it takes to establish it.
LEMMA InvRing ==
  ASSUME Inv
  PROVE  /\ RingInv(undo, FirstsOf(saved)) /\ saved \in Seq(SavedType)
         /\ Len(saved) = undo.savept_cnt
<1>1. undo \in Manager(Cell) /\ undo.savept_cnt <= MaxSavepts /\ saved \in Seq(SavedType)
  BY RingAssumption DEF Inv, TypeOK, Manager, Cell, SavedType
<1>2. Firsts = FirstsOf(saved)
  BY DEF Firsts, FirstsOf
<1>3. RingOK(undo, FirstsOf(saved)) /\ Records(undo, FirstsOf(saved))
  BY <1>2 DEF Inv, UndoStructure, RecordsInPlace, Records
<1>4. FirstsOf(saved) \in Seq(Slots) /\ Len(FirstsOf(saved)) = Len(saved)
  BY <1>1, FirstsType
<1> QED BY <1>1, <1>3, <1>4 DEF RingInv, Linked, RingOK

\* The part of TypeOK that is not about the ring.
HeapOK ==
  /\ live \in SUBSET Objects /\ in_undo \in SUBSET Objects
  /\ obj_mod \in SUBSET Objects
  /\ entry \in [Objects -> [Props -> [val : Vals \union {Absent, EmptyMod},
                                      mod : BOOLEAN, undo : BOOLEAN]]]
  /\ entry_arr \in [Objects -> Seq(Props)]
  /\ meta \in Pointers
  /\ saved \in Seq(SavedType)

LoopOK ==
  ~Idle => /\ undo.savept_cnt > 0
           /\ Dist(undo.cur_first, dec_rec_ptr(meta))
                < Span(undo.cur_first, undo.next_free)

\* The parts make up the invariant.
LEMMA RingMakesInv ==
  ASSUME RingInv(undo, FirstsOf(saved)), HeapOK, LoopOK
  PROVE  Inv
<1>1. undo \in Manager(Cell) /\ undo.savept_cnt \in 0 .. MaxSavepts
  BY RingAssumption DEF RingInv, Linked, Manager
<1>2. undo \in [ring : [Slots -> Links \union UndoRecord \union {Freed}],
               cur_first : Pointers, oldest_first : Pointers,
               next_free : Slots, savept_cnt : 0 .. MaxSavepts]
  BY <1>1 DEF Manager, Cell
<1>3. TypeOK
  BY <1>2 DEF HeapOK, TypeOK, SavedType
<1>4. Firsts = FirstsOf(saved)
  BY DEF Firsts, FirstsOf
<1>5. UndoStructure
  BY <1>4 DEF RingInv, Linked, LoopOK, UndoStructure, RecordsInPlace, Records
<1> QED BY <1>3, <1>5 DEF Inv

\* The invariant without the ring.
LEMMA HeapFromInv == Inv => HeapOK /\ LoopOK
  BY DEF Inv, TypeOK, UndoStructure, HeapOK, LoopOK, SavedType

\* Every image a savepoint can hold has its type.
LEMMA HeapImageType ==
  ASSUME HeapOK
  PROVE  HeapImage \in [Objects -> ObjectImage \union {NoObject}]
<1>1. \A o \in Objects : Image(o) \in ObjectImage
  <2> SUFFICES ASSUME NEW o \in Objects PROVE Image(o) \in ObjectImage
    OBVIOUS
  <2>1. [p \in Props |-> [val |-> entry[o][p].val, mod |-> entry[o][p].mod]]
          \in [Props -> [val : Vals \union {Absent, EmptyMod}, mod : BOOLEAN]]
    BY DEF HeapOK
  <2>2. entry_arr[o] \in Seq(Props) /\ (o \in obj_mod) \in BOOLEAN
    BY DEF HeapOK
  <2> QED BY <2>1, <2>2 DEF Image, ObjectImage
<1> QED BY <1>1 DEF HeapImage

\* The initial state.
LEMMA InitInv == Init => Inv
<1> SUFFICES ASSUME Init PROVE Inv
  OBVIOUS
<1>1. saved = << >> /\ undo = NewUndo /\ meta = Null
  BY DEF Init
<1>2. FirstsOf(saved) = << >>
  BY <1>1 DEF FirstsOf
<1>3. Linked(Cell, NewUndo, << >>)
  BY CellFacts, NewUndoLinked
<1>4. NewUndo.savept_cnt = 0
  BY DEF NewUndo
<1>5. RingInv(undo, FirstsOf(saved))
  BY <1>1, <1>2, <1>3, <1>4, RingAssumption DEF RingInv, Records, InUse
<1>6. ImageEntries \in [Props -> [val : Vals \union {Absent, EmptyMod},
                                 mod : BOOLEAN, undo : BOOLEAN]]
  BY ValueAssumption DEF ImageEntries, NoEntry, Entry
<1>7. [p \in Props |-> NoEntry] \in [Props -> [val : Vals \union {Absent, EmptyMod},
                                            mod : BOOLEAN, undo : BOOLEAN]]
  BY DEF NoEntry, Entry
<1>8. HeapOK
  BY <1>1, <1>6, <1>7, ImageAssumption DEF Init, HeapOK, Objects, Pointers
<1>9. LoopOK
  BY <1>1 DEF LoopOK, Idle
<1> QED BY <1>5, <1>8, <1>9, RingMakesInv

-----------------------------------------------------------------------------
\* RingMakesInv for the state after a step.
LEMMA RingMakesInvNext ==
  ASSUME RingInv(undo', FirstsOf(saved')), HeapOK', LoopOK'
  PROVE  Inv'
<1>1. undo' \in Manager(Cell) /\ undo'.savept_cnt \in 0 .. MaxSavepts
  BY RingAssumption DEF RingInv, Linked, Manager
<1>2. undo' \in [ring : [Slots -> Links \union UndoRecord \union {Freed}],
               cur_first : Pointers, oldest_first : Pointers,
               next_free : Slots, savept_cnt : 0 .. MaxSavepts]
  BY <1>1 DEF Manager, Cell
<1>3. TypeOK'
  BY <1>2 DEF HeapOK, TypeOK, SavedType
<1>4. Firsts' = FirstsOf(saved')
  BY DEF Firsts, FirstsOf
<1>5. UndoStructure'
  BY <1>4 DEF RingInv, Linked, LoopOK, UndoStructure, RecordsInPlace, Records
<1> QED BY <1>3, <1>5 DEF Inv

\* notify_new_savept leaves the entries typed.
LEMMA NotifyType ==
  ASSUME HeapOK, notify_new_savept
  PROVE  /\ in_undo' \in SUBSET Objects
         /\ entry' \in [Objects -> [Props -> [val : Vals \union {Absent, EmptyMod},
                                             mod : BOOLEAN, undo : BOOLEAN]]]
<1>1. \A o \in Objects : [p \in Props |-> Entry(entry[o][p].val, entry[o][p].mod, FALSE)]
        \in [Props -> [val : Vals \union {Absent, EmptyMod}, mod : BOOLEAN, undo : BOOLEAN]]
  BY DEF HeapOK, Entry
<1>2. \A o \in Objects : entry[o]
        \in [Props -> [val : Vals \union {Absent, EmptyMod}, mod : BOOLEAN, undo : BOOLEAN]]
  BY DEF HeapOK
<1> QED BY <1>1, <1>2 DEF notify_new_savept, HeapOK

\* Creating an object keeps the invariant.
LEMMA CreateObjectInv ==
  ASSUME Inv, NEW o \in DynamicObjects, CreateObject(o)
  PROVE  Inv'
<1>1. RingInv(undo', FirstsOf(saved')) /\ HeapOK /\ LoopOK
  BY InvRing, HeapFromInv DEF CreateObject
<1>2. [p \in Props |-> NoEntry] \in [Props -> [val : Vals \union {Absent, EmptyMod},
                                            mod : BOOLEAN, undo : BOOLEAN]]
  BY DEF NoEntry, Entry
<1>3. HeapOK'
  BY <1>1, <1>2 DEF CreateObject, HeapOK, Objects
<1>4. LoopOK'
  BY DEF CreateObject, LoopOK, Idle
<1> QED BY <1>1, <1>3, <1>4, RingMakesInvNext

\* set_prop makes up to three records, each of which may drop savepoints.
LEMMA SetPropRing ==
  ASSUME Inv, NEW o \in Objects, NEW p \in Props, NEW v \in Vals, set_prop(o, p, v)
  PROVE  /\ undo'.savept_cnt \in 0 .. Len(saved)
         /\ RingInv(undo', Newest(FirstsOf(saved), undo'.savept_cnt))
<1> DEFINE f == FirstsOf(saved)
           e == entry[o][p]
           b == is_in_undo(o)
           x1 == [obj |-> o, prop |-> p,
                  oldval |-> IF e.val = Absent THEN EmptyNew ELSE e.val]
           x2 == [obj |-> o, prop |-> p, oldval |-> EmptyMod]
           x3 == [obj |-> o, prop |-> InvalidProp, oldval |-> Int1]
           r1 == add_new_record(undo, b, x1)
           r2 == add_new_record(r1, b, x2)
           Good(w) == w.savept_cnt \in 0 .. Len(f) /\ RingInv(w, Newest(f, w.savept_cnt))
<1>1. RingInv(undo, f) /\ HeapOK /\ LoopOK /\ saved \in Seq(SavedType)
      /\ Len(saved) = undo.savept_cnt
  BY InvRing, HeapFromInv
<1>2. f \in Seq(Slots) /\ Len(f) = Len(saved) /\ Len(f) \in Nat
  BY <1>1, FirstsType
<1>3. Good(undo)
  BY <1>1, <1>2, NewestAll
<1>4. x1 \in UndoRecord /\ x2 \in UndoRecord /\ x3 \in UndoRecord
  <2>1. e.val \in Vals \union {Absent, EmptyMod}
    BY <1>1 DEF HeapOK
  <2> QED BY <2>1 DEF UndoRecord, Empties
<1> HIDE DEF f, x1, x2, x3, b
<1>5. Good(r1)
  BY <1>2, <1>3, <1>4, AddAgain
<1>6. Good(r2)
  <2> HIDE DEF r1
  <2> QED BY <1>2, <1>4, <1>5, AddAgain
<1>7. ValueRecords(undo, o, p) \in {undo, r1, r2}
  BY DEF ValueRecords, x1, x2, b
<1>8. Good(ValueRecords(undo, o, p))
  <2> HIDE DEF r1, r2, Good
  <2> QED BY <1>3, <1>5, <1>6, <1>7
<1>9. Good(undo')
  <2> DEFINE w == ValueRecords(undo, o, p)
  <2>1. undo' = w \/ undo' = add_new_record(w, b, x3)
    BY DEF set_prop, mark_modified, x3, b
  <2>2. Good(w)
    BY <1>8
  <2> HIDE DEF w
  <2>3. Good(add_new_record(w, b, x3))
    BY <1>2, <1>4, <2>2, AddAgain
  <2> QED BY <2>1, <2>2, <2>3
<1> QED BY <1>2, <1>9 DEF f

\* The objects it writes keep their types, too.
LEMMA SetPropInv ==
  ASSUME Inv, NEW o \in Objects, NEW p \in Props, NEW v \in Vals, set_prop(o, p, v)
  PROVE  Inv'
<1>1. HeapOK /\ LoopOK /\ saved \in Seq(SavedType)
  BY InvRing, HeapFromInv
<1>2. RingInv(undo', FirstsOf(saved')) /\ saved' \in Seq(SavedType)
  <2>1. saved' = Newest(saved, undo'.savept_cnt) /\ undo'.savept_cnt \in 0 .. Len(saved)
    BY SetPropRing DEF set_prop
  <2>2. saved' \in Seq(SavedType)
        /\ FirstsOf(saved') = Newest(FirstsOf(saved), undo'.savept_cnt)
    BY <1>1, <2>1, FirstsNewest
  <2> QED BY <2>2, SetPropRing
<1>3. HeapOK'
  <2>1. Entry(v, TRUE, TRUE) \in [val : Vals \union {Absent, EmptyMod},
                                  mod : BOOLEAN, undo : BOOLEAN]
    BY DEF Entry
  <2>2. entry' \in [Objects -> [Props -> [val : Vals \union {Absent, EmptyMod},
                                         mod : BOOLEAN, undo : BOOLEAN]]]
    BY <1>1, <2>1 DEF set_prop, HeapOK
  <2>3. entry_arr' \in [Objects -> Seq(Props)]
    <3>1. entry_arr[o] \in Seq(Props)
      BY <1>1 DEF HeapOK
    <3>2. Append(entry_arr[o], p) \in Seq(Props)
      BY <3>1
    <3> QED BY <1>1, <3>2 DEF set_prop, HeapOK
  <2> QED BY <1>1, <1>2, <2>2, <2>3 DEF set_prop, HeapOK
<1>4. LoopOK'
  BY DEF set_prop, LoopOK, Idle
<1> QED BY <1>2, <1>3, <1>4, RingMakesInvNext

\* A new savepoint brings its link; the oldest ones may go.
LEMMA CreateSaveptInv ==
  ASSUME Inv, CreateSavept
  PROVE  Inv'
<1> DEFINE f == FirstsOf(saved)
           c == [first |-> undo'.cur_first, image |-> HeapImage]
           sv == Append(saved, c)
           g == Newest(Append(f, undo'.cur_first), undo'.savept_cnt)
<1>1. RingInv(undo, f) /\ HeapOK /\ LoopOK /\ saved \in Seq(SavedType)
      /\ Len(saved) = undo.savept_cnt /\ Linked(Cell, undo, f) /\ Records(undo, f)
      /\ undo.savept_cnt <= MaxSavepts
  BY InvRing, HeapFromInv DEF RingInv
<1>2. f \in Seq(Slots) /\ Len(f) = Len(saved)
  BY <1>1, FirstsType
<1>3. undo' = create_savept(undo) /\ meta' = Null
  BY DEF CreateSavept, Idle
<1> HIDE DEF f
<1>4. /\ undo'.savept_cnt \in 0 .. MaxSavepts
      /\ alloc_rec(undo).rec = Null => undo'.savept_cnt = 0 /\ Linked(Cell, undo', << >>)
      /\ alloc_rec(undo).rec # Null =>
           /\ undo'.savept_cnt \in 1 .. (Len(f) + 1) /\ undo'.cur_first \in Slots
           /\ Linked(Cell, undo', g)
           /\ Kept(undo, f, undo', g, Null)
  BY <1>1, <1>3, CellFacts, CreateLinked
<1>5. undo'.savept_cnt <= MaxSavepts
  BY <1>4, RingAssumption
<1>6. LoopOK'
  BY <1>3 DEF LoopOK, Idle
<1>7. CASE alloc_rec(undo).rec = Null
  <2>1. saved' = << >> /\ FirstsOf(saved') = << >>
    BY <1>7 DEF CreateSavept, FirstsOf
  <2>2. Records(undo', << >>)
    BY <1>4, <1>7 DEF Records, InUse
  <2>3. HeapOK'
    BY <1>1, <1>7, <2>1 DEF CreateSavept, HeapOK
  <2> QED BY <1>4, <1>5, <1>6, <1>7, <2>1, <2>2, <2>3, RingMakesInvNext DEF RingInv
<1>8. CASE alloc_rec(undo).rec # Null
  <2>1. c \in SavedType
    BY <1>1, <1>4, <1>8, HeapImageType DEF SavedType
  <2>2. saved' = Newest(sv, undo'.savept_cnt)
    BY <1>8 DEF CreateSavept
  <2>3. c.first = undo'.cur_first
    OBVIOUS
  <2> HIDE DEF c
  <2>4. sv \in Seq(SavedType) /\ FirstsOf(sv) = Append(f, undo'.cur_first)
        /\ Len(sv) = Len(f) + 1
    BY <1>1, <1>2, <2>1, <2>3, FirstsAppend DEF f
  <2>5. undo'.savept_cnt \in 0 .. Len(sv)
    BY <1>2, <1>4, <1>8, <2>4
  <2> HIDE DEF sv
  <2>6. saved' \in Seq(SavedType) /\ FirstsOf(saved') = g
    BY <2>2, <2>4, <2>5, FirstsNewest
  <2> HIDE DEF g
  <2>7. Records(undo', g)
    BY <1>1, <1>4, <1>8, KeptRecords
  <2>8. HeapOK'
    BY <1>1, <1>8, <2>6, NotifyType DEF CreateSavept, HeapOK
  <2> QED BY <1>4, <1>5, <1>6, <1>8, <2>6, <2>7, <2>8, RingMakesInvNext DEF RingInv
<1> QED BY <1>7, <1>8

\* The loop of undo_to_savept starts inside the current savepoint.
LEMMA UndoBeginInv ==
  ASSUME Inv, UndoBegin
  PROVE  Inv'
<1>1. RingInv(undo, FirstsOf(saved)) /\ HeapOK /\ undo' = undo /\ saved' = saved
      /\ meta' = undo.next_free /\ undo.savept_cnt > 0
  BY InvRing, HeapFromInv DEF UndoBegin
<1>2. undo.next_free \in Slots /\ undo.cur_first \in Slots
  <2>1. Len(FirstsOf(saved)) \in 1 .. Len(FirstsOf(saved)) /\ FirstsOf(saved) \in Seq(Slots)
        /\ FirstsOf(saved) # << >>
    BY <1>1 DEF RingInv, Linked, RingOK
  <2> QED BY <1>1, <2>1 DEF RingInv, Linked, Manager, RingOK
<1>3. HeapOK'
  BY <1>1, <1>2 DEF UndoBegin, heap, HeapOK, Pointers
<1>4. LoopOK'
  <2>1. Dist(undo.cur_first, dec_rec_ptr(undo.next_free))
          = Span(undo.cur_first, undo.next_free) - 1
        /\ Span(undo.cur_first, undo.next_free) \in Int
    BY <1>2, IncFacts, DistType
  <2> QED BY <1>1, <2>1 DEF LoopOK
<1> QED BY <1>1, <1>3, <1>4, RingMakesInvNext

\* Each turn of the loop reads an undo record, and stays in the savepoint.
LEMMA UndoApplyInv ==
  ASSUME Inv, UndoApply
  PROVE  Inv'
<1> DEFINE s == dec_rec_ptr(meta)
           c == undo.cur_first
           e == undo.next_free
<1>1. RingInv(undo, FirstsOf(saved)) /\ HeapOK /\ LoopOK /\ undo' = undo /\ saved' = saved
      /\ meta' = s /\ meta # Null /\ s # c /\ undo.savept_cnt > 0
  BY InvRing, HeapFromInv DEF UndoApply, LoopOK, Idle
<1>2. e \in Slots /\ c \in Slots /\ meta \in Slots
  <2>1. Len(FirstsOf(saved)) \in 1 .. Len(FirstsOf(saved)) /\ FirstsOf(saved) \in Seq(Slots)
        /\ FirstsOf(saved) # << >>
    BY <1>1 DEF RingInv, Linked, RingOK
  <2> QED BY <1>1, <2>1 DEF RingInv, Linked, Manager, RingOK, HeapOK, Pointers
<1>3. s \in Slots /\ Dist(c, s) < Span(c, e)
  BY <1>1, <1>2, IncFacts DEF LoopOK, Idle
<1>4. Current \in UndoRecord
  <2>1. InUse(undo, s) /\ ~IsLink(FirstsOf(saved), s)
    BY <1>1, <1>3, CurrentSegment DEF RingInv
  <2> QED BY <1>1, <1>3, <2>1 DEF RingInv, Records, Current
<1>5. HeapOK'
  <2>1. Current.obj \in Objects /\ Current.prop \in Props \union {InvalidProp}
        /\ (Current.prop # InvalidProp => Current.oldval \in Vals \union Empties)
    BY <1>4 DEF UndoRecord
  <2>2. apply_undo(Current)
    BY DEF UndoApply
  <2> DEFINE o == Current.obj
             p == Current.prop
             w == Current.oldval
             EntryType == [val : Vals \union {Absent, EmptyMod},
                           mod : BOOLEAN, undo : BOOLEAN]
  <2>3. entry' \in [Objects -> [Props -> EntryType]] /\ entry_arr' \in [Objects -> Seq(Props)]
        /\ obj_mod' \in SUBSET Objects
    <3>1. entry \in [Objects -> [Props -> EntryType]] /\ entry_arr \in [Objects -> Seq(Props)]
          /\ obj_mod \in SUBSET Objects
      BY <1>1 DEF HeapOK
    <3>2. CASE p = InvalidProp
      <4>1. entry' = entry /\ entry_arr' = entry_arr /\ obj_mod' = obj_mod \ {o}
        BY <2>2, <3>2 DEF apply_undo
      <4> QED BY <3>1, <4>1
    <3>3. CASE p # InvalidProp /\ w = EmptyNew
      <4>1. entry' = [entry EXCEPT ![o][p] = NoEntry] /\ obj_mod' = obj_mod
            /\ entry_arr' = [entry_arr EXCEPT ![o] =
                               SubSeq(entry_arr[o], 1, Len(entry_arr[o]) - 1)]
        BY <2>2, <3>3 DEF apply_undo
      <4>2. NoEntry \in EntryType
        BY DEF NoEntry, Entry
      <4>3. SubSeq(entry_arr[o], 1, Len(entry_arr[o]) - 1) \in Seq(Props)
        <5>1. entry_arr[o] \in Seq(Props)
          BY <2>1, <3>1
        <5> QED BY <5>1
      <4> HIDE DEF EntryType
      <4> QED BY <2>1, <3>1, <3>3, <4>1, <4>2, <4>3
    <3>4. CASE p # InvalidProp /\ w # EmptyNew
      <4> DEFINE n == Entry(w, entry[o][p].mod /\ w # EmptyMod, entry[o][p].undo)
      <4>1. entry' = [entry EXCEPT ![o][p] = n] /\ obj_mod' = obj_mod
            /\ entry_arr' = entry_arr
        BY <2>2, <3>4 DEF apply_undo
      <4>2. entry[o][p] \in EntryType
        BY <2>1, <3>1, <3>4
      <4>3. n \in EntryType
        <5>1. w \in Vals \union {Absent, EmptyMod}
          BY <2>1, <3>4 DEF Empties
        <5>2. (entry[o][p].mod /\ w # EmptyMod) \in BOOLEAN /\ entry[o][p].undo \in BOOLEAN
          BY <4>2
        <5> QED BY <5>1, <5>2 DEF Entry
      <4> HIDE DEF EntryType, n
      <4> QED BY <2>1, <3>1, <3>4, <4>1, <4>3
    <3> QED BY <3>2, <3>3, <3>4
  <2> QED BY <1>1, <1>3, <2>3 DEF UndoApply, HeapOK, Pointers
<1>6. LoopOK'
  <2>1. Span(c, s) = Dist(c, s)
    BY <1>1 DEF Span
  <2>2. Dist(c, dec_rec_ptr(s)) = Span(c, s) - 1
    BY <1>2, <1>3, IncFacts
  <2>3. Dist(c, s) \in Int /\ Span(c, e) \in Int
    BY <1>2, <1>3, DistType
  <2>4. Dist(c, dec_rec_ptr(s)) < Span(c, e)
    BY <1>3, <2>1, <2>2, <2>3
  <2> QED BY <1>1, <2>4 DEF LoopOK
<1> QED BY <1>1, <1>5, <1>6, RingMakesInvNext

\* The end of undo_to_savept takes the current savepoint away, and no other.
LEMMA UndoEndInv ==
  ASSUME Inv, UndoEnd
  PROVE  Inv'
<1> DEFINE f == FirstsOf(saved)
           sv == SubSeq(saved, 1, Len(saved) - 1)
           g == SubSeq(f, 1, Len(f) - 1)
<1>1. RingInv(undo, f) /\ HeapOK /\ saved \in Seq(SavedType) /\ Len(saved) = undo.savept_cnt
      /\ undo.savept_cnt > 0 /\ undo' = unwind(undo) /\ meta' = Null
      /\ saved' = Newest(sv, undo'.savept_cnt) /\ saved # << >>
  BY InvRing, HeapFromInv DEF UndoEnd, LoopOK
<1>2. f \in Seq(Slots) /\ Len(f) = Len(saved) /\ f # << >>
  <2>1. f \in Seq(Slots) /\ Len(f) = Len(saved) /\ Len(f) # 0
    BY <1>1, FirstsType
  <2> HIDE DEF f
  <2> QED BY <2>1
<1>3. sv \in Seq(SavedType) /\ FirstsOf(sv) = g /\ Len(sv) = Len(saved) - 1
  <2>1. sv \in Seq(SavedType) /\ FirstsOf(sv) = SubSeq(f, 1, Len(saved) - 1)
    BY <1>1, FirstsFront
  <2>2. Len(sv) = Len(saved) - 1
    BY <1>1, FrontFacts
  <2> HIDE DEF f, sv
  <2> QED BY <1>2, <2>1, <2>2
<1> HIDE DEF f, sv, g
<1>4. Linked(Cell, undo', g) /\ Kept(undo, f, undo', g, Null)
  BY <1>1, <1>2, CellFacts, UnwindLinked DEF RingInv, g
<1>5. undo'.savept_cnt = Len(saved) - 1 /\ undo'.savept_cnt <= MaxSavepts
  <2>1. undo'.savept_cnt = undo.savept_cnt - 1
    BY <1>1 DEF unwind
  <2> QED BY <1>1, <2>1, RingAssumption DEF RingInv
<1>6. saved' = sv
  BY <1>1, <1>3, <1>5, NewestAll
<1>7. Records(undo', g)
  BY <1>1, <1>4, KeptRecords DEF RingInv
<1>8. HeapOK'
  BY <1>1, <1>3, <1>6, NotifyType DEF UndoEnd, HeapOK, Pointers
<1>9. LoopOK'
  BY <1>1 DEF LoopOK, Idle
<1> QED BY <1>3, <1>4, <1>5, <1>6, <1>7, <1>8, <1>9, RingMakesInvNext DEF RingInv

\* Resetting to the image drops all savepoints.
LEMMA ResetInv ==
  ASSUME Inv, Reset
  PROVE  Inv'
<1>1. undo' = NewUndo /\ saved' = << >> /\ meta' = meta /\ meta = Null
  BY DEF Reset, drop_undo, Idle
<1>2. FirstsOf(saved') = << >>
  BY <1>1 DEF FirstsOf
<1>3. Linked(Cell, NewUndo, << >>) /\ NewUndo.savept_cnt = 0
  BY CellFacts, NewUndoLinked DEF NewUndo
<1>4. RingInv(undo', FirstsOf(saved'))
  BY <1>1, <1>2, <1>3, RingAssumption DEF RingInv, Records, InUse
<1>5. ImageEntries \in [Props -> [val : Vals \union {Absent, EmptyMod},
                                 mod : BOOLEAN, undo : BOOLEAN]]
  BY ValueAssumption DEF ImageEntries, NoEntry, Entry
<1>6. HeapOK
  BY HeapFromInv
<1>7. HeapOK'
  BY <1>1, <1>5, <1>6, ImageAssumption DEF Reset, HeapOK, Objects, Pointers
<1>8. LoopOK'
  BY <1>1 DEF LoopOK, Idle
<1> QED BY <1>4, <1>7, <1>8, RingMakesInvNext

\* Every step keeps the invariant.
LEMMA NextInv == Inv /\ [Next]_vars => Inv'
<1> SUFFICES ASSUME Inv, [Next]_vars PROVE Inv'
  OBVIOUS
<1>1. CASE \E o \in DynamicObjects : CreateObject(o)
  BY <1>1, CreateObjectInv
<1>2. CASE \E o \in Objects, p \in Props, v \in Vals : set_prop(o, p, v)
  BY <1>2, SetPropInv
<1>3. CASE CreateSavept
  BY <1>3, CreateSaveptInv
<1>4. CASE UndoBegin
  BY <1>4, UndoBeginInv
<1>5. CASE UndoApply
  BY <1>5, UndoApplyInv
<1>6. CASE UndoEnd
  BY <1>6, UndoEndInv
<1>7. CASE Reset
  BY <1>7, ResetInv
<1>8. CASE UNCHANGED vars
  <2>1. undo' = undo /\ live' = live /\ in_undo' = in_undo /\ obj_mod' = obj_mod
        /\ entry' = entry /\ entry_arr' = entry_arr /\ meta' = meta /\ saved' = saved
    BY <1>8 DEF vars
  <2>2. RingInv(undo', FirstsOf(saved')) /\ HeapOK' /\ LoopOK'
    <3>1. RingInv(undo, FirstsOf(saved)) /\ HeapOK /\ LoopOK
      BY InvRing, HeapFromInv
    <3> QED BY <2>1, <3>1 DEF HeapOK, LoopOK, Idle
  <2> QED BY <2>2, RingMakesInvNext
<1> QED BY <1>1, <1>2, <1>3, <1>4, <1>5, <1>6, <1>7, <1>8 DEF Next, UndoStep

\* The ring stays well linked in every behaviour: the pointers of the manager
\* and of the links agree, links and records are where they are taken to be,
\* nothing outside the savepoints is read, and the loop of undo_to_savept meets
\* the current link.
THEOREM UndoStructureHolds == Spec => []UndoStructure
<1>1. Inv => UndoStructure
  BY DEF Inv
<1> QED BY <1>1, InitInv, NextInv, PTL DEF Spec

\* Whatever is stored in or taken from the ring, the manager's pointers, the
\* objects and the entries keep their types, and at most MaxSavepts are held.
THEOREM TypeCorrect == Spec => []TypeOK
<1>1. Inv => TypeOK
  BY DEF Inv
<1> QED BY <1>1, InitInv, NextInv, PTL DEF Spec

-----------------------------------------------------------------------------
\* What undo brings back.

\* Induction over the natural numbers; it is used for no folds.
NoTurn(env, a, x) == a
NoClaim(env, i, a) == TRUE
Nats == INSTANCE Induction WITH Step <- NoTurn, Holds <- NoClaim

\* Slots between slot a and the end e that are no links of f: where the records
\* lie that were made since a.
Past(f, e, a) == {s \in Slots : Dist(a, s) \in 1 .. (Span(a, e) - 1) /\ ~IsLink(f, s)}

\* Those of the records in S about property p of object o.
Of(ring, S, o, p) == {s \in S : ring[s].obj = o /\ ring[s].prop = p}

\* The slot of A that comes first after a.
FirstIn(a, A) == CHOOSE s \in A : \A t \in A : Dist(a, s) <= Dist(a, t)

\* What the records in S, made since a, bring back: Recovered, with the heap as
\* a parameter.
ValOf(ring, a, S, en, o, p) ==
  LET A   == Of(ring, S, o, p)
      old == ring[FirstIn(a, A)].oldval
  IN  IF A = {} THEN en[o][p].val ELSE IF old = EmptyNew THEN Absent ELSE old
ModOf(ring, S, en, o, p) ==
  en[o][p].mod /\ \A s \in Of(ring, S, o, p) : ring[s].oldval \notin Empties
OrderOf(ring, S, ar, o) ==
  SubSeq(ar[o], 1,
    Len(ar[o]) - Cardinality({s \in S : ring[s].obj = o /\ ring[s].oldval = EmptyNew}))
ObjModOf(ring, S, om, o) == o \in om /\ Of(ring, S, o, InvalidProp) = {}

Rec(ring, a, S, en, ar, om, o) ==
  [vals  |-> [p \in Props |-> [val |-> ValOf(ring, a, S, en, o, p),
                               mod |-> ModOf(ring, S, en, o, p)]],
   order |-> OrderOf(ring, S, ar, o),
   mod   |-> ObjModOf(ring, S, om, o)]

\* When the loop comes to record x, the assertions of apply_undo hold.
Applicable(x, val, order) ==
  x.prop # InvalidProp =>
    /\ val # Absent
    /\ x.oldval = EmptyNew => order # << >> /\ order[Len(order)] = x.prop

\* The records of ring between the links f and up to slot e bring back what
\* savepoint c holds; on the way each of them finds the heap in the state that
\* it undoes.
RecoAt(ring, f, e, c, en, ar, om) ==
  LET S == Past(f, e, c.first)
  IN  /\ \A o \in Objects :
           /\ c.image[o] # NoObject => Rec(ring, c.first, S, en, ar, om, o) = c.image[o]
           /\ \A p \in Props : ValOf(ring, c.first, S, en, o, p) # EmptyMod
      /\ \A s \in S :
           Applicable(ring[s],
                      ValOf(ring, s, Past(f, e, s), en, ring[s].obj, ring[s].prop),
                      OrderOf(ring, Past(f, e, s), ar, ring[s].obj))

\* All savepoints of sv can be brought back.
Reco(ring, e, sv, en, ar, om) ==
  \A i \in 1 .. Len(sv) : RecoAt(ring, FirstsOf(sv), e, sv[i], en, ar, om)

\* Objects that take part in undo.
Owned == (live \intersect in_undo) \ TransientObjects

\* Only they have records, or are promised to come back.
Owners ==
  \A i \in 1 .. Len(saved) :
    /\ \A s \in Past(FirstsOf(saved), Top, saved[i].first) : undo.ring[s].obj \in Owned
    /\ \A o \in Objects : saved[i].image[o] # NoObject => o \in Owned

\* An entry that skips its record has one in the current savepoint.
Backed(ring, e, sv, en, own) ==
  sv # << >> => \A o \in own, p \in Props : en[o][p].undo =>
    Of(ring, Past(FirstsOf(sv), e, sv[Len(sv)].first), o, p) # {}

EntriesOK ==
  /\ \A o \in Objects, p \in Props : entry[o][p].val = Absent => ~entry[o][p].mod
  /\ Idle => /\ \A o \in Objects, p \in Props : entry[o][p].val # EmptyMod
             /\ \A o \in live, p \in Props :
                  entry[o][p].undo => entry[o][p].mod /\ entry[o][p].val # Absent

RecoveryInv ==
  /\ Reco(undo.ring, Top, saved, entry, entry_arr, obj_mod)
  /\ Owners
  /\ Idle => Backed(undo.ring, Top, saved, entry, Owned)
  /\ EntriesOK

-----------------------------------------------------------------------------
\* Lemma: one slot more at the end of the records.
LEMMA PastInc ==
  ASSUME NEW f, NEW t \in Slots, NEW b \in Slots, b # t, ~IsLink(f, t)
  PROVE  /\ Past(f, inc_rec_ptr(t), b) = Past(f, t, b) \union {t}
         /\ t \notin Past(f, t, b)
         /\ \A s \in Past(f, t, b) : Dist(b, s) < Dist(b, t)
<1>1. /\ Span(b, inc_rec_ptr(t)) = Dist(b, t) + 1 /\ Span(b, t) = Dist(b, t)
      /\ Dist(b, t) \in 1 .. (RingSize - 1)
  <2>1. Dist(b, t) # 0
    <3>1. Dist(b, b) = 0
      BY DistType
    <3> QED BY <3>1, DistInjective
  <2>2. Dist(b, t) \in 0 .. (RingSize - 1)
    BY DistType
  <2> QED BY <2>1, <2>2, IncFacts DEF Span
<1>2. \A s \in Slots : Dist(b, s) \in Int /\ (Dist(b, s) = Dist(b, t) => s = t)
  BY DistType, DistInjective
<1>3. \A s \in Slots : s \in Past(f, inc_rec_ptr(t), b) <=> s \in Past(f, t, b) \union {t}
  BY <1>1, <1>2 DEF Past
<1>4. Past(f, inc_rec_ptr(t), b) \subseteq Slots /\ Past(f, t, b) \subseteq Slots
  BY DEF Past
<1>5. \A s \in Past(f, t, b) : s \in Slots /\ Dist(b, s) \in 1 .. (Dist(b, t) - 1)
  BY <1>1 DEF Past
<1> QED BY <1>1, <1>2, <1>3, <1>4, <1>5

\* Lemma: a record that no slot follows.
LEMMA PastLast ==
  ASSUME NEW f, NEW t \in Slots
  PROVE  Past(f, inc_rec_ptr(t), t) = {}
<1>1. Span(t, inc_rec_ptr(t)) = 1
  BY IncFacts, DistType
<1> QED BY <1>1 DEF Past

\* Lemma: what follows a slot that follows a also follows a, and the distances
\* from a tell the same order.
LEMMA PastTrans ==
  ASSUME NEW e \in Slots, NEW a \in Slots, NEW b \in Slots, NEW s \in Slots,
         Dist(a, b) < Span(a, e), Dist(b, s) < Span(b, e)
  PROVE  /\ Dist(a, s) < Span(a, e) /\ Dist(a, s) = Dist(a, b) + Dist(b, s)
<1>1. CASE a = b
  BY <1>1, DistType
<1>2. CASE a # b
  <2>1. Dist(a, b) <= Dist(a, s) /\ Dist(a, s) < Span(a, e)
    BY <1>2, InUseAfterDrop
  <2>2. Dist(b, s) = Dist(a, s) - Dist(a, b)
    BY <2>1, DistAdds
  <2>3. Dist(a, s) \in Int /\ Dist(a, b) \in Int
    BY DistType
  <2> QED BY <2>1, <2>2, <2>3
<1> QED BY <1>1, <1>2

\* Lemma: so do the records.
LEMMA PastSubset ==
  ASSUME NEW f, NEW e \in Slots, NEW a \in Slots, NEW b \in Slots,
         Dist(a, b) < Span(a, e)
  PROVE  /\ Past(f, e, b) \subseteq Past(f, e, a)
         /\ \A s \in Past(f, e, b) : Dist(a, s) = Dist(a, b) + Dist(b, s)
<1> SUFFICES ASSUME NEW s \in Past(f, e, b)
             PROVE  s \in Past(f, e, a) /\ Dist(a, s) = Dist(a, b) + Dist(b, s)
  OBVIOUS
<1>1. s \in Slots /\ Dist(b, s) \in 1 .. (Span(b, e) - 1) /\ ~IsLink(f, s) /\ Span(b, e) \in Int
  BY DistType DEF Past
<1>2. Dist(b, s) < Span(b, e) /\ 0 < Dist(b, s) /\ Dist(b, s) \in Int
  BY <1>1
<1>3. Dist(a, s) < Span(a, e) /\ Dist(a, s) = Dist(a, b) + Dist(b, s)
  BY <1>1, <1>2, PastTrans
<1>4. Dist(a, b) \in 0 .. (RingSize - 1) /\ Span(a, e) \in Int /\ Dist(a, s) \in Int
  BY <1>1, DistType
<1>5. Dist(a, s) \in 1 .. (Span(a, e) - 1)
  BY <1>2, <1>3, <1>4
<1> QED BY <1>1, <1>3, <1>5 DEF Past

-----------------------------------------------------------------------------
\* Lemma: the first slot of a set is one of its slots, and the only first one.
LEMMA FirstInFacts ==
  ASSUME NEW a \in Slots, NEW A \in SUBSET Slots, A # {}
  PROVE  /\ FirstIn(a, A) \in A
         /\ \A e \in A : (\A t \in A : Dist(a, e) <= Dist(a, t)) => FirstIn(a, A) = e
<1> DEFINE T == {Dist(a, s) : s \in A}
<1>1. \A s \in A : Dist(a, s) \in Nat
  BY DistType
<1>2. T \in SUBSET Nat /\ T # {}
  BY <1>1
<1>3. PICK m \in T : \A k \in T : m <= k
  <2> HIDE DEF T
  <2> QED BY <1>2, Nats!LeastNat
<1>4. \E s \in A : \A t \in A : Dist(a, s) <= Dist(a, t)
  <2>1. PICK s \in A : m = Dist(a, s)
    OBVIOUS
  <2> QED BY <1>3, <2>1
<1>5. FirstIn(a, A) \in A /\ \A t \in A : Dist(a, FirstIn(a, A)) <= Dist(a, t)
  BY <1>4 DEF FirstIn
<1>6. ASSUME NEW e \in A, \A t \in A : Dist(a, e) <= Dist(a, t)
      PROVE  FirstIn(a, A) = e
  <2>1. Dist(a, FirstIn(a, A)) <= Dist(a, e) /\ Dist(a, e) <= Dist(a, FirstIn(a, A))
    BY <1>5, <1>6
  <2>2. Dist(a, FirstIn(a, A)) = Dist(a, e)
    BY <1>1, <1>5, <2>1
  <2> QED BY <1>5, <2>2, DistInjective
<1> QED BY <1>5, <1>6

\* Lemma: a slot that comes later is not the first.
LEMMA FirstInLater ==
  ASSUME NEW a \in Slots, NEW A \in SUBSET Slots, A # {}, NEW r \in Slots,
         \A s \in A : Dist(a, s) < Dist(a, r)
  PROVE  FirstIn(a, A \union {r}) = FirstIn(a, A)
<1> DEFINE e == FirstIn(a, A)
<1>1. e \in A
  BY FirstInFacts
<1>2. \A t \in A : Dist(a, e) <= Dist(a, t)
  <2>1. \A s \in A : Dist(a, s) \in Nat
    BY DistType
  <2> DEFINE T == {Dist(a, s) : s \in A}
  <2>2. T \in SUBSET Nat /\ T # {}
    BY <2>1
  <2>3. PICK m \in T : \A k \in T : m <= k
    <3> HIDE DEF T
    <3> QED BY <2>2, Nats!LeastNat
  <2>4. PICK s \in A : m = Dist(a, s)
    OBVIOUS
  <2>5. \A t \in A : Dist(a, s) <= Dist(a, t)
    BY <2>3, <2>4
  <2>6. FirstIn(a, A) = s
    BY <2>5, FirstInFacts
  <2> QED BY <2>5, <2>6
<1> HIDE DEF e
<1>3. Dist(a, e) <= Dist(a, r) /\ Dist(a, r) \in Int
  <2>1. Dist(a, e) \in Int /\ Dist(a, r) \in Int /\ Dist(a, e) < Dist(a, r)
    BY <1>1, DistType
  <2> QED BY <2>1
<1>4. \A t \in A \union {r} : Dist(a, e) <= Dist(a, t)
  BY <1>2, <1>3
<1> QED BY <1>1, <1>4, FirstInFacts DEF e

-----------------------------------------------------------------------------
EntryType == [val : Vals \union {Absent, EmptyMod}, mod : BOOLEAN, undo : BOOLEAN]

\* A heap: the part of it that undo is about.
Heap(en, ar, om) ==
  /\ en \in [Objects -> [Props -> EntryType]]
  /\ ar \in [Objects -> Seq(Props)]
  /\ om \in SUBSET Objects

\* apply_undo, as functions of the heap.
ApplyEntry(x, en) ==
  IF x.prop = InvalidProp THEN en
  ELSE IF x.oldval = EmptyNew THEN [en EXCEPT ![x.obj][x.prop] = NoEntry]
  ELSE [en EXCEPT ![x.obj][x.prop] =
          Entry(x.oldval, en[x.obj][x.prop].mod /\ x.oldval # EmptyMod,
                en[x.obj][x.prop].undo)]
ApplyOrder(x, ar) ==
  IF x.prop # InvalidProp /\ x.oldval = EmptyNew
  THEN [ar EXCEPT ![x.obj] = SubSeq(ar[x.obj], 1, Len(ar[x.obj]) - 1)] ELSE ar
ApplyObj(x, om) == IF x.prop = InvalidProp THEN om \ {x.obj} ELSE om

\* Lemma: the contents of a record.
LEMMA RecordFacts ==
  ASSUME NEW x \in UndoRecord
  PROVE  /\ x.obj \in Objects
         /\ \/ x.prop \in Props /\ x.prop # InvalidProp /\ x.oldval \in Vals \union Empties
            \/ x.prop = InvalidProp /\ x.oldval = Int1
         /\ x.oldval # Absent
         /\ x.prop = InvalidProp => x.oldval \notin Empties
         /\ x.oldval # EmptyNew /\ x.prop # InvalidProp => x.oldval \in Vals \union {EmptyMod}
<1>1. \/ x.obj \in Objects /\ x.prop \in Props /\ x.oldval \in Vals \union Empties
      \/ x.obj \in Objects /\ x.prop = InvalidProp /\ x.oldval = Int1
  BY DEF UndoRecord
<1> QED BY <1>1, ValueAssumption DEF Empties

\* Lemma: what applying a record does to each entry.
LEMMA ApplyEntryFacts ==
  ASSUME NEW x \in UndoRecord, NEW en \in [Objects -> [Props -> EntryType]]
  PROVE  /\ ApplyEntry(x, en) \in [Objects -> [Props -> EntryType]]
         /\ \A o \in Objects, p \in Props :
              ~(x.obj = o /\ x.prop = p) => ApplyEntry(x, en)[o][p] = en[o][p]
         /\ x.prop # InvalidProp =>
              LET new == ApplyEntry(x, en)[x.obj][x.prop]
                  old == en[x.obj][x.prop]
              IN  /\ new.val = IF x.oldval = EmptyNew THEN Absent ELSE x.oldval
                  /\ new.mod <=> old.mod /\ x.oldval \notin Empties
                  /\ x.oldval = EmptyNew => new = NoEntry
                  /\ x.oldval # EmptyNew => new.undo = old.undo
<1> DEFINE o == x.obj
           p == x.prop
           w == x.oldval
           old == en[o][p]
<1>1. o \in Objects /\ w # Absent
  BY RecordFacts
<1>2. CASE p = InvalidProp
  <2>1. ApplyEntry(x, en) = en
    BY <1>2 DEF ApplyEntry
  <2> QED BY <1>2, <2>1
<1>3. CASE p # InvalidProp
  <2>1. p \in Props /\ w \in Vals \union Empties
    BY <1>3, RecordFacts
  <2>2. old \in EntryType /\ en[o] \in [Props -> EntryType]
    BY <1>1, <2>1
  <2> DEFINE n == IF w = EmptyNew THEN NoEntry
                  ELSE Entry(w, old.mod /\ w # EmptyMod, old.undo)
  <2>3. ApplyEntry(x, en) = [en EXCEPT ![o][p] = n]
    BY <1>3 DEF ApplyEntry
  <2>4. n \in EntryType
    <3>1. CASE w = EmptyNew
      BY <3>1 DEF NoEntry, Entry, EntryType
    <3>2. CASE w # EmptyNew
      <4>1. (old.mod /\ w # EmptyMod) \in BOOLEAN /\ old.undo \in BOOLEAN
        BY <2>2 DEF EntryType
      <4>2. w \in Vals \union {Absent, EmptyMod}
        BY <2>1, <3>2 DEF Empties
      <4> QED BY <3>2, <4>1, <4>2 DEF Entry, EntryType
    <3> QED BY <3>1, <3>2
  <2>5. /\ n.val = IF w = EmptyNew THEN Absent ELSE w
        /\ n.mod <=> old.mod /\ w \notin Empties
        /\ w = EmptyNew => n = NoEntry
        /\ w # EmptyNew => n.undo = old.undo
    <3>1. CASE w = EmptyNew
      BY <3>1 DEF NoEntry, Entry, Empties
    <3>2. CASE w # EmptyNew
      BY <2>2, <3>2 DEF Entry, Empties, EntryType
    <3> QED BY <3>1, <3>2
  <2> HIDE DEF n, EntryType
  <2>6. /\ [en EXCEPT ![o][p] = n] \in [Objects -> [Props -> EntryType]]
        /\ [en EXCEPT ![o][p] = n][o][p] = n
        /\ \A a \in Objects, b \in Props :
             ~(o = a /\ p = b) => [en EXCEPT ![o][p] = n][a][b] = en[a][b]
    BY <1>1, <2>1, <2>2, <2>4
  <2> QED BY <1>3, <2>3, <2>5, <2>6
<1> QED BY <1>2, <1>3

\* Lemma: an empty piece of a sequence, and any other.
LEMMA FrontPiece ==
  ASSUME NEW S, NEW q \in Seq(S), NEW n \in Int, n <= Len(q)
  PROVE  /\ n <= 0 => SubSeq(q, 1, n) = << >>
         /\ n >= 0 => /\ SubSeq(q, 1, n) \in Seq(S) /\ Len(SubSeq(q, 1, n)) = n
                      /\ \A i \in 1 .. n : SubSeq(q, 1, n)[i] = q[i]
<1>1. n <= 0 => SubSeq(q, 1, n) = << >>
  OBVIOUS
<1>2. n >= 0 => /\ SubSeq(q, 1, n) \in Seq(S) /\ Len(SubSeq(q, 1, n)) = n
                /\ \A i \in 1 .. n : SubSeq(q, 1, n)[i] = q[i]
  OBVIOUS
<1> QED BY <1>1, <1>2

\* Lemma: taking c elements off the end, or one and then the others.
LEMMA FrontTwice ==
  ASSUME NEW S, NEW q \in Seq(S), NEW c \in Nat
  PROVE  LET w == SubSeq(q, 1, Len(q) - 1)
         IN  /\ w \in Seq(S)
             /\ SubSeq(w, 1, Len(w) - c) = SubSeq(q, 1, Len(q) - (c + 1))
<1> DEFINE w == SubSeq(q, 1, Len(q) - 1)
<1>1. CASE Len(q) = 0
  <2>1. w = << >>
    BY <1>1, FrontPiece
  <2> HIDE DEF w
  <2>2. Len(w) = 0 /\ w \in Seq(S)
    <3>1. << >> \in Seq(S) /\ Len(<< >>) = 0
      OBVIOUS
    <3> QED BY <2>1, <3>1
  <2>3. SubSeq(w, 1, Len(w) - c) = << >>
    BY <2>2, FrontPiece
  <2>4. SubSeq(q, 1, Len(q) - (c + 1)) = << >>
    BY <1>1, FrontPiece
  <2> QED BY <2>2, <2>3, <2>4 DEF w
<1>2. CASE Len(q) # 0
  <2>1. Len(q) \in Nat /\ Len(q) >= 1
    BY <1>2
  <2>2. w \in Seq(S) /\ Len(w) = Len(q) - 1 /\ \A i \in 1 .. Len(q) - 1 : w[i] = q[i]
    <3> DEFINE m == Len(q) - 1
    <3>1. m \in Int /\ m <= Len(q) /\ m >= 0
      BY <2>1
    <3> HIDE DEF m
    <3>2. /\ SubSeq(q, 1, m) \in Seq(S) /\ Len(SubSeq(q, 1, m)) = m
          /\ \A i \in 1 .. m : SubSeq(q, 1, m)[i] = q[i]
      BY <3>1, FrontPiece
    <3> QED BY <3>2 DEF m
  <2> HIDE DEF w
  <2>3. CASE Len(q) - (c + 1) <= 0
    <3>1. SubSeq(w, 1, Len(w) - c) = << >>
      BY <2>1, <2>2, <2>3, FrontPiece
    <3>2. SubSeq(q, 1, Len(q) - (c + 1)) = << >>
      BY <2>1, <2>3, FrontPiece
    <3> QED BY <2>2, <3>1, <3>2 DEF w
  <2>4. CASE Len(q) - (c + 1) >= 0
    <3> DEFINE n == Len(q) - (c + 1)
               x == SubSeq(w, 1, n)
               y == SubSeq(q, 1, n)
    <3>1. n \in Nat /\ n <= Len(w) /\ n <= Len(q) /\ Len(w) - c = n
      BY <2>1, <2>2, <2>4
    <3> HIDE DEF n
    <3>2. x \in Seq(S) /\ Len(x) = n /\ \A i \in 1 .. n : x[i] = w[i]
      BY <2>2, <3>1, FrontPiece
    <3>3. y \in Seq(S) /\ Len(y) = n /\ \A i \in 1 .. n : y[i] = q[i]
      BY <3>1, FrontPiece
    <3>4. \A i \in 1 .. n : i \in 1 .. Len(q) - 1
      BY <2>1, <2>2, <3>1
    <3> HIDE DEF x, y
    <3>5. \A i \in 1 .. n : x[i] = y[i]
      BY <2>2, <3>2, <3>3, <3>4
    <3>6. x = y
      BY <3>2, <3>3, <3>5, SeqEqual
    <3> QED BY <2>2, <3>1, <3>6 DEF x, y, w, n
  <2> QED BY <2>1, <2>3, <2>4
<1> QED BY <1>1, <1>2

\* Lemma: there are finitely many slots.
LEMMA SlotsFinite == ASSUME NEW S \in SUBSET Slots PROVE IsFiniteSet(S) /\ Cardinality(S) \in Nat
<1>1. IsFiniteSet(Slots)
  BY RingAssumption, FS_Interval DEF Slots
<1> QED BY <1>1, FS_Subset, FS_CardinalityType

-----------------------------------------------------------------------------
\* Lemma: the records about a property, with one more record.
LEMMA OfOneMore ==
  ASSUME NEW ring, NEW S, NEW r, r \notin S, NEW o, NEW p
  PROVE  /\ ring[r].obj = o /\ ring[r].prop = p =>
              Of(ring, S \union {r}, o, p) = Of(ring, S, o, p) \union {r}
         /\ ~(ring[r].obj = o /\ ring[r].prop = p) =>
              Of(ring, S \union {r}, o, p) = Of(ring, S, o, p)
  BY DEF Of

\* Lemma: applying the newest record first does not change the value that the
\* records bring back.
LEMMA PeelVal ==
  ASSUME NEW ring, NEW a \in Slots, NEW S \in SUBSET Slots, NEW r \in Slots, r \notin S,
         \A s \in S : Dist(a, s) < Dist(a, r), ring[r] \in UndoRecord,
         NEW en \in [Objects -> [Props -> EntryType]], NEW o \in Objects, NEW p \in Props
  PROVE  ValOf(ring, a, S \union {r}, en, o, p)
           = ValOf(ring, a, S, ApplyEntry(ring[r], en), o, p)
<1> DEFINE x == ring[r]
           A == Of(ring, S, o, p)
           B == Of(ring, S \union {r}, o, p)
           new == ApplyEntry(x, en)
<1>1. p # InvalidProp
  BY ValueAssumption
<1>2. A \in SUBSET Slots /\ \A s \in A : Dist(a, s) < Dist(a, r)
  BY DEF Of
<1>3. CASE x.obj = o /\ x.prop = p
  <2>1. B = A \union {r}
    BY <1>3 DEF Of
  <2>2. new[o][p].val = IF x.oldval = EmptyNew THEN Absent ELSE x.oldval
    BY <1>1, <1>3, ApplyEntryFacts
  <2> HIDE DEF A, B, new
  <2>3. CASE A = {}
    <3>1. B = {r} /\ B \in SUBSET Slots /\ B # {}
      BY <2>1, <2>3
    <3>2. FirstIn(a, B) = r
      <4>1. FirstIn(a, B) \in B
        BY <3>1, FirstInFacts
      <4> QED BY <3>1, <4>1
    <3> QED BY <2>2, <2>3, <3>1, <3>2 DEF ValOf, A, B, new
  <2>4. CASE A # {}
    <3>1. FirstIn(a, B) = FirstIn(a, A)
      BY <1>2, <2>1, <2>4, FirstInLater
    <3>2. B # {}
      BY <2>1
    <3> QED BY <2>4, <3>1, <3>2 DEF ValOf, A, B
  <2> QED BY <2>3, <2>4
<1>4. CASE ~(x.obj = o /\ x.prop = p)
  <2>1. B = A
    BY <1>4 DEF Of
  <2>2. new[o][p] = en[o][p]
    BY <1>4, ApplyEntryFacts
  <2> HIDE DEF A, B, new
  <2> QED BY <2>1, <2>2 DEF ValOf, A, B, new
<1> QED BY <1>3, <1>4

\* Lemma: nor the modification flag.
LEMMA PeelMod ==
  ASSUME NEW ring, NEW S, NEW r, r \notin S, ring[r] \in UndoRecord,
         NEW en \in [Objects -> [Props -> EntryType]], NEW o \in Objects, NEW p \in Props
  PROVE  ModOf(ring, S \union {r}, en, o, p) = ModOf(ring, S, ApplyEntry(ring[r], en), o, p)
<1> DEFINE x == ring[r]
           A == Of(ring, S, o, p)
           B == Of(ring, S \union {r}, o, p)
           new == ApplyEntry(x, en)
<1>1. p # InvalidProp
  BY ValueAssumption
<1>2. CASE x.obj = o /\ x.prop = p
  <2>1. B = A \union {r}
    BY <1>2 DEF Of
  <2>2. new[o][p].mod <=> en[o][p].mod /\ x.oldval \notin Empties
    BY <1>1, <1>2, ApplyEntryFacts
  <2> HIDE DEF A, B, new
  <2> QED BY <2>1, <2>2 DEF ModOf, A, B, new
<1>3. CASE ~(x.obj = o /\ x.prop = p)
  <2>1. B = A
    BY <1>3 DEF Of
  <2>2. new[o][p] = en[o][p]
    BY <1>3, ApplyEntryFacts
  <2> HIDE DEF A, B, new
  <2> QED BY <2>1, <2>2 DEF ModOf, A, B, new
<1> QED BY <1>2, <1>3

\* Lemma: nor the order of the entries.
LEMMA PeelOrder ==
  ASSUME NEW ring, NEW S \in SUBSET Slots, NEW r \in Slots, r \notin S, ring[r] \in UndoRecord,
         NEW ar \in [Objects -> Seq(Props)], NEW o \in Objects
  PROVE  OrderOf(ring, S \union {r}, ar, o) = OrderOf(ring, S, ApplyOrder(ring[r], ar), o)
<1> DEFINE x == ring[r]
           A == {s \in S : ring[s].obj = o /\ ring[s].oldval = EmptyNew}
           B == {s \in S \union {r} : ring[s].obj = o /\ ring[s].oldval = EmptyNew}
           c == Cardinality(A)
           new == ApplyOrder(x, ar)
<1>1. A \in SUBSET Slots /\ r \notin A /\ IsFiniteSet(A) /\ c \in Nat
  BY SlotsFinite
<1>2. ar[o] \in Seq(Props) /\ x.obj \in Objects
  BY RecordFacts
<1>3. CASE x.obj = o /\ x.oldval = EmptyNew
  <2>1. B = A \union {r}
    BY <1>3
  <2>2. x.prop # InvalidProp
    BY <1>3, RecordFacts DEF Empties
  <2>3. new[o] = SubSeq(ar[o], 1, Len(ar[o]) - 1)
    BY <1>2, <1>3, <2>2 DEF ApplyOrder
  <2> HIDE DEF A, B
  <2>4. Cardinality(B) = c + 1
    BY <1>1, <2>1, FS_AddElement
  <2> HIDE DEF c, new, x
  <2>5. SubSeq(new[o], 1, Len(new[o]) - c) = SubSeq(ar[o], 1, Len(ar[o]) - (c + 1))
    BY <1>1, <1>2, <2>3, FrontTwice
  <2> QED BY <2>4, <2>5 DEF OrderOf, A, B, c, new, x
<1>4. CASE ~(x.obj = o /\ x.oldval = EmptyNew)
  <2>1. B = A
    BY <1>4
  <2>2. new[o] = ar[o]
    BY <1>2, <1>4 DEF ApplyOrder
  <2> HIDE DEF A, B, new
  <2> QED BY <2>1, <2>2 DEF OrderOf, A, B, new
<1> QED BY <1>3, <1>4

\* Lemma: nor the object's own flag.
LEMMA PeelObjMod ==
  ASSUME NEW ring, NEW S, NEW r, r \notin S, NEW om, NEW o
  PROVE  ObjModOf(ring, S \union {r}, om, o) = ObjModOf(ring, S, ApplyObj(ring[r], om), o)
<1>1. CASE ring[r].obj = o /\ ring[r].prop = InvalidProp
  BY <1>1 DEF Of, ObjModOf, ApplyObj
<1>2. CASE ~(ring[r].obj = o /\ ring[r].prop = InvalidProp)
  BY <1>2 DEF Of, ObjModOf, ApplyObj
<1> QED BY <1>1, <1>2

\* Lemma: applying a record to a heap yields a heap.
LEMMA ApplyHeap ==
  ASSUME NEW x \in UndoRecord, NEW en, NEW ar, NEW om, Heap(en, ar, om)
  PROVE  Heap(ApplyEntry(x, en), ApplyOrder(x, ar), ApplyObj(x, om))
<1>1. ApplyEntry(x, en) \in [Objects -> [Props -> EntryType]]
  BY ApplyEntryFacts DEF Heap
<1>2. ApplyOrder(x, ar) \in [Objects -> Seq(Props)]
  <2>1. x.obj \in Objects /\ ar \in [Objects -> Seq(Props)]
    BY RecordFacts DEF Heap
  <2>2. ar[x.obj] \in Seq(Props)
    BY <2>1
  <2>3. SubSeq(ar[x.obj], 1, Len(ar[x.obj]) - 1) \in Seq(Props)
    BY <2>2, FrontTwice, 0 \in Nat
  <2> QED BY <2>1, <2>3 DEF ApplyOrder
<1>3. ApplyObj(x, om) \in SUBSET Objects
  BY DEF ApplyObj, Heap
<1> QED BY <1>1, <1>2, <1>3 DEF Heap

\* Lemma: in all, the newest record may be applied first.
LEMMA Peel ==
  ASSUME NEW ring, NEW a \in Slots, NEW S \in SUBSET Slots, NEW r \in Slots, r \notin S,
         \A s \in S : Dist(a, s) < Dist(a, r), ring[r] \in UndoRecord,
         NEW en, NEW ar, NEW om, Heap(en, ar, om), NEW o \in Objects
  PROVE  Rec(ring, a, S \union {r}, en, ar, om, o)
           = Rec(ring, a, S, ApplyEntry(ring[r], en), ApplyOrder(ring[r], ar),
                 ApplyObj(ring[r], om), o)
<1>1. en \in [Objects -> [Props -> EntryType]] /\ ar \in [Objects -> Seq(Props)]
  BY DEF Heap
<1>2. \A p \in Props : ValOf(ring, a, S \union {r}, en, o, p)
                         = ValOf(ring, a, S, ApplyEntry(ring[r], en), o, p)
  BY <1>1, PeelVal
<1>3. \A p \in Props : ModOf(ring, S \union {r}, en, o, p)
                         = ModOf(ring, S, ApplyEntry(ring[r], en), o, p)
  BY <1>1, PeelMod
<1>4. OrderOf(ring, S \union {r}, ar, o) = OrderOf(ring, S, ApplyOrder(ring[r], ar), o)
  BY <1>1, PeelOrder
<1>5. ObjModOf(ring, S \union {r}, om, o) = ObjModOf(ring, S, ApplyObj(ring[r], om), o)
  BY PeelObjMod
<1> QED BY <1>2, <1>3, <1>4, <1>5 DEF Rec

-----------------------------------------------------------------------------
\* Lemma: what is brought back depends on no other slots.
LEMMA RecRing ==
  ASSUME NEW ring, NEW v, NEW a \in Slots, NEW S \in SUBSET Slots, \A s \in S : v[s] = ring[s],
         NEW en, NEW ar, NEW om, NEW o
  PROVE  /\ \A p : ValOf(v, a, S, en, o, p) = ValOf(ring, a, S, en, o, p)
         /\ OrderOf(v, S, ar, o) = OrderOf(ring, S, ar, o)
         /\ Rec(v, a, S, en, ar, om, o) = Rec(ring, a, S, en, ar, om, o)
<1>1. \A p : Of(v, S, o, p) = Of(ring, S, o, p) /\ Of(ring, S, o, p) \subseteq S
  BY DEF Of
<1>2. ASSUME NEW p PROVE ValOf(v, a, S, en, o, p) = ValOf(ring, a, S, en, o, p)
  <2> DEFINE A == Of(ring, S, o, p)
  <2>1. Of(v, S, o, p) = A /\ A \subseteq S
    BY <1>1
  <2> HIDE DEF A
  <2>2. CASE A = {}
    BY <2>1, <2>2 DEF ValOf, A
  <2>3. CASE A # {}
    <3>1. FirstIn(a, A) \in S
      BY <2>1, <2>3, FirstInFacts
    <3>2. v[FirstIn(a, A)] = ring[FirstIn(a, A)]
      BY <3>1
    <3> QED BY <2>1, <2>3, <3>2 DEF ValOf, A
  <2> QED BY <2>2, <2>3
<1>3. ASSUME NEW p PROVE ModOf(v, S, en, o, p) = ModOf(ring, S, en, o, p)
  BY <1>1 DEF ModOf
<1>4. OrderOf(v, S, ar, o) = OrderOf(ring, S, ar, o)
  <2>1. {s \in S : v[s].obj = o /\ v[s].oldval = EmptyNew}
          = {s \in S : ring[s].obj = o /\ ring[s].oldval = EmptyNew}
    OBVIOUS
  <2> QED BY <2>1 DEF OrderOf
<1>5. ObjModOf(v, S, om, o) = ObjModOf(ring, S, om, o)
  BY <1>1 DEF ObjModOf
<1>6. Rec(v, a, S, en, ar, om, o) = Rec(ring, a, S, en, ar, om, o)
  BY <1>2, <1>3, <1>4, <1>5 DEF Rec
<1> QED BY <1>2, <1>4, <1>6

\* Heaps that differ in no value and no modification flag.
SameValues(en, new) ==
  \A o \in Objects, p \in Props : en[o][p].val = new[o][p].val /\ en[o][p].mod = new[o][p].mod

\* Lemma: nor on the undo flags of the entries.
LEMMA RecSame ==
  ASSUME NEW ring, NEW a, NEW S, NEW en, NEW new, SameValues(en, new), NEW ar, NEW om,
         NEW o \in Objects
  PROVE  /\ \A p \in Props : ValOf(ring, a, S, en, o, p) = ValOf(ring, a, S, new, o, p)
         /\ Rec(ring, a, S, en, ar, om, o) = Rec(ring, a, S, new, ar, om, o)
<1>1. \A p \in Props : ValOf(ring, a, S, en, o, p) = ValOf(ring, a, S, new, o, p)
  BY DEF ValOf, SameValues
<1>2. \A p \in Props : ModOf(ring, S, en, o, p) = ModOf(ring, S, new, o, p)
  BY DEF ModOf, SameValues
<1> QED BY <1>1, <1>2 DEF Rec

\* Lemma: without records, the heap is what is brought back.
LEMMA NothingVal ==
  ASSUME NEW ring, NEW a, NEW S, S = {}, NEW en, NEW o, NEW p
  PROVE  ValOf(ring, a, S, en, o, p) = en[o][p].val
<1>1. Of(ring, S, o, p) = {}
  BY DEF Of
<1> QED BY <1>1 DEF ValOf

\* Lemma: so is the order of its entries.
LEMMA NothingOrder ==
  ASSUME NEW ring, NEW S, S = {}, NEW ar \in [Objects -> Seq(Props)], NEW o \in Objects
  PROVE  OrderOf(ring, S, ar, o) = ar[o]
<1>1. {s \in S : ring[s].obj = o /\ ring[s].oldval = EmptyNew} = {}
  OBVIOUS
<1>2. Cardinality({}) = 0
  BY FS_EmptySet
<1>3. ar[o] \in Seq(Props)
  OBVIOUS
<1>4. Len(ar[o]) - 0 = Len(ar[o]) /\ SubSeq(ar[o], 1, Len(ar[o])) = ar[o]
  BY <1>3
<1> QED BY <1>1, <1>2, <1>4 DEF OrderOf

\* Image, of the heap given.
ImageOf(en, ar, om, o) ==
  [vals  |-> [p \in Props |-> [val |-> en[o][p].val, mod |-> en[o][p].mod]],
   order |-> ar[o], mod |-> o \in om]

\* Lemma: all of it.
LEMMA RecNothing ==
  ASSUME NEW ring, NEW a, NEW en, NEW ar, NEW om, Heap(en, ar, om), NEW o \in Objects
  PROVE  Rec(ring, a, {}, en, ar, om, o) = ImageOf(en, ar, om, o)
<1> USE DEF ImageOf
<1>1. \A p : Of(ring, {}, o, p) = {}
  BY DEF Of
<1>2. (\A p : ValOf(ring, a, {}, en, o, p) = en[o][p].val) /\ OrderOf(ring, {}, ar, o) = ar[o]
  <2>1. ar \in [Objects -> Seq(Props)]
    BY DEF Heap
  <2>2. \A p : ValOf(ring, a, {}, en, o, p) = en[o][p].val
    BY NothingVal
  <2>3. OrderOf(ring, {}, ar, o) = ar[o]
    BY <2>1, NothingOrder
  <2> QED BY <2>2, <2>3
<1>3. \A p \in Props : ModOf(ring, {}, en, o, p) = en[o][p].mod
  BY <1>1 DEF ModOf, Heap, EntryType
<1>4. ObjModOf(ring, {}, om, o) = (o \in om)
  BY <1>1 DEF ObjModOf
<1> QED BY <1>2, <1>3, <1>4 DEF Rec

-----------------------------------------------------------------------------
\* Seen from slot a and the records after it, ring v (with links g and end e2)
\* has one record more than ring (links f, end e), in slot r, the last one.
GrowsAt(ring, f, e, v, g, e2, a, r) ==
  /\ a \in Slots /\ r \in Slots /\ Past(g, e2, r) = {}
  /\ \A b \in Past(f, e, a) \union {a} :
       /\ Past(g, e2, b) = Past(f, e, b) \union {r} /\ r \notin Past(f, e, b)
       /\ Past(f, e, b) \subseteq Past(f, e, a)
       /\ \A s \in Past(f, e, b) : Dist(b, s) < Dist(b, r)
  /\ \A s \in Past(f, e, a) : v[s] = ring[s] /\ ring[s] \in UndoRecord

\* Lemma: a record more, or the record applied: the same is brought back.
LEMMA GrowEqual ==
  ASSUME NEW ring, NEW f, NEW e, NEW v, NEW g, NEW e2, NEW a, NEW r,
         GrowsAt(ring, f, e, v, g, e2, a, r), v[r] \in UndoRecord,
         NEW en, NEW ar, NEW om, Heap(en, ar, om),
         NEW b \in Past(f, e, a) \union {a}, NEW o \in Objects
  PROVE  /\ \A p \in Props : ValOf(v, b, Past(g, e2, b), en, o, p)
                               = ValOf(ring, b, Past(f, e, b), ApplyEntry(v[r], en), o, p)
         /\ OrderOf(v, Past(g, e2, b), ar, o)
              = OrderOf(ring, Past(f, e, b), ApplyOrder(v[r], ar), o)
         /\ Rec(v, b, Past(g, e2, b), en, ar, om, o)
              = Rec(ring, b, Past(f, e, b), ApplyEntry(v[r], en), ApplyOrder(v[r], ar),
                    ApplyObj(v[r], om), o)
<1> DEFINE S == Past(f, e, b)
           x == v[r]
<1>1. /\ Past(g, e2, b) = S \union {r} /\ r \notin S /\ r \in Slots
      /\ \A s \in S : Dist(b, s) < Dist(b, r)
      /\ \A s \in S : v[s] = ring[s]
  BY DEF GrowsAt
<1>2. b \in Slots /\ S \in SUBSET Slots
  BY DEF GrowsAt, Past
<1>3. en \in [Objects -> [Props -> EntryType]] /\ ar \in [Objects -> Seq(Props)]
  BY DEF Heap
<1> HIDE DEF S
<1>4. /\ \A p \in Props : ValOf(v, b, S \union {r}, en, o, p) = ValOf(v, b, S, ApplyEntry(x, en), o, p)
      /\ OrderOf(v, S \union {r}, ar, o) = OrderOf(v, S, ApplyOrder(x, ar), o)
      /\ Rec(v, b, S \union {r}, en, ar, om, o)
           = Rec(v, b, S, ApplyEntry(x, en), ApplyOrder(x, ar), ApplyObj(x, om), o)
  <2>1. \A p \in Props : ValOf(v, b, S \union {r}, en, o, p)
                           = ValOf(v, b, S, ApplyEntry(x, en), o, p)
    <3> SUFFICES ASSUME NEW p \in Props
                 PROVE  ValOf(v, b, S \union {r}, en, o, p)
                          = ValOf(v, b, S, ApplyEntry(x, en), o, p)
      OBVIOUS
    <3>1. r \notin S /\ r \in Slots /\ \A s \in S : Dist(b, s) < Dist(b, r)
      BY <1>1
    <3> QED BY <1>2, <1>3, <3>1, PeelVal
  <2>2. OrderOf(v, S \union {r}, ar, o) = OrderOf(v, S, ApplyOrder(x, ar), o)
    BY <1>1, <1>2, <1>3, PeelOrder
  <2>3. Rec(v, b, S \union {r}, en, ar, om, o)
          = Rec(v, b, S, ApplyEntry(x, en), ApplyOrder(x, ar), ApplyObj(x, om), o)
    BY <1>1, <1>2, Peel
  <2> QED BY <2>1, <2>2, <2>3
<1> DEFINE en2 == ApplyEntry(x, en)
           ar2 == ApplyOrder(x, ar)
           om2 == ApplyObj(x, om)
<1> HIDE DEF en2, ar2, om2
<1>5. /\ \A p : ValOf(v, b, S, en2, o, p) = ValOf(ring, b, S, en2, o, p)
      /\ OrderOf(v, S, ar2, o) = OrderOf(ring, S, ar2, o)
      /\ Rec(v, b, S, en2, ar2, om2, o) = Rec(ring, b, S, en2, ar2, om2, o)
  BY <1>1, <1>2, RecRing
<1> QED BY <1>1, <1>4, <1>5 DEF S, en2, ar2, om2

\* Lemma: a record made for a change that it undoes keeps what is brought back.
LEMMA RecoAtGrow ==
  ASSUME NEW ring, NEW f, NEW e, NEW v, NEW g, NEW e2, NEW c, NEW r,
         GrowsAt(ring, f, e, v, g, e2, c.first, r), v[r] \in UndoRecord,
         NEW en, NEW ar, NEW om, Heap(en, ar, om),
         RecoAt(ring, f, e, c, ApplyEntry(v[r], en), ApplyOrder(v[r], ar), ApplyObj(v[r], om)),
         Applicable(v[r], en[v[r].obj][v[r].prop].val, ar[v[r].obj])
  PROVE  RecoAt(v, g, e2, c, en, ar, om)
<1> DEFINE a == c.first
           x == v[r]
           S == Past(f, e, a)
           T == Past(g, e2, a)
<1>1. T = S \union {r} /\ a \in S \union {a}
  BY DEF GrowsAt
<1>2. ASSUME NEW o \in Objects
      PROVE  /\ c.image[o] # NoObject => Rec(v, a, T, en, ar, om, o) = c.image[o]
             /\ \A p \in Props : ValOf(v, a, T, en, o, p) # EmptyMod
  <2>1. /\ \A p \in Props : ValOf(v, a, T, en, o, p)
                               = ValOf(ring, a, S, ApplyEntry(x, en), o, p)
        /\ Rec(v, a, T, en, ar, om, o)
             = Rec(ring, a, S, ApplyEntry(x, en), ApplyOrder(x, ar), ApplyObj(x, om), o)
    BY <1>1, GrowEqual
  <2>2. /\ c.image[o] # NoObject =>
             Rec(ring, a, S, ApplyEntry(x, en), ApplyOrder(x, ar), ApplyObj(x, om), o)
               = c.image[o]
        /\ \A p \in Props : ValOf(ring, a, S, ApplyEntry(x, en), o, p) # EmptyMod
    BY DEF RecoAt
  <2> HIDE DEF a, x, S, T
  <2> QED BY <2>1, <2>2
<1>3. ASSUME NEW s \in T
      PROVE  Applicable(v[s], ValOf(v, s, Past(g, e2, s), en, v[s].obj, v[s].prop),
                        OrderOf(v, Past(g, e2, s), ar, v[s].obj))
  <2>1. CASE s = r
    <3>1. Past(g, e2, r) = {} /\ x.obj \in Objects
      BY RecordFacts DEF GrowsAt
    <3>2. /\ ValOf(v, r, {}, en, x.obj, x.prop) = en[x.obj][x.prop].val
          /\ OrderOf(v, {}, ar, x.obj) = ar[x.obj]
      <4>1. ar \in [Objects -> Seq(Props)]
        BY DEF Heap
      <4> HIDE DEF x
      <4>2. ValOf(v, r, {}, en, x.obj, x.prop) = en[x.obj][x.prop].val
        BY NothingVal
      <4>3. OrderOf(v, {}, ar, x.obj) = ar[x.obj]
        BY <3>1, <4>1, NothingOrder
      <4> QED BY <4>2, <4>3
    <3> QED BY <2>1, <3>1, <3>2
  <2>2. CASE s # r
    <3>1. s \in S /\ v[s] = ring[s] /\ ring[s] \in UndoRecord
      BY <1>1, <2>2 DEF GrowsAt
    <3> DEFINE o == ring[s].obj
               p == ring[s].prop
    <3>2. o \in Objects /\ (p = InvalidProp \/ p \in Props)
      BY <3>1, RecordFacts
    <3>3. /\ \A q \in Props : ValOf(v, s, Past(g, e2, s), en, o, q)
                                = ValOf(ring, s, Past(f, e, s), ApplyEntry(x, en), o, q)
          /\ OrderOf(v, Past(g, e2, s), ar, o)
               = OrderOf(ring, Past(f, e, s), ApplyOrder(x, ar), o)
      BY <3>1, <3>2, GrowEqual
    <3>4. Applicable(ring[s], ValOf(ring, s, Past(f, e, s), ApplyEntry(x, en), o, p),
                     OrderOf(ring, Past(f, e, s), ApplyOrder(x, ar), o))
      BY <3>1 DEF RecoAt
    <3>5. CASE p = InvalidProp
      BY <3>1, <3>5 DEF Applicable
    <3>6. CASE p \in Props
      <4>1. v[s].obj = o /\ v[s].prop = p
        BY <3>1
      <4> HIDE DEF o, p, x
      <4> QED BY <3>1, <3>3, <3>4, <3>6, <4>1
    <3> QED BY <3>2, <3>5, <3>6
  <2> QED BY <2>1, <2>2
<1> QED BY <1>2, <1>3 DEF RecoAt

\* Lemma: applying the newest record keeps what is brought back, and that
\* record finds what it undoes.
LEMMA RecoAtPeel ==
  ASSUME NEW ring, NEW f, NEW e, NEW v, NEW g, NEW e2, NEW c, NEW r,
         GrowsAt(ring, f, e, v, g, e2, c.first, r), v[r] \in UndoRecord,
         NEW en, NEW ar, NEW om, Heap(en, ar, om), RecoAt(v, g, e2, c, en, ar, om)
  PROVE  /\ RecoAt(ring, f, e, c, ApplyEntry(v[r], en), ApplyOrder(v[r], ar),
                   ApplyObj(v[r], om))
         /\ Applicable(v[r], en[v[r].obj][v[r].prop].val, ar[v[r].obj])
<1> DEFINE a == c.first
           x == v[r]
           S == Past(f, e, a)
           T == Past(g, e2, a)
<1>1. T = S \union {r} /\ a \in S \union {a}
  BY DEF GrowsAt
<1>2. ASSUME NEW o \in Objects
      PROVE  /\ c.image[o] # NoObject =>
                  Rec(ring, a, S, ApplyEntry(x, en), ApplyOrder(x, ar), ApplyObj(x, om), o)
                    = c.image[o]
             /\ \A p \in Props : ValOf(ring, a, S, ApplyEntry(x, en), o, p) # EmptyMod
  <2>1. /\ \A p \in Props : ValOf(v, a, T, en, o, p)
                               = ValOf(ring, a, S, ApplyEntry(x, en), o, p)
        /\ Rec(v, a, T, en, ar, om, o)
             = Rec(ring, a, S, ApplyEntry(x, en), ApplyOrder(x, ar), ApplyObj(x, om), o)
    <3> HIDE DEF a, x, S, T
    <3>1. a \in Past(f, e, a) \union {a} /\ GrowsAt(ring, f, e, v, g, e2, a, r)
      BY DEF a
    <3> QED BY <3>1, GrowEqual DEF x, S, T
  <2>2. /\ c.image[o] # NoObject => Rec(v, a, T, en, ar, om, o) = c.image[o]
        /\ \A p \in Props : ValOf(v, a, T, en, o, p) # EmptyMod
    BY DEF RecoAt
  <2> HIDE DEF a, x, S, T
  <2> QED BY <2>1, <2>2
<1>3. ASSUME NEW s \in S
      PROVE  Applicable(ring[s],
               ValOf(ring, s, Past(f, e, s), ApplyEntry(x, en), ring[s].obj, ring[s].prop),
               OrderOf(ring, Past(f, e, s), ApplyOrder(x, ar), ring[s].obj))
  <2>1. v[s] = ring[s] /\ ring[s] \in UndoRecord /\ s \in T
    BY <1>1 DEF GrowsAt
  <2> DEFINE o == ring[s].obj
             p == ring[s].prop
  <2>2. o \in Objects /\ (p = InvalidProp \/ p \in Props)
    BY <2>1, RecordFacts
  <2>3. /\ \A q \in Props : ValOf(v, s, Past(g, e2, s), en, o, q)
                              = ValOf(ring, s, Past(f, e, s), ApplyEntry(x, en), o, q)
        /\ OrderOf(v, Past(g, e2, s), ar, o)
             = OrderOf(ring, Past(f, e, s), ApplyOrder(x, ar), o)
    BY <2>2, GrowEqual
  <2>4. Applicable(ring[s], ValOf(v, s, Past(g, e2, s), en, o, p),
                   OrderOf(v, Past(g, e2, s), ar, o))
    BY <2>1 DEF RecoAt
  <2>5. CASE p = InvalidProp
    BY <2>5 DEF Applicable
  <2>6. CASE p \in Props
    BY <2>3, <2>4, <2>6
  <2> QED BY <2>2, <2>5, <2>6
<1>4. Applicable(x, en[x.obj][x.prop].val, ar[x.obj])
  <2>1. Past(g, e2, r) = {} /\ x.obj \in Objects /\ r \in T
    BY <1>1, RecordFacts DEF GrowsAt
  <2>2. /\ ValOf(v, r, {}, en, x.obj, x.prop) = en[x.obj][x.prop].val
        /\ OrderOf(v, {}, ar, x.obj) = ar[x.obj]
    <3>1. ar \in [Objects -> Seq(Props)]
      BY DEF Heap
    <3> HIDE DEF x
    <3>2. ValOf(v, r, {}, en, x.obj, x.prop) = en[x.obj][x.prop].val
      BY NothingVal
    <3>3. OrderOf(v, {}, ar, x.obj) = ar[x.obj]
      BY <2>1, <3>1, NothingOrder
    <3> QED BY <3>2, <3>3
  <2>3. Applicable(x, ValOf(v, r, Past(g, e2, r), en, x.obj, x.prop),
                   OrderOf(v, Past(g, e2, r), ar, x.obj))
    BY <2>1 DEF RecoAt
  <2> HIDE DEF x
  <2> QED BY <2>1, <2>2, <2>3
<1> QED BY <1>2, <1>3, <1>4 DEF RecoAt

\* Seen from slot a, the records after it are the same in both rings.
KeepsAt(ring, f, e, v, g, e2, a) ==
  /\ a \in Slots
  /\ \A b \in Past(f, e, a) \union {a} :
       Past(g, e2, b) = Past(f, e, b) /\ Past(f, e, b) \subseteq Past(f, e, a)
  /\ \A s \in Past(f, e, a) : v[s] = ring[s] /\ ring[s] \in UndoRecord

\* Lemma: what happens to other records, and to undo flags, does not matter.
LEMMA RecoAtKeeps ==
  ASSUME NEW ring, NEW f, NEW e, NEW v, NEW g, NEW e2, NEW c,
         KeepsAt(ring, f, e, v, g, e2, c.first),
         NEW en, NEW new, NEW ar, NEW om, SameValues(en, new),
         RecoAt(ring, f, e, c, en, ar, om)
  PROVE  RecoAt(v, g, e2, c, new, ar, om)
<1> DEFINE a == c.first
           S == Past(f, e, a)
<1>1. Past(g, e2, a) = S /\ a \in Slots /\ S \in SUBSET Slots /\ \A s \in S : v[s] = ring[s]
  BY DEF KeepsAt, Past
<1>2. ASSUME NEW o \in Objects
      PROVE  /\ c.image[o] # NoObject => Rec(v, a, S, new, ar, om, o) = c.image[o]
             /\ \A p \in Props : ValOf(v, a, S, new, o, p) # EmptyMod
  <2>1. /\ c.image[o] # NoObject => Rec(ring, a, S, en, ar, om, o) = c.image[o]
        /\ \A p \in Props : ValOf(ring, a, S, en, o, p) # EmptyMod
    BY DEF RecoAt
  <2> HIDE DEF a, S
  <2>2. /\ \A p : ValOf(v, a, S, new, o, p) = ValOf(ring, a, S, new, o, p)
        /\ Rec(v, a, S, new, ar, om, o) = Rec(ring, a, S, new, ar, om, o)
    BY <1>1, RecRing
  <2>3. /\ \A p \in Props : ValOf(ring, a, S, en, o, p) = ValOf(ring, a, S, new, o, p)
        /\ Rec(ring, a, S, en, ar, om, o) = Rec(ring, a, S, new, ar, om, o)
    BY RecSame
  <2> QED BY <2>1, <2>2, <2>3
<1>3. ASSUME NEW s \in S
      PROVE  Applicable(v[s], ValOf(v, s, Past(g, e2, s), new, v[s].obj, v[s].prop),
                        OrderOf(v, Past(g, e2, s), ar, v[s].obj))
  <2> DEFINE o == ring[s].obj
             p == ring[s].prop
             T == Past(f, e, s)
  <2>1. v[s] = ring[s] /\ ring[s] \in UndoRecord /\ Past(g, e2, s) = T
        /\ \A t \in T : v[t] = ring[t]
    BY DEF KeepsAt
  <2>2. o \in Objects /\ (p = InvalidProp \/ p \in Props)
    BY <2>1, RecordFacts
  <2>3. Applicable(ring[s], ValOf(ring, s, T, en, o, p), OrderOf(ring, T, ar, o))
    BY DEF RecoAt
  <2>4. s \in Slots /\ T \in SUBSET Slots
    BY DEF Past
  <2> HIDE DEF T, S
  <2>5. /\ \A q : ValOf(v, s, T, new, o, q) = ValOf(ring, s, T, new, o, q)
        /\ OrderOf(v, T, ar, o) = OrderOf(ring, T, ar, o)
    BY <2>1, <2>4, RecRing
  <2>6. \A q \in Props : ValOf(ring, s, T, en, o, q) = ValOf(ring, s, T, new, o, q)
    BY <2>2, RecSame
  <2>7. CASE p = InvalidProp
    BY <2>1, <2>7 DEF Applicable
  <2>8. CASE p \in Props
    <3>1. v[s].obj = o /\ v[s].prop = p
      BY <2>1
    <3> HIDE DEF o, p
    <3> QED BY <2>1, <2>3, <2>5, <2>6, <2>8, <3>1
  <2> QED BY <2>2, <2>7, <2>8
<1> QED BY <1>1, <1>2, <1>3 DEF RecoAt

\* A heap in which object q only has changed.
OnlyObject(q, en, ar, om, new, arn, omn) ==
  /\ \A o \in Objects \ {q} : new[o] = en[o] /\ arn[o] = ar[o] /\ (o \in omn <=> o \in om)
  /\ \A p \in Props : new[q][p].val # EmptyMod

\* Entries of which the one of property r of object q has a new value.
OnlyValue(q, r, en, new) ==
  /\ new[q][r].val # Absent /\ new[q][r].mod = en[q][r].mod
  /\ \A o \in Objects, p \in Props : ~(o = q /\ p = r) => new[o][p] = en[o][p]

\* Lemma: nor what happens to an object without records and without a promise.
LEMMA RecoAtOther ==
  ASSUME NEW ring, NEW f, NEW e, NEW c, NEW q \in Objects,
         KeepsAt(ring, f, e, ring, f, e, c.first),
         c.image[q] = NoObject, \A s \in Past(f, e, c.first) : ring[s].obj # q,
         NEW en, NEW ar, NEW om, RecoAt(ring, f, e, c, en, ar, om),
         NEW new, NEW arn, NEW omn, OnlyObject(q, en, ar, om, new, arn, omn)
  PROVE  RecoAt(ring, f, e, c, new, arn, omn)
<1> USE DEF OnlyObject
<1> DEFINE a == c.first
           S == Past(f, e, a)
<1>1. ASSUME NEW o \in Objects, o # q, NEW b, NEW T
      PROVE  /\ \A p : ValOf(ring, b, T, new, o, p) = ValOf(ring, b, T, en, o, p)
             /\ OrderOf(ring, T, arn, o) = OrderOf(ring, T, ar, o)
             /\ Rec(ring, b, T, new, arn, omn, o) = Rec(ring, b, T, en, ar, om, o)
  <2>1. new[o] = en[o] /\ arn[o] = ar[o] /\ (o \in omn <=> o \in om)
    BY <1>1
  <2>2. \A p : ValOf(ring, b, T, new, o, p) = ValOf(ring, b, T, en, o, p)
    BY <2>1 DEF ValOf
  <2>3. \A p : ModOf(ring, T, new, o, p) = ModOf(ring, T, en, o, p)
    BY <2>1 DEF ModOf
  <2>4. OrderOf(ring, T, arn, o) = OrderOf(ring, T, ar, o)
    BY <2>1 DEF OrderOf
  <2>5. ObjModOf(ring, T, omn, o) = ObjModOf(ring, T, om, o)
    BY <2>1 DEF ObjModOf
  <2> QED BY <2>2, <2>3, <2>4, <2>5 DEF Rec
<1>2. ASSUME NEW o \in Objects
      PROVE  /\ c.image[o] # NoObject => Rec(ring, a, S, new, arn, omn, o) = c.image[o]
             /\ \A p \in Props : ValOf(ring, a, S, new, o, p) # EmptyMod
  <2>1. CASE o = q
    <3>1. \A p : Of(ring, S, q, p) = {}
      BY DEF Of
    <3>2. \A p : ValOf(ring, a, S, new, q, p) = new[q][p].val
      BY <3>1 DEF ValOf
    <3> QED BY <2>1, <3>2
  <2>2. CASE o # q
    <3>1. /\ c.image[o] # NoObject => Rec(ring, a, S, en, ar, om, o) = c.image[o]
          /\ \A p \in Props : ValOf(ring, a, S, en, o, p) # EmptyMod
      BY DEF RecoAt
    <3> HIDE DEF a, S
    <3> QED BY <1>1, <2>2, <3>1
  <2> QED BY <2>1, <2>2
<1>3. ASSUME NEW s \in S
      PROVE  Applicable(ring[s], ValOf(ring, s, Past(f, e, s), new, ring[s].obj, ring[s].prop),
                        OrderOf(ring, Past(f, e, s), arn, ring[s].obj))
  <2> DEFINE o == ring[s].obj
             p == ring[s].prop
             T == Past(f, e, s)
  <2>1. o \in Objects /\ o # q
    BY RecordFacts DEF KeepsAt
  <2>2. Applicable(ring[s], ValOf(ring, s, T, en, o, p), OrderOf(ring, T, ar, o))
    BY DEF RecoAt
  <2> HIDE DEF o, p, T
  <2>3. ValOf(ring, s, T, new, o, p) = ValOf(ring, s, T, en, o, p)
        /\ OrderOf(ring, T, arn, o) = OrderOf(ring, T, ar, o)
    BY <1>1, <2>1
  <2> QED BY <2>2, <2>3 DEF o, p, T
<1> QED BY <1>2, <1>3 DEF RecoAt

\* Lemma: nor a new value of an entry that has a record.
LEMMA RecoAtFlagged ==
  ASSUME NEW ring, NEW f, NEW e, NEW c, NEW q \in Objects, NEW r \in Props,
         KeepsAt(ring, f, e, ring, f, e, c.first),
         Of(ring, Past(f, e, c.first), q, r) # {},
         NEW en, NEW ar, NEW om, RecoAt(ring, f, e, c, en, ar, om),
         NEW new, OnlyValue(q, r, en, new)
  PROVE  RecoAt(ring, f, e, c, new, ar, om)
<1> USE DEF OnlyValue
<1> DEFINE a == c.first
           S == Past(f, e, a)
<1>1. ASSUME NEW o \in Objects, NEW p \in Props, NEW b, NEW T,
             ~(o = q /\ p = r) \/ Of(ring, T, q, r) # {}
      PROVE  ValOf(ring, b, T, new, o, p) = ValOf(ring, b, T, en, o, p)
  BY <1>1 DEF ValOf
<1>2. ASSUME NEW o \in Objects, NEW p \in Props, NEW T
      PROVE  ModOf(ring, T, new, o, p) = ModOf(ring, T, en, o, p)
  <2>1. new[o][p].mod = en[o][p].mod
    OBVIOUS
  <2> QED BY <2>1 DEF ModOf
<1>3. ASSUME NEW o \in Objects
      PROVE  /\ c.image[o] # NoObject => Rec(ring, a, S, new, ar, om, o) = c.image[o]
             /\ \A p \in Props : ValOf(ring, a, S, new, o, p) # EmptyMod
  <2>1. /\ c.image[o] # NoObject => Rec(ring, a, S, en, ar, om, o) = c.image[o]
        /\ \A p \in Props : ValOf(ring, a, S, en, o, p) # EmptyMod
    BY DEF RecoAt
  <2>2. Of(ring, S, q, r) # {}
    OBVIOUS
  <2> HIDE DEF a, S
  <2>3. \A p \in Props : /\ ValOf(ring, a, S, new, o, p) = ValOf(ring, a, S, en, o, p)
                         /\ ModOf(ring, S, new, o, p) = ModOf(ring, S, en, o, p)
    BY <1>1, <1>2, <2>2
  <2>4. Rec(ring, a, S, new, ar, om, o) = Rec(ring, a, S, en, ar, om, o)
    BY <2>3 DEF Rec
  <2> QED BY <2>1, <2>3, <2>4
<1>4. ASSUME NEW s \in S
      PROVE  Applicable(ring[s], ValOf(ring, s, Past(f, e, s), new, ring[s].obj, ring[s].prop),
                        OrderOf(ring, Past(f, e, s), ar, ring[s].obj))
  <2> DEFINE o == ring[s].obj
             p == ring[s].prop
             T == Past(f, e, s)
  <2>1. o \in Objects /\ (p = InvalidProp \/ p \in Props)
    BY RecordFacts DEF KeepsAt
  <2>2. Applicable(ring[s], ValOf(ring, s, T, en, o, p), OrderOf(ring, T, ar, o))
    BY DEF RecoAt
  <2>3. p = ring[s].prop
    OBVIOUS
  <2> HIDE DEF o, p, T
  <2>4. CASE p = InvalidProp
    BY <2>3, <2>4 DEF Applicable, p
  <2>5. CASE p \in Props /\ (~(o = q /\ p = r) \/ Of(ring, T, q, r) # {})
    <3>1. ValOf(ring, s, T, new, o, p) = ValOf(ring, s, T, en, o, p)
      BY <1>1, <2>1, <2>5
    <3> QED BY <2>2, <3>1 DEF o, p, T
  <2>6. CASE o = q /\ p = r /\ Of(ring, T, q, r) = {}
    <3>1. ValOf(ring, s, T, new, o, p) = new[q][r].val
      BY <2>6 DEF ValOf
    <3> QED BY <2>2, <3>1 DEF Applicable, o, p, T
  <2> QED BY <2>1, <2>4, <2>5, <2>6
<1> QED BY <1>3, <1>4 DEF RecoAt

-----------------------------------------------------------------------------
\* Lemma: one slot more at the end, with a link.
LEMMA PastIncLink ==
  ASSUME NEW f, NEW t \in Slots, NEW b \in Slots, b # t, IsLink(f, t)
  PROVE  Past(f, inc_rec_ptr(t), b) = Past(f, t, b)
<1>1. /\ Span(b, inc_rec_ptr(t)) = Dist(b, t) + 1 /\ Span(b, t) = Dist(b, t)
      /\ Dist(b, t) \in Int
  BY DistType, IncFacts DEF Span
<1>2. \A s \in Slots : Dist(b, s) \in Int /\ (Dist(b, s) = Dist(b, t) => s = t)
  BY DistType, DistInjective
<1>3. \A s \in Slots : s \in Past(f, inc_rec_ptr(t), b) <=> s \in Past(f, t, b)
  BY <1>1, <1>2 DEF Past
<1>4. Past(f, inc_rec_ptr(t), b) \subseteq Slots /\ Past(f, t, b) \subseteq Slots
  BY DEF Past
<1> QED BY <1>3, <1>4

\* Lemma: an operation that keeps the records after slot a, and their links.
LEMMA KeptKeeps ==
  ASSUME NEW u, NEW f, NEW v, NEW g, NEW r, Kept(u, f, v, g, r), Records(u, f),
         NEW e \in Slots, NEW a \in Slots,
         \A s \in Slots : Dist(a, s) \in 1 .. (Span(a, e) - 1) =>
           InUse(v, s) /\ s # r /\ (IsLink(g, s) => IsLink(f, s))
  PROVE  KeepsAt(u.ring, f, e, v.ring, g, e, a)
<1>1. ASSUME NEW s \in Slots, Dist(a, s) \in 1 .. (Span(a, e) - 1)
      PROVE  /\ IsLink(g, s) <=> IsLink(f, s)
             /\ ~IsLink(f, s) => v.ring[s] = u.ring[s] /\ u.ring[s] \in UndoRecord
  BY <1>1 DEF Kept, Records
<1>2. \A s \in Past(f, e, a) : v.ring[s] = u.ring[s] /\ u.ring[s] \in UndoRecord
  BY <1>1 DEF Past
<1>3. \A b \in Past(f, e, a) \union {a} : b \in Slots /\ Dist(a, b) < Span(a, e)
  <2>1. Dist(a, a) = 0 /\ Span(a, e) \in 1 .. RingSize /\ Span(a, e) \in Int
    BY DistType
  <2>2. 0 < Span(a, e)
    BY <2>1, RingAssumption
  <2>3. \A b \in Past(f, e, a) : b \in Slots /\ Dist(a, b) < Span(a, e)
    BY <2>1 DEF Past
  <2> QED BY <2>1, <2>2, <2>3
<1>4. ASSUME NEW b \in Past(f, e, a) \union {a}
      PROVE  Past(g, e, b) = Past(f, e, b) /\ Past(f, e, b) \subseteq Past(f, e, a)
  <2>1. b \in Slots /\ Dist(a, b) < Span(a, e)
    BY <1>3
  <2>2. Past(f, e, b) \subseteq Past(f, e, a)
    BY <2>1, PastSubset
  <2>3. ASSUME NEW s \in Slots, Dist(b, s) \in 1 .. (Span(b, e) - 1)
        PROVE  IsLink(g, s) <=> IsLink(f, s)
    <3>1. Dist(b, s) < Span(b, e) /\ 0 < Dist(b, s) /\ Dist(b, s) \in Int /\ Span(b, e) \in Int
      BY <2>1, <2>3, DistType
    <3>2. Dist(a, s) < Span(a, e) /\ Dist(a, s) = Dist(a, b) + Dist(b, s)
      BY <2>1, <3>1, PastTrans
    <3>3. Dist(a, b) \in 0 .. (RingSize - 1) /\ Span(a, e) \in Int /\ Dist(a, s) \in Int
      BY <2>1, DistType
    <3>4. Dist(a, s) \in 1 .. (Span(a, e) - 1)
      BY <3>1, <3>2, <3>3
    <3> QED BY <1>1, <3>4
  <2>4. Past(g, e, b) = Past(f, e, b)
    BY <2>3 DEF Past
  <2> QED BY <2>2, <2>4
<1> QED BY <1>2, <1>4 DEF KeepsAt

\* e is where the records of ring u end that are still to be applied.
EndOK(u, e) ==
  /\ e \in Slots
  /\ Dist(u.cur_first, dec_rec_ptr(e)) < Span(u.cur_first, u.next_free)

\* Lemma: where the links are, seen from one another.
LEMMA LinkFacts ==
  ASSUME NEW C, NEW u, NEW f, Linked(C, u, f), NEW i \in 1 .. Len(f)
  PROVE  /\ f[i] \in Slots /\ u.cur_first \in Slots /\ u.oldest_first \in Slots
         /\ u.next_free \in Slots /\ Len(f) \in Nat /\ u.savept_cnt > 0
         /\ u.cur_first = f[Len(f)] /\ IsLink(f, f[i])
         /\ Dist(u.oldest_first, f[i]) < Span(u.oldest_first, u.next_free)
         /\ Dist(f[i], u.cur_first) < Span(f[i], u.next_free)
<1> DEFINE n == Len(f)
           o == f[1]
           c == f[n]
           a == f[i]
           e == u.next_free
<1>1. /\ f \in Seq(Slots) /\ n \in Nat /\ n = u.savept_cnt /\ e \in Slots
      /\ 1 \in 1 .. n /\ n \in 1 .. n /\ f # << >>
  BY DEF Linked, RingOK, Manager
<1>2. /\ o \in Slots /\ c \in Slots /\ a \in Slots /\ u.oldest_first = o /\ u.cur_first = c
      /\ InUse(u, a) /\ InUse(u, c)
  BY <1>1 DEF Linked, RingOK
<1>3. Dist(o, a) < Span(o, e) /\ Dist(o, c) < Span(o, e)
  BY <1>2 DEF InUse
<1>4. Dist(o, a) <= Dist(o, c)
  <2>1. CASE i = n
    BY <1>2, <2>1, DistType
  <2>2. CASE i # n
    <3>1. i < n /\ n \in 1 .. Len(f)
      BY <1>1, <2>2
    <3>2. Dist(o, a) < Dist(o, c)
      BY <3>1 DEF Linked, RingOK
    <3>3. Dist(o, a) \in Int /\ Dist(o, c) \in Int
      BY <1>2, DistType
    <3> QED BY <3>2, <3>3
  <2> QED BY <2>1, <2>2
<1>5. Dist(a, c) < Span(a, e)
  <2>1. CASE o = a
    BY <1>3, <2>1
  <2>2. CASE o # a
    <3> HIDE DEF o, c, a, e
    <3> QED BY <1>1, <1>2, <1>3, <1>4, <2>2, InUseAfterDrop
  <2> QED BY <2>1, <2>2
<1>6. IsLink(f, a)
  BY DEF IsLink
<1> QED BY <1>1, <1>2, <1>3, <1>5, <1>6

\* Lemma: the slots between a link and the end are in use.
LEMMA SegmentInUse ==
  ASSUME NEW C, NEW u, NEW f, Linked(C, u, f), NEW i \in 1 .. Len(f), NEW e, EndOK(u, e),
         NEW s \in Slots, Dist(f[i], s) \in 1 .. (Span(f[i], e) - 1)
  PROVE  InUse(u, s)
<1> DEFINE o == u.oldest_first
           c == u.cur_first
           a == f[i]
           t == dec_rec_ptr(e)
           z == u.next_free
<1>1. /\ a \in Slots /\ c \in Slots /\ o \in Slots /\ z \in Slots /\ u.savept_cnt > 0
      /\ Dist(o, a) < Span(o, z) /\ Dist(a, c) < Span(a, z)
  BY LinkFacts
<1>2. e \in Slots /\ t \in Slots /\ Dist(c, t) < Span(c, z) /\ Span(a, e) = Dist(a, t) + 1
  <2>1. e \in Slots /\ t \in Slots /\ Dist(c, t) < Span(c, z) /\ inc_rec_ptr(t) = e
    BY IncFacts DEF EndOK
  <2> HIDE DEF t, a
  <2>2. Span(a, inc_rec_ptr(t)) = Dist(a, t) + 1
    BY <1>1, <2>1, IncFacts
  <2> QED BY <2>1, <2>2
<1> HIDE DEF o, c, t, z
<1>3. Dist(a, t) < Span(a, z)
  BY <1>1, <1>2, PastTrans
<1>4. Dist(a, s) < Span(a, z)
  <2>1. Dist(a, s) \in Int /\ Dist(a, t) \in Int /\ Span(a, z) \in Int
    BY <1>1, <1>2, DistType
  <2> QED BY <1>2, <1>3, <2>1
<1> HIDE DEF a
<1>5. Dist(o, s) < Span(o, z)
  BY <1>1, <1>4, PastTrans
<1> QED BY <1>1, <1>5 DEF InUse, o, z

\* Lemma: seen from a link, a ring is like itself; so all lies in order.
LEMMA SelfKeeps ==
  ASSUME NEW u, NEW f, RingInv(u, f), NEW i \in 1 .. Len(f), NEW e, EndOK(u, e)
  PROVE  KeepsAt(u.ring, f, e, u.ring, f, e, f[i])
<1>1. Linked(Cell, u, f) /\ Records(u, f) /\ e \in Slots
  BY DEF RingInv, EndOK
<1>2. f[i] \in Slots
  BY <1>1, LinkFacts
<1>3. Kept(u, f, u, f, Null)
  BY DEF Kept
<1>4. \A s \in Slots : Dist(f[i], s) \in 1 .. (Span(f[i], e) - 1) =>
        InUse(u, s) /\ s # Null /\ (IsLink(f, s) => IsLink(f, s))
  BY <1>1, SegmentInUse, NullNotSlot
<1> QED BY <1>1, <1>2, <1>3, <1>4, KeptKeeps

\* Lemma: the end of the records made is an end.
LEMMA FreeEnd ==
  ASSUME NEW C, NEW u, NEW f, Linked(C, u, f), u.savept_cnt > 0
  PROVE  EndOK(u, u.next_free)
<1>1. Len(f) \in 1 .. Len(f)
  BY DEF Linked, RingOK
<1>2. u.cur_first \in Slots /\ u.next_free \in Slots
  BY <1>1, LinkFacts
<1>3. /\ Dist(u.cur_first, dec_rec_ptr(u.next_free)) = Span(u.cur_first, u.next_free) - 1
      /\ Span(u.cur_first, u.next_free) \in Int
  BY <1>2, IncFacts, DistType
<1> QED BY <1>2, <1>3 DEF EndOK

\* Lemma: the loop of undo_to_savept takes one record off the end.
LEMMA DecGrows ==
  ASSUME NEW u, NEW f, RingInv(u, f), NEW i \in 1 .. Len(f), NEW e, EndOK(u, e),
         dec_rec_ptr(e) # u.cur_first
  PROVE  LET t == dec_rec_ptr(e)
         IN  /\ GrowsAt(u.ring, f, t, u.ring, f, e, f[i], t)
             /\ u.ring[t] \in UndoRecord /\ t \in Past(f, e, f[i])
<1> DEFINE t == dec_rec_ptr(e)
           a == f[i]
<1>1. Linked(Cell, u, f) /\ e \in Slots /\ t \in Slots /\ inc_rec_ptr(t) = e
  BY IncFacts DEF RingInv, EndOK
<1>2. a \in Slots /\ u.savept_cnt > 0 /\ IsLink(f, a)
  BY <1>1, LinkFacts
<1>3. ~IsLink(f, t)
  BY <1>1, <1>2, CurrentSegment DEF EndOK
<1>4. KeepsAt(u.ring, f, e, u.ring, f, e, a)
  BY SelfKeeps
<1> HIDE DEF t, a
<1>5. a # t
  BY <1>2, <1>3
<1>6. Past(f, e, a) = Past(f, t, a) \union {t}
  BY <1>1, <1>2, <1>3, <1>5, PastInc
<1>7. Past(f, e, t) = {}
  BY <1>1, PastLast
<1>8. \A s \in Past(f, e, a) : u.ring[s] \in UndoRecord
  BY <1>4 DEF KeepsAt
<1>9. ASSUME NEW b \in Past(f, t, a) \union {a}
      PROVE  /\ Past(f, e, b) = Past(f, t, b) \union {t} /\ t \notin Past(f, t, b)
             /\ Past(f, t, b) \subseteq Past(f, t, a)
             /\ \A s \in Past(f, t, b) : Dist(b, s) < Dist(b, t)
  <2>1. b \in Slots /\ b # t
    <3>1. t \notin Past(f, t, a)
      BY <1>1, <1>2, <1>3, <1>5, PastInc
    <3> QED BY <1>2, <1>5, <3>1 DEF Past
  <2>2. Past(f, t, b) \subseteq Past(f, t, a)
    <3>1. Dist(a, b) < Span(a, t)
      <4>1. Dist(a, a) = 0 /\ Span(a, t) \in 1 .. RingSize /\ Span(a, t) \in Int
        BY <1>1, <1>2, DistType
      <4>2. b \in Past(f, t, a) => Dist(a, b) < Span(a, t)
        BY <4>1 DEF Past
      <4>3. 0 < Span(a, t)
        BY <4>1
      <4> QED BY <4>1, <4>2, <4>3
    <3> QED BY <1>1, <1>2, <2>1, <3>1, PastSubset
  <2> QED BY <1>1, <1>3, <2>1, <2>2, PastInc
<1>10. GrowsAt(u.ring, f, t, u.ring, f, e, a, t)
  BY <1>1, <1>2, <1>6, <1>7, <1>8, <1>9 DEF GrowsAt
<1> QED BY <1>6, <1>8, <1>10 DEF t, a

-----------------------------------------------------------------------------
\* Lemma: alloc_rec takes the slot at next_free, whatever it drops.
LEMMA AllocSlot ==
  ASSUME NEW C, NEW u, NEW f, Linked(C, u, f), LET a == alloc_rec(u) IN a.rec # Null
  PROVE  LET a == alloc_rec(u)
         IN  a.rec = u.next_free /\ a.undo.next_free = inc_rec_ptr(u.next_free)
<1> DEFINE d == drop_oldest_savept(u)
<1>1. d.next_free = u.next_free
  BY DEF drop_oldest_savept, DropSegment
<1> HIDE DEF d
<1>2. Take(d).rec = u.next_free /\ Take(d).undo.next_free = inc_rec_ptr(u.next_free)
  BY <1>1 DEF Take
<1>3. Take(u).rec = u.next_free /\ Take(u).undo.next_free = inc_rec_ptr(u.next_free)
  BY DEF Take
<1>4. CASE HasRoom(u)
  BY <1>3, <1>4 DEF alloc_rec
<1>5. CASE ~HasRoom(u) /\ u.savept_cnt > 1
  BY <1>2, <1>5 DEF alloc_rec, d
<1>6. CASE ~HasRoom(u) /\ ~(u.savept_cnt > 1)
  BY <1>6 DEF alloc_rec
<1> QED BY <1>4, <1>5, <1>6

\* add_new_record for an object that takes part, while there is a savepoint.
AddRecord(u, x) ==
  LET a == alloc_rec(u) IN IF a.rec = Null THEN a.undo ELSE Store(a.undo, a.rec, x)

\* Lemma: storing a record, for a ring of VmUndo.
LEMMA StoreCell ==
  ASSUME NEW t, NEW g, NEW r, NEW x \in UndoRecord, Linked(Cell, t, g), Fresh(t, g, r),
         g # << >>
  PROVE  Kept(t, g, Store(t, r, x), g, r) /\ Store(t, r, x).ring[r] = x
<1>1. x \in Cell
  BY CellFacts
<1>2. t.ring \in [Slots -> Cell] /\ r \in Slots
  BY DEF Linked, Manager, Fresh
<1>3. Store(t, r, x).ring[r] = x
  BY <1>2 DEF Store
<1>4. Kept(t, g, Store(t, r, x), g, r)
  BY <1>1, StoreLinked, Zenon
<1> QED BY <1>3, <1>4

\* Lemma: where add_new_record puts the record, if savepoints remain.
LEMMA AddShape ==
  ASSUME NEW u, NEW f, RingInv(u, f), u.savept_cnt > 0, NEW x \in UndoRecord,
         NEW v, v = AddRecord(u, x), v.savept_cnt > 0,
         NEW g, g = Newest(f, v.savept_cnt)
  PROVE  /\ Kept(u, f, v, g, u.next_free) /\ ~IsLink(g, u.next_free)
         /\ v.next_free = inc_rec_ptr(u.next_free) /\ v.ring[u.next_free] = x
<1>1. PICK a : a = alloc_rec(u)
  OBVIOUS
<1>2. PICK t : t = a.undo
  OBVIOUS
<1>3. PICK r : r = a.rec
  OBVIOUS
<1>4. PICK h : h = Newest(f, t.savept_cnt)
  OBVIOUS
<1>5. Linked(Cell, u, f) /\ u.savept_cnt > 0
  BY DEF RingInv
<1>6. /\ Linked(Cell, t, h)
      /\ r = Null => t.savept_cnt = 0
      /\ r # Null => Fresh(t, h, r)
      /\ r # Null => t.savept_cnt > 0
      /\ Kept(u, f, t, h, r)
  BY <1>1, <1>2, <1>3, <1>4, <1>5, CellFacts, AllocLinked DEF Shrunk
<1>7. r # Null
  <2> SUFFICES ASSUME r = Null PROVE FALSE
    OBVIOUS
  <2>1. v = t
    BY <1>1, <1>2, <1>3 DEF AddRecord
  <2> QED BY <1>6, <2>1
<1>8. v = Store(t, r, x)
  BY <1>1, <1>2, <1>3, <1>7 DEF AddRecord
<1>9. r = u.next_free /\ t.next_free = inc_rec_ptr(u.next_free)
  <2>1. alloc_rec(u).rec # Null
    BY <1>1, <1>3, <1>7
  <2> QED BY <1>1, <1>2, <1>3, <1>5, <2>1, AllocSlot
<1>10. v.next_free = t.next_free /\ v.savept_cnt = t.savept_cnt
  BY <1>8 DEF Store
<1>11. g = h
  BY <1>4, <1>10
<1>12. h # << >>
  BY <1>6, <1>7 DEF Linked, RingOK
<1>13. Kept(t, h, v, h, r) /\ v.ring[r] = x
  BY <1>6, <1>7, <1>8, <1>12, StoreCell
<1>14. Kept(u, f, v, h, r)
  BY <1>6, <1>13 DEF Kept
<1>15. ~IsLink(h, r)
  BY <1>6, <1>7, FreshNotLink DEF IsLink
<1> QED BY <1>9, <1>10, <1>11, <1>13, <1>14, <1>15

\* Lemma: the links that remain are links.
LEMMA NewestLink ==
  ASSUME NEW S, NEW f \in Seq(S), NEW n \in 0 .. Len(f), NEW s, IsLink(Newest(f, n), s)
  PROVE  IsLink(f, s)
<1> DEFINE g == Newest(f, n)
<1>1. Len(g) = n /\ \A i \in 1 .. n : g[i] = f[Len(f) - n + i]
  BY NewestFacts
<1>2. \A i \in 1 .. n : Len(f) - n + i \in 1 .. Len(f)
  OBVIOUS
<1> HIDE DEF g
<1>3. PICK i \in 1 .. n : g[i] = s
  BY <1>1 DEF IsLink, g
<1> QED BY <1>1, <1>2, <1>3 DEF IsLink

\* Lemma: so add_new_record adds one record, as seen from every link that remains.
LEMMA AddGrows ==
  ASSUME NEW u, NEW f, RingInv(u, f), u.savept_cnt > 0, NEW x \in UndoRecord,
         NEW v, v = AddRecord(u, x), v.savept_cnt \in 1 .. Len(f),
         NEW g, g = Newest(f, v.savept_cnt), RingInv(v, g), NEW i \in 1 .. Len(g)
  PROVE  /\ GrowsAt(u.ring, f, u.next_free, v.ring, g, v.next_free, g[i], u.next_free)
         /\ v.ring[u.next_free] = x
<1> DEFINE a == g[i]
           r == u.next_free
<1>1. /\ Kept(u, f, v, g, r) /\ ~IsLink(g, r)
      /\ v.next_free = inc_rec_ptr(r) /\ v.ring[r] = x
  BY AddShape
<1>2. v.savept_cnt \in 0 .. Len(f) /\ RingInv(v, g)
  OBVIOUS
<1>3. r \in Slots /\ f \in Seq(Slots) /\ Records(u, f) /\ Linked(Cell, v, g)
  BY <1>2 DEF RingInv, Linked, Manager
<1>4. a \in Slots /\ IsLink(g, a) /\ v.savept_cnt > 0
  BY <1>3, LinkFacts
<1>5. a # r
  BY <1>1, <1>4
<1>6. EndOK(v, v.next_free)
  BY <1>3, <1>4, FreeEnd
<1> HIDE DEF a, r
<1>7. Span(a, v.next_free) = Dist(a, r) + 1 /\ Span(a, r) = Dist(a, r) /\ Dist(a, r) \in Int
  BY <1>1, <1>3, <1>4, <1>5, IncFacts, DistType DEF Span
<1>8. ASSUME NEW s \in Slots, Dist(a, s) \in 1 .. (Span(a, r) - 1)
      PROVE  InUse(v, s) /\ s # r /\ (IsLink(g, s) => IsLink(f, s))
  <2>1. Dist(a, s) \in 1 .. (Span(a, v.next_free) - 1)
    BY <1>7, <1>8
  <2>2. InUse(v, s)
    BY <1>3, <1>6, <2>1, SegmentInUse DEF a
  <2>3. s # r
    BY <1>7, <1>8
  <2>4. IsLink(g, s) => IsLink(f, s)
    BY <1>2, <1>3, NewestLink
  <2> QED BY <2>2, <2>3, <2>4
<1>9. KeepsAt(u.ring, f, r, v.ring, g, r, a)
  BY <1>1, <1>3, <1>4, <1>8, KeptKeeps
<1>10. Past(g, v.next_free, r) = {}
  BY <1>1, <1>3, PastLast
<1>11. ASSUME NEW b \in Past(f, r, a) \union {a}
       PROVE  /\ Past(g, v.next_free, b) = Past(f, r, b) \union {r} /\ r \notin Past(f, r, b)
              /\ Past(f, r, b) \subseteq Past(f, r, a)
              /\ \A s \in Past(f, r, b) : Dist(b, s) < Dist(b, r)
  <2>1. Past(g, r, b) = Past(f, r, b) /\ Past(f, r, b) \subseteq Past(f, r, a)
        /\ Past(g, r, a) = Past(f, r, a)
    BY <1>9 DEF KeepsAt
  <2>2. b \in Slots /\ b # r /\ r \in Slots /\ ~IsLink(g, r)
    <3>1. r \notin Past(g, r, a)
      BY <1>1, <1>3, <1>4, <1>5, PastInc
    <3> QED BY <1>1, <1>3, <1>4, <1>5, <2>1, <3>1 DEF Past
  <2>3. /\ Past(g, inc_rec_ptr(r), b) = Past(g, r, b) \union {r} /\ r \notin Past(g, r, b)
        /\ \A s \in Past(g, r, b) : Dist(b, s) < Dist(b, r)
    BY <2>2, PastInc
  <2> QED BY <1>1, <2>1, <2>3
<1>12. \A s \in Past(f, r, a) : v.ring[s] = u.ring[s] /\ u.ring[s] \in UndoRecord
  BY <1>9 DEF KeepsAt
<1>13. GrowsAt(u.ring, f, r, v.ring, g, v.next_free, a, r)
  BY <1>3, <1>4, <1>10, <1>11, <1>12 DEF GrowsAt
<1> QED BY <1>1, <1>13 DEF a, r

-----------------------------------------------------------------------------
\* add_new_record for an object that takes part.
AddAny(u, x) == IF u.savept_cnt = 0 THEN u ELSE AddRecord(u, x)

\* Lemma: this is what it does.
LEMMA AddIsRecord ==
  ASSUME NEW u, NEW b, NEW x
  PROVE  /\ b => add_new_record(u, b, x) = AddAny(u, x)
         /\ ~b => add_new_record(u, b, x) = u
  BY DEF add_new_record, AddAny, AddRecord

\* Only objects of own have records, or are promised to come back.
OwnersOf(ring, e, sv, own) ==
  \A i \in 1 .. Len(sv) :
    /\ \A s \in Past(FirstsOf(sv), e, sv[i].first) : ring[s].obj \in own
    /\ \A o \in Objects : sv[i].image[o] # NoObject => o \in own

\* The manager u holds the savepoints sv, and its records bring them back.
Sync(u, sv, own, en, ar, om) ==
  /\ sv \in Seq(SavedType) /\ Len(sv) = u.savept_cnt /\ RingInv(u, FirstsOf(sv))
  /\ Reco(u.ring, u.next_free, sv, en, ar, om)
  /\ OwnersOf(u.ring, u.next_free, sv, own)

\* The newest savepoint has a record about property p of object o.
HasRecord(u, sv, o, p) ==
  sv # << >> =>
    Of(u.ring, Past(FirstsOf(sv), u.next_free, sv[Len(sv)].first), o, p) # {}

\* Lemma: the newest savepoints, one by one.
LEMMA NewestSaved ==
  ASSUME NEW sv \in Seq(SavedType), NEW n \in 0 .. Len(sv), NEW w, w = Newest(sv, n)
  PROVE  /\ w \in Seq(SavedType) /\ Len(w) = n /\ FirstsOf(w) = Newest(FirstsOf(sv), n)
         /\ Len(FirstsOf(w)) = n
         /\ \A i \in 1 .. n : /\ Len(sv) - n + i \in 1 .. Len(sv)
                              /\ w[i] = sv[Len(sv) - n + i] /\ FirstsOf(w)[i] = w[i].first
<1>1. w \in Seq(SavedType) /\ Len(w) = n /\ \A i \in 1 .. n : w[i] = sv[Len(sv) - n + i]
  BY NewestFacts
<1>2. FirstsOf(w) = Newest(FirstsOf(sv), n)
  BY FirstsNewest
<1>3. Len(FirstsOf(w)) = n
  BY <1>1, FirstsType
<1>4. \A i \in 1 .. n : Len(sv) - n + i \in 1 .. Len(sv)
  OBVIOUS
<1>5. \A i \in 1 .. n : FirstsOf(w)[i] = w[i].first
  BY <1>1 DEF FirstsOf
<1> QED BY <1>1, <1>2, <1>3, <1>4, <1>5

\* Lemma: add_new_record, where savepoints remain: for each of them the records
\* grow by the new one.
LEMMA AddGrowsSaved ==
  ASSUME NEW u, NEW sv \in Seq(SavedType), Len(sv) = u.savept_cnt, RingInv(u, FirstsOf(sv)),
         NEW x \in UndoRecord, NEW v, v = AddAny(u, x), NEW w, w = Newest(sv, v.savept_cnt),
         v.savept_cnt > 0
  PROVE  /\ v.savept_cnt \in 1 .. Len(sv) /\ w \in Seq(SavedType) /\ Len(w) = v.savept_cnt
         /\ RingInv(v, FirstsOf(w)) /\ v.ring[u.next_free] = x
         /\ \A i \in 1 .. Len(w) :
              /\ Len(sv) - Len(w) + i \in 1 .. Len(sv)
              /\ w[i] = sv[Len(sv) - Len(w) + i]
              /\ GrowsAt(u.ring, FirstsOf(sv), u.next_free, v.ring, FirstsOf(w), v.next_free,
                         w[i].first, u.next_free)
<1> DEFINE f == FirstsOf(sv)
           g == FirstsOf(w)
<1>0. PICK n : n = v.savept_cnt
  OBVIOUS
<1>1. f \in Seq(Slots) /\ Len(f) = Len(sv) /\ Len(sv) \in Nat
  BY FirstsType
<1>2. u.savept_cnt > 0 /\ v = AddRecord(u, x)
  <2>1. u.savept_cnt # 0
    BY DEF AddAny
  <2> QED BY <1>1, <2>1 DEF AddAny
<1> HIDE DEF f
<1>3. v = add_new_record(u, TRUE, x)
  <2>1. u.savept_cnt # 0
    BY <1>2
  <2> QED BY <1>2, <2>1 DEF add_new_record, AddRecord
<1>4. n \in 0 .. Len(f) /\ RingInv(v, Newest(f, n))
  BY <1>0, <1>3, AddInv DEF f
<1>5. n \in 1 .. Len(sv) /\ n \in 0 .. Len(sv)
  BY <1>0, <1>1, <1>4
<1>6. /\ w \in Seq(SavedType) /\ Len(w) = n /\ g = Newest(f, n) /\ Len(g) = n
      /\ \A i \in 1 .. n : /\ Len(sv) - n + i \in 1 .. Len(sv)
                           /\ w[i] = sv[Len(sv) - n + i] /\ g[i] = w[i].first
  <2>1. w = Newest(sv, n)
    BY <1>0
  <2>2. /\ w \in Seq(SavedType) /\ Len(w) = n /\ FirstsOf(w) = Newest(FirstsOf(sv), n)
        /\ Len(FirstsOf(w)) = n
    BY <1>5, <2>1, NewestSaved
  <2>3. ASSUME NEW i \in 1 .. n
        PROVE  /\ Len(sv) - n + i \in 1 .. Len(sv)
               /\ w[i] = sv[Len(sv) - n + i] /\ FirstsOf(w)[i] = w[i].first
    BY <1>5, <2>1, NewestSaved
  <2> QED BY <2>2, <2>3 DEF f
<1> HIDE DEF g
<1>7. RingInv(v, g)
  BY <1>4, <1>6
<1>8. ASSUME NEW i \in 1 .. Len(w)
      PROVE  /\ GrowsAt(u.ring, f, u.next_free, v.ring, g, v.next_free, g[i], u.next_free)
             /\ v.ring[u.next_free] = x
  <2>1. i \in 1 .. Len(g) /\ RingInv(u, f) /\ g = Newest(f, v.savept_cnt)
        /\ v.savept_cnt \in 1 .. Len(f)
    BY <1>0, <1>1, <1>5, <1>6 DEF f
  <2> QED BY <1>2, <1>7, <2>1, AddGrows
<1>9. 1 \in 1 .. Len(w)
  BY <1>5, <1>6
<1> QED BY <1>0, <1>5, <1>6, <1>7, <1>8, <1>9 DEF f, g

\* Lemma: add_new_record in general: which savepoints remain.
LEMMA AddRemains ==
  ASSUME NEW u, NEW sv \in Seq(SavedType), Len(sv) = u.savept_cnt, RingInv(u, FirstsOf(sv)),
         NEW x \in UndoRecord, NEW v, v = AddAny(u, x), NEW w, w = Newest(sv, v.savept_cnt)
  PROVE  /\ v.savept_cnt \in 0 .. Len(sv) /\ w \in Seq(SavedType) /\ Len(w) = v.savept_cnt
         /\ RingInv(v, FirstsOf(w))
<1>1. PICK n : n = v.savept_cnt
  OBVIOUS
<1>2. PICK f : f = FirstsOf(sv)
  OBVIOUS
<1>3. f \in Seq(Slots) /\ Len(f) = Len(sv)
  BY <1>2, FirstsType
<1>4. v = add_new_record(u, TRUE, x)
  BY AddIsRecord
<1>5. n \in 0 .. Len(f) /\ RingInv(v, Newest(f, n))
  BY <1>1, <1>2, <1>4, AddInv
<1>6. n \in 0 .. Len(sv) /\ w = Newest(sv, n)
  BY <1>1, <1>3, <1>5
<1>7. w \in Seq(SavedType) /\ Len(w) = n /\ FirstsOf(w) = Newest(f, n)
  BY <1>2, <1>6, NewestSaved
<1> QED BY <1>1, <1>5, <1>6, <1>7

\* Record x undoes what led from the heap before to the heap after.
Undoes(x, en, ar, om, en0, ar0, om0) ==
  /\ Heap(en, ar, om)
  /\ en0 = ApplyEntry(x, en) /\ ar0 = ApplyOrder(x, ar) /\ om0 = ApplyObj(x, om)
  /\ Applicable(x, en[x.obj][x.prop].val, ar[x.obj])

\* The savepoints of sv that u still holds.
Left(u, sv) == Newest(sv, u.savept_cnt)

\* The record x is there, and what had a record still has one.
Recorded(u, sv, v, w, x) ==
  /\ HasRecord(v, w, x.obj, x.prop)
  /\ \A o, p : HasRecord(u, sv, o, p) => HasRecord(v, w, o, p)

\* Lemma: with a record for the change it undoes, the savepoints that remain
\* can still be brought back, and what has a record keeps one.
LEMMA SyncAdd ==
  ASSUME NEW u, NEW sv, NEW own, NEW x \in UndoRecord, x.obj \in own,
         NEW en, NEW ar, NEW om, NEW en0, NEW ar0, NEW om0,
         Undoes(x, en, ar, om, en0, ar0, om0), Sync(u, sv, own, en0, ar0, om0),
         NEW v, v = AddAny(u, x), NEW w, w = Left(v, sv)
  PROVE  v.savept_cnt \in 0 .. Len(sv) /\ Sync(v, w, own, en, ar, om) /\ Recorded(u, sv, v, w, x)
<1>0. w = Newest(sv, v.savept_cnt)
  BY DEF Left
<1>1. /\ sv \in Seq(SavedType) /\ Len(sv) = u.savept_cnt /\ RingInv(u, FirstsOf(sv))
      /\ Reco(u.ring, u.next_free, sv, ApplyEntry(x, en), ApplyOrder(x, ar), ApplyObj(x, om))
      /\ OwnersOf(u.ring, u.next_free, sv, own) /\ Heap(en, ar, om)
      /\ Applicable(x, en[x.obj][x.prop].val, ar[x.obj])
  BY DEF Sync, Undoes
<1>2. /\ v.savept_cnt \in 0 .. Len(sv) /\ w \in Seq(SavedType) /\ Len(w) = v.savept_cnt
      /\ RingInv(v, FirstsOf(w)) /\ Len(w) \in Nat
  BY <1>0, <1>1, AddRemains
<1>3. CASE Len(w) = 0
  <2>1. w = << >>
    BY <1>2, <1>3
  <2>2. \A o, p : HasRecord(v, w, o, p)
    BY <2>1 DEF HasRecord
  <2>3. Reco(v.ring, v.next_free, w, en, ar, om) /\ OwnersOf(v.ring, v.next_free, w, own)
    BY <1>3 DEF Reco, OwnersOf
  <2> QED BY <1>2, <2>2, <2>3 DEF Sync, Recorded
<1>4. CASE Len(w) # 0
  <2>1. PICK f : f = FirstsOf(sv)
    OBVIOUS
  <2>2. PICK g : g = FirstsOf(w)
    OBVIOUS
  <2>3. PICK r : r = u.next_free
    OBVIOUS
  <2>4. v.savept_cnt > 0
    BY <1>2, <1>4
  <2>5. v.ring[r] = x /\ \A i \in 1 .. Len(w) :
          /\ Len(sv) - Len(w) + i \in 1 .. Len(sv)
          /\ w[i] = sv[Len(sv) - Len(w) + i]
          /\ GrowsAt(u.ring, f, r, v.ring, g, v.next_free, w[i].first, r)
    <3>1. v.ring[u.next_free] = x
      BY <1>0, <1>1, <2>4, AddGrowsSaved
    <3>2. ASSUME NEW i \in 1 .. Len(w)
          PROVE  /\ Len(sv) - Len(w) + i \in 1 .. Len(sv)
                 /\ w[i] = sv[Len(sv) - Len(w) + i]
      <4>1. PICK n : n = v.savept_cnt
        OBVIOUS
      <4>2. n \in 0 .. Len(sv) /\ w = Newest(sv, n) /\ Len(w) = n
        BY <1>0, <1>2, <4>1
      <4>3. /\ Len(sv) - n + i \in 1 .. Len(sv) /\ w[i] = sv[Len(sv) - n + i]
        BY <1>1, <4>2, NewestSaved
      <4> QED BY <4>2, <4>3
    <3>3. ASSUME NEW i \in 1 .. Len(w)
          PROVE  GrowsAt(u.ring, FirstsOf(sv), u.next_free, v.ring, FirstsOf(w), v.next_free,
                         w[i].first, u.next_free)
      BY <1>0, <1>1, <2>4, AddGrowsSaved
    <3> QED BY <2>1, <2>2, <2>3, <3>1, <3>2, <3>3
  <2>6. ASSUME NEW i \in 1 .. Len(w)
        PROVE  RecoAt(v.ring, g, v.next_free, w[i], en, ar, om)
    <3>1. PICK j \in 1 .. Len(sv) : w[i] = sv[j]
      BY <2>5
    <3>2. PICK c : c = w[i]
      OBVIOUS
    <3>3. PICK ring : ring = v.ring
      OBVIOUS
    <3>4. x = ring[r]
      BY <2>5, <3>3
    <3>5. RecoAt(u.ring, f, r, c, ApplyEntry(x, en), ApplyOrder(x, ar), ApplyObj(x, om))
      BY <1>1, <2>1, <2>3, <3>1, <3>2 DEF Reco
    <3>6. GrowsAt(u.ring, f, r, ring, g, v.next_free, c.first, r)
      BY <2>5, <3>2, <3>3
    <3>7. /\ ring[r] \in UndoRecord
          /\ RecoAt(u.ring, f, r, c, ApplyEntry(ring[r], en), ApplyOrder(ring[r], ar),
                    ApplyObj(ring[r], om))
          /\ Applicable(ring[r], en[ring[r].obj][ring[r].prop].val, ar[ring[r].obj])
      BY <1>1, <3>4, <3>5
    <3>8. RecoAt(ring, g, v.next_free, c, en, ar, om)
      BY <1>1, <3>6, <3>7, RecoAtGrow
    <3> QED BY <3>2, <3>3, <3>8
  <2>7. Reco(v.ring, v.next_free, w, en, ar, om)
    BY <2>2, <2>6 DEF Reco
  <2>8. ASSUME NEW i \in 1 .. Len(w)
        PROVE  /\ \A s \in Past(g, v.next_free, w[i].first) : v.ring[s].obj \in own
               /\ \A o \in Objects : w[i].image[o] # NoObject => o \in own
    <3>1. PICK j \in 1 .. Len(sv) : w[i] = sv[j]
      BY <2>5
    <3>2. PICK a : a = w[i].first
      OBVIOUS
    <3>3. GrowsAt(u.ring, f, r, v.ring, g, v.next_free, a, r)
      BY <2>5, <3>2
    <3>4. Past(g, v.next_free, a) = Past(f, r, a) \union {r}
          /\ \A s \in Past(f, r, a) : v.ring[s] = u.ring[s]
      BY <3>3 DEF GrowsAt
    <3>5. \A s \in Past(f, r, a) : u.ring[s].obj \in own
      BY <1>1, <2>1, <2>3, <3>1, <3>2 DEF OwnersOf
    <3>6. \A o \in Objects : w[i].image[o] # NoObject => o \in own
      BY <1>1, <3>1 DEF OwnersOf
    <3>7. v.ring[r].obj \in own
      BY <2>5
    <3>8. \A s \in Past(g, v.next_free, a) : v.ring[s].obj \in own
      <4>1. ASSUME NEW s \in Past(f, r, a) PROVE v.ring[s].obj \in own
        BY <3>4, <3>5
      <4> QED BY <3>4, <3>7, <4>1
    <3> QED BY <3>2, <3>6, <3>8
  <2>9. OwnersOf(v.ring, v.next_free, w, own)
    BY <2>2, <2>8 DEF OwnersOf
  <2>10. PICK a : a = w[Len(w)].first
    OBVIOUS
  <2>11. /\ Past(g, v.next_free, a) = Past(f, r, a) \union {r}
         /\ \A s \in Past(f, r, a) : v.ring[s] = u.ring[s]
         /\ a = sv[Len(sv)].first
    <3>1. Len(w) \in 1 .. Len(w) /\ Len(sv) - Len(w) + Len(w) = Len(sv)
      BY <1>1, <1>2, <1>4
    <3>2. w[Len(w)] = sv[Len(sv)]
      BY <2>5, <3>1
    <3>3. GrowsAt(u.ring, f, r, v.ring, g, v.next_free, a, r)
      BY <2>5, <2>10, <3>1
    <3> QED BY <2>10, <3>2, <3>3 DEF GrowsAt
  <2>12. HasRecord(v, w, x.obj, x.prop)
    <3>1. r \in Of(v.ring, Past(g, v.next_free, a), x.obj, x.prop)
      BY <2>5, <2>11 DEF Of
    <3> QED BY <2>2, <2>10, <3>1 DEF HasRecord
  <2>13. ASSUME NEW o, NEW p, HasRecord(u, sv, o, p) PROVE HasRecord(v, w, o, p)
    <3>1. sv # << >>
      BY <1>1, <1>2, <1>4
    <3>2. Of(u.ring, Past(f, r, a), o, p) # {}
      BY <2>1, <2>3, <2>11, <2>13, <3>1 DEF HasRecord
    <3>3. Of(v.ring, Past(g, v.next_free, a), o, p) # {}
      BY <2>11, <3>2 DEF Of
    <3> QED BY <2>2, <2>10, <3>3 DEF HasRecord
  <2> QED BY <1>2, <2>7, <2>9, <2>12, <2>13 DEF Sync, Recorded
<1> QED BY <1>3, <1>4

\* Lemma: the same in a row of calls: w is what is left of sv.
LEMMA SyncMore ==
  ASSUME NEW sv \in Seq(SavedType), NEW u, u.savept_cnt \in 0 .. Len(sv),
         NEW w, w = Left(u, sv),
         NEW own, NEW x \in UndoRecord, x.obj \in own,
         NEW en, NEW ar, NEW om, NEW en0, NEW ar0, NEW om0,
         Undoes(x, en, ar, om, en0, ar0, om0), Sync(u, w, own, en0, ar0, om0),
         NEW v, v = AddAny(u, x), NEW z, z = Left(v, sv)
  PROVE  v.savept_cnt \in 0 .. Len(sv) /\ Sync(v, z, own, en, ar, om) /\ Recorded(u, w, v, z, x)
<1>1. PICK m : m = u.savept_cnt
  OBVIOUS
<1>2. PICK n : n = v.savept_cnt
  OBVIOUS
<1>3. PICK y : y = Left(v, w)
  OBVIOUS
<1>4. m \in 0 .. Len(sv) /\ w = Newest(sv, m) /\ Len(w) = m
  BY <1>1, NewestFacts DEF Left
<1>5. v.savept_cnt \in 0 .. Len(w) /\ Sync(v, y, own, en, ar, om) /\ Recorded(u, w, v, y, x)
  BY <1>3, SyncAdd
<1>6. n \in 0 .. m /\ n \in 0 .. Len(sv)
  BY <1>2, <1>4, <1>5
<1>7. y = z
  <2>1. Newest(Newest(sv, m), n) = Newest(sv, n)
    BY <1>4, <1>6, NewestNewest
  <2> QED BY <1>2, <1>3, <1>4, <2>1 DEF Left
<1> QED BY <1>2, <1>5, <1>6, <1>7

-----------------------------------------------------------------------------
\* Lemma: seen from its savepoints, a ring at rest is like itself.
LEMMA SyncKeeps ==
  ASSUME NEW u, NEW sv, NEW own, NEW en, NEW ar, NEW om, Sync(u, sv, own, en, ar, om),
         NEW i \in 1 .. Len(sv)
  PROVE  /\ KeepsAt(u.ring, FirstsOf(sv), u.next_free, u.ring, FirstsOf(sv), u.next_free,
                    sv[i].first)
         /\ EndOK(u, u.next_free) /\ Linked(Cell, u, FirstsOf(sv))
         /\ Len(FirstsOf(sv)) = Len(sv) /\ FirstsOf(sv)[i] = sv[i].first
<1>1. PICK f : f = FirstsOf(sv)
  OBVIOUS
<1>2. sv \in Seq(SavedType) /\ RingInv(u, f) /\ Len(sv) = u.savept_cnt
  BY <1>1 DEF Sync
<1>3. Len(f) = Len(sv) /\ f[i] = sv[i].first
  BY <1>1, <1>2, FirstsType DEF FirstsOf
<1>4. Linked(Cell, u, f)
  BY <1>2 DEF RingInv
<1>5. u.savept_cnt > 0
  BY <1>2
<1>6. EndOK(u, u.next_free)
  BY <1>4, <1>5, FreeEnd
<1>7. KeepsAt(u.ring, f, u.next_free, u.ring, f, u.next_free, f[i])
  BY <1>2, <1>3, <1>6, SelfKeeps
<1> QED BY <1>1, <1>3, <1>4, <1>6, <1>7

\* Lemma: a change to an object that does not take part needs no record.
LEMMA SyncOther ==
  ASSUME NEW u, NEW sv, NEW own, NEW en, NEW ar, NEW om, Sync(u, sv, own, en, ar, om),
         NEW q \in Objects, q \notin own, NEW new, NEW arn, NEW omn,
         OnlyObject(q, en, ar, om, new, arn, omn)
  PROVE  Sync(u, sv, own, new, arn, omn)
<1>1. PICK f : f = FirstsOf(sv)
  OBVIOUS
<1>2. Reco(u.ring, u.next_free, sv, en, ar, om) /\ OwnersOf(u.ring, u.next_free, sv, own)
  BY DEF Sync
<1>3. ASSUME NEW i \in 1 .. Len(sv)
      PROVE  RecoAt(u.ring, f, u.next_free, sv[i], new, arn, omn)
  <2>1. PICK c : c = sv[i]
    OBVIOUS
  <2>2. KeepsAt(u.ring, f, u.next_free, u.ring, f, u.next_free, c.first)
    BY <1>1, <2>1, SyncKeeps
  <2>3. RecoAt(u.ring, f, u.next_free, c, en, ar, om)
    BY <1>1, <1>2, <2>1 DEF Reco
  <2>4. c.image[q] = NoObject /\ \A s \in Past(f, u.next_free, c.first) : u.ring[s].obj # q
    BY <1>1, <1>2, <2>1 DEF OwnersOf
  <2> QED BY <2>1, <2>2, <2>3, <2>4, RecoAtOther
<1>4. Reco(u.ring, u.next_free, sv, new, arn, omn)
  BY <1>1, <1>3 DEF Reco
<1> QED BY <1>4 DEF Sync

\* Lemma: nor does a change to undo flags only.
LEMMA SyncSame ==
  ASSUME NEW u, NEW sv, NEW own, NEW en, NEW ar, NEW om, Sync(u, sv, own, en, ar, om),
         NEW new, SameValues(en, new)
  PROVE  Sync(u, sv, own, new, ar, om)
<1>1. PICK f : f = FirstsOf(sv)
  OBVIOUS
<1>2. Reco(u.ring, u.next_free, sv, en, ar, om)
  BY DEF Sync
<1>3. ASSUME NEW i \in 1 .. Len(sv)
      PROVE  RecoAt(u.ring, f, u.next_free, sv[i], new, ar, om)
  <2>1. PICK c : c = sv[i]
    OBVIOUS
  <2>2. KeepsAt(u.ring, f, u.next_free, u.ring, f, u.next_free, c.first)
    BY <1>1, <2>1, SyncKeeps
  <2>3. RecoAt(u.ring, f, u.next_free, c, en, ar, om)
    BY <1>1, <1>2, <2>1 DEF Reco
  <2> QED BY <2>1, <2>2, <2>3, RecoAtKeeps
<1>4. Reco(u.ring, u.next_free, sv, new, ar, om)
  BY <1>1, <1>3 DEF Reco
<1> QED BY <1>4 DEF Sync

\* Lemma: what has a record in the newest savepoint has one since any other.
LEMMA RecordSince ==
  ASSUME NEW u, NEW sv, NEW own, NEW en, NEW ar, NEW om, Sync(u, sv, own, en, ar, om),
         NEW o, NEW p, HasRecord(u, sv, o, p), NEW i \in 1 .. Len(sv)
  PROVE  Of(u.ring, Past(FirstsOf(sv), u.next_free, sv[i].first), o, p) # {}
<1>1. PICK f : f = FirstsOf(sv)
  OBVIOUS
<1>2. sv \in Seq(SavedType) /\ Len(sv) \in Nat /\ sv # << >> /\ Len(sv) \in 1 .. Len(sv)
  BY DEF Sync
<1>3. /\ Linked(Cell, u, f) /\ Len(f) = Len(sv) /\ f[i] = sv[i].first
      /\ f[Len(sv)] = sv[Len(sv)].first
  BY <1>1, <1>2, SyncKeeps
<1>4. PICK a : a = f[i]
  OBVIOUS
<1>5. PICK b : b = u.cur_first
  OBVIOUS
<1>6. a \in Slots /\ b \in Slots /\ u.next_free \in Slots /\ b = f[Len(f)]
      /\ Dist(a, b) < Span(a, u.next_free)
  BY <1>3, <1>4, <1>5, LinkFacts
<1>7. Past(f, u.next_free, b) \subseteq Past(f, u.next_free, a)
  BY <1>6, PastSubset
<1>8. Of(u.ring, Past(f, u.next_free, b), o, p) # {}
  BY <1>1, <1>2, <1>3, <1>6 DEF HasRecord
<1>9. Of(u.ring, Past(f, u.next_free, a), o, p) # {}
  BY <1>7, <1>8 DEF Of
<1> QED BY <1>1, <1>3, <1>4, <1>9

\* Lemma: nor does a new value of an entry that has one.
LEMMA SyncFlagged ==
  ASSUME NEW u, NEW sv, NEW own, NEW en, NEW ar, NEW om, Sync(u, sv, own, en, ar, om),
         NEW q \in Objects, NEW r \in Props, HasRecord(u, sv, q, r),
         NEW new, OnlyValue(q, r, en, new)
  PROVE  Sync(u, sv, own, new, ar, om)
<1>1. PICK f : f = FirstsOf(sv)
  OBVIOUS
<1>2. Reco(u.ring, u.next_free, sv, en, ar, om)
  BY DEF Sync
<1>3. ASSUME NEW i \in 1 .. Len(sv)
      PROVE  RecoAt(u.ring, f, u.next_free, sv[i], new, ar, om)
  <2>1. PICK c : c = sv[i]
    OBVIOUS
  <2>2. KeepsAt(u.ring, f, u.next_free, u.ring, f, u.next_free, c.first)
    BY <1>1, <2>1, SyncKeeps
  <2>3. RecoAt(u.ring, f, u.next_free, c, en, ar, om)
    BY <1>1, <1>2, <2>1 DEF Reco
  <2>4. Of(u.ring, Past(f, u.next_free, c.first), q, r) # {}
    BY <1>1, <2>1, RecordSince
  <2> QED BY <2>1, <2>2, <2>3, <2>4, RecoAtFlagged
<1>4. Reco(u.ring, u.next_free, sv, new, ar, om)
  BY <1>1, <1>3 DEF Reco
<1> QED BY <1>4 DEF Sync

-----------------------------------------------------------------------------
\* The records that set_prop makes.
ValueRecord(o, p, w) == [obj |-> o, prop |-> p, oldval |-> w]

\* What set_prop does to the entries of an object and to their order.
SetEntry(en, o, p, n) == [en EXCEPT ![o][p] = n]
AddEntry(ar, o, p) == [ar EXCEPT ![o] = Append(ar[o], p)]

\* Entries, and entries that differ in one only.
Entries(en) == en \in [Objects -> [Props -> EntryType]]
Elsewhere(o, p, en, new) ==
  \A a \in Objects, b \in Props : ~(a = o /\ b = p) => new[a][b] = en[a][b]

\* Lemma: an entry that is set.
LEMMA EntrySet ==
  ASSUME NEW en, Entries(en), NEW o \in Objects, NEW p \in Props,
         NEW n \in EntryType, NEW new, new = SetEntry(en, o, p, n)
  PROVE  Entries(new) /\ new[o][p] = n /\ Elsewhere(o, p, en, new)
<1> HIDE DEF EntryType
<1> QED BY DEF Entries, Elsewhere, SetEntry

\* Lemma: the entry of a record, once it is applied.
LEMMA EntryUndone ==
  ASSUME NEW x \in UndoRecord, NEW o, x.obj = o, NEW p, x.prop = p, p # InvalidProp,
         NEW w, x.oldval = w,
         NEW new, Entries(new), NEW old, old = ApplyEntry(x, new)
  PROVE  /\ Elsewhere(o, p, new, old)
         /\ w = EmptyNew => old[o][p] = NoEntry
         /\ w # EmptyNew => /\ old[o][p].val = w
                            /\ old[o][p].mod <=> new[o][p].mod /\ w # EmptyMod
<1>1. ASSUME NEW a \in Objects, NEW b \in Props, ~(a = o /\ b = p)
      PROVE  old[a][b] = new[a][b]
  BY <1>1, ApplyEntryFacts DEF Entries
<1>2. /\ w = EmptyNew => old[o][p] = NoEntry
      /\ w # EmptyNew => old[o][p].val = w
      /\ old[o][p].mod <=> new[o][p].mod /\ w \notin Empties
  BY ApplyEntryFacts DEF Entries
<1> QED BY <1>1, <1>2 DEF Empties, Elsewhere

\* Lemma: a change of a value, and the record of the old one.
LEMMA UndoesValue ==
  ASSUME NEW new, NEW ar, NEW om, Heap(new, ar, om), NEW o \in Objects, NEW p \in Props,
         new[o][p].val # Absent, NEW w \in Vals \union {EmptyMod},
         NEW x, x = ValueRecord(o, p, w), NEW old, old = ApplyEntry(x, new)
  PROVE  /\ x \in UndoRecord /\ x.obj = o /\ x.prop = p
         /\ Undoes(x, new, ar, om, old, ar, om) /\ Heap(old, ar, om)
         /\ old[o][p].val = w /\ (old[o][p].mod <=> new[o][p].mod /\ w # EmptyMod)
         /\ Elsewhere(o, p, new, old)
<1>1. x.obj = o /\ x.prop = p /\ x.oldval = w /\ p # InvalidProp /\ w # EmptyNew
  BY ValueAssumption DEF ValueRecord, Empties
<1>2. x \in UndoRecord
  BY DEF ValueRecord, UndoRecord, Empties
<1>3. Entries(new)
  BY DEF Heap, Entries
<1>4. /\ old[o][p].val = w /\ (old[o][p].mod <=> new[o][p].mod /\ w # EmptyMod)
      /\ Elsewhere(o, p, new, old)
  BY <1>1, <1>2, <1>3, EntryUndone
<1>5. ApplyOrder(x, ar) = ar /\ ApplyObj(x, om) = om
  BY <1>1 DEF ApplyOrder, ApplyObj
<1>6. Heap(old, ar, om)
  BY <1>2, <1>5, ApplyHeap
<1>7. Applicable(x, new[x.obj][x.prop].val, ar[x.obj])
  BY <1>1 DEF Applicable
<1>8. Undoes(x, new, ar, om, old, ar, om)
  BY <1>5, <1>7 DEF Undoes
<1> QED BY <1>1, <1>2, <1>4, <1>6, <1>8

\* Lemma: a new entry, which comes last, and its record.
LEMMA UndoesNew ==
  ASSUME NEW en, NEW ar, NEW om, Heap(en, ar, om), NEW o \in Objects, NEW p \in Props,
         NEW n \in EntryType, n.val # Absent,
         NEW x, x = ValueRecord(o, p, EmptyNew), NEW new, new = SetEntry(en, o, p, n),
         NEW arn, arn = AddEntry(ar, o, p),
         NEW old, old = ApplyEntry(x, new)
  PROVE  /\ x \in UndoRecord /\ x.obj = o /\ x.prop = p
         /\ Undoes(x, new, arn, om, old, ar, om) /\ Heap(new, arn, om)
         /\ old[o][p] = NoEntry
         /\ Elsewhere(o, p, en, old)
<1>1. x.obj = o /\ x.prop = p /\ x.oldval = EmptyNew /\ p # InvalidProp
  BY ValueAssumption DEF ValueRecord
<1>2. x \in UndoRecord
  BY DEF ValueRecord, UndoRecord, Empties
<1>3. Entries(en) /\ ar \in [Objects -> Seq(Props)]
  BY DEF Heap, Entries
<1>4. Entries(new) /\ new[o][p] = n /\ Elsewhere(o, p, en, new)
  BY <1>3, EntrySet
<1>5. PICK q : q = ar[o]
  OBVIOUS
<1>6. q \in Seq(Props) /\ Len(q) \in Nat
  BY <1>3, <1>5
<1>7. PICK t : t = Append(q, p)
  OBVIOUS
<1>8. /\ t \in Seq(Props) /\ Len(t) = Len(q) + 1 /\ t[Len(t)] = p
      /\ \A i \in 1 .. Len(q) : t[i] = q[i]
  BY <1>6, <1>7
<1>9. t # << >>
  BY <1>6, <1>8
<1>10. SubSeq(t, 1, Len(t) - 1) = q
  <2>1. PICK z : z = SubSeq(t, 1, Len(t) - 1)
    OBVIOUS
  <2>2. z \in Seq(Props) /\ Len(z) = Len(t) - 1 /\ \A i \in 1 .. Len(t) - 1 : z[i] = t[i]
    BY <1>8, <1>9, <2>1, FrontFacts
  <2>3. Len(z) = Len(q) /\ \A i \in 1 .. Len(q) : z[i] = q[i]
    BY <1>6, <1>8, <2>2
  <2>4. z = q
    BY <1>6, <2>2, <2>3, SeqEqual
  <2> QED BY <2>1, <2>4
<1>11. arn[o] = t /\ arn \in [Objects -> Seq(Props)] /\ arn = [ar EXCEPT ![o] = t]
  BY <1>3, <1>5, <1>7, <1>8 DEF AddEntry
<1>12. Heap(new, arn, om)
  BY <1>3, <1>4, <1>11 DEF Heap, Entries
<1>13. /\ old[o][p] = NoEntry
       /\ Elsewhere(o, p, new, old)
  BY <1>1, <1>2, <1>4, EntryUndone
<1>14. ApplyOrder(x, arn) = ar
  <2>1. ApplyOrder(x, arn) = [arn EXCEPT ![o] = q]
    BY <1>1, <1>10, <1>11 DEF ApplyOrder
  <2> QED BY <1>3, <1>5, <1>11, <2>1
<1>15. ApplyObj(x, om) = om
  BY <1>1 DEF ApplyObj
<1>16. Applicable(x, new[x.obj][x.prop].val, arn[x.obj])
  BY <1>1, <1>4, <1>8, <1>9, <1>11 DEF Applicable
<1>17. Undoes(x, new, arn, om, old, ar, om)
  BY <1>12, <1>14, <1>15, <1>16 DEF Undoes
<1>18. Elsewhere(o, p, en, old)
  BY <1>4, <1>13 DEF Elsewhere
<1> QED BY <1>1, <1>2, <1>12, <1>13, <1>17, <1>18

\* Lemma: the flag of an object, and its record.
LEMMA UndoesFlag ==
  ASSUME NEW en, NEW ar, NEW om, Heap(en, ar, om), NEW o \in Objects, o \notin om,
         NEW x, x = ValueRecord(o, InvalidProp, Int1), NEW omn, omn = om \union {o}
  PROVE  x \in UndoRecord /\ x.obj = o /\ Undoes(x, en, ar, omn, en, ar, om)
<1>1. x.obj = o /\ x.prop = InvalidProp
  BY DEF ValueRecord
<1>2. x \in UndoRecord
  BY DEF ValueRecord, UndoRecord
<1>3. Heap(en, ar, omn)
  BY DEF Heap
<1>4. ApplyEntry(x, en) = en /\ ApplyOrder(x, ar) = ar /\ ApplyObj(x, omn) = om
  BY <1>1 DEF ApplyEntry, ApplyOrder, ApplyObj
<1> QED BY <1>1, <1>2, <1>3, <1>4 DEF Undoes, Applicable

\* An entry before set_prop, and one after.
NoValue(en, o, p) == en[o][p].val = Absent /\ en[o][p].mod = FALSE
OwnValue(en, o, p, t) == en[o][p].val = t /\ en[o][p].mod = TRUE
ImageValue(en, o, p, t) == en[o][p].val = t /\ en[o][p].mod = FALSE
NewEntry(n) == n \in EntryType /\ n.val # Absent /\ n.mod = TRUE

\* set_prop of a property of an object that takes part.
Setting(u, sv, own, en, ar, om, o, p, n, new) ==
  /\ own \subseteq Objects /\ o \in own /\ p \in Props /\ NewEntry(n)
  /\ Heap(en, ar, om) /\ Sync(u, sv, own, en, ar, om)
  /\ new = SetEntry(en, o, p, n)

\* Lemma: a new entry.
LEMMA SyncNew ==
  ASSUME NEW u, NEW sv, NEW own, NEW en, NEW ar, NEW om, NEW o, NEW p, NEW n, NEW new,
         Setting(u, sv, own, en, ar, om, o, p, n, new),
         NoValue(en, o, p),
         NEW x, x = ValueRecord(o, p, EmptyNew), NEW arn, arn = AddEntry(ar, o, p),
         NEW v, v = AddAny(u, x), NEW z, z = Left(v, sv)
  PROVE  /\ v.savept_cnt \in 0 .. Len(sv) /\ Sync(v, z, own, new, arn, om)
         /\ Heap(new, arn, om) /\ Recorded(u, sv, v, z, x) /\ x.obj = o /\ x.prop = p
<1> USE DEF NoValue, OwnValue, ImageValue, NewEntry, Setting
<1>1. PICK old : old = ApplyEntry(x, new)
  OBVIOUS
<1>2. o \in Objects
  OBVIOUS
<1>3. /\ x \in UndoRecord /\ x.obj = o /\ x.prop = p
      /\ Undoes(x, new, arn, om, old, ar, om) /\ Heap(new, arn, om)
      /\ old[o][p] = NoEntry /\ Elsewhere(o, p, en, old)
  BY <1>1, <1>2, UndoesNew
<1>4. SameValues(en, old)
  <2>1. en[o][p].mod \in BOOLEAN
    BY <1>2 DEF Heap, EntryType
  <2>2. old[o][p].val = en[o][p].val /\ old[o][p].mod = en[o][p].mod
    <3>1. NoEntry.val = Absent /\ NoEntry.mod = FALSE
      BY DEF NoEntry, Entry
    <3>2. en[o][p].mod = FALSE
      BY <2>1
    <3>3. old[o][p] = NoEntry
      BY <1>3
    <3> QED BY <3>1, <3>2, <3>3
  <2> QED BY <1>3, <2>2 DEF SameValues, Elsewhere
<1>5. Sync(u, sv, own, old, ar, om)
  BY <1>4, SyncSame
<1>6. v.savept_cnt \in 0 .. Len(sv) /\ Sync(v, z, own, new, arn, om) /\ Recorded(u, sv, v, z, x)
  <2>1. x.obj \in own
    BY <1>3
  <2> QED BY <1>3, <1>5, <2>1, SyncAdd, ZenonT(40)
<1> QED BY <1>3, <1>6

\* Lemma: a new value of an entry that is marked modified already.
LEMMA SyncValue ==
  ASSUME NEW u, NEW sv, NEW own, NEW en, NEW ar, NEW om, NEW o, NEW p, NEW n, NEW new,
         Setting(u, sv, own, en, ar, om, o, p, n, new),
         NEW t \in Vals, OwnValue(en, o, p, t),
         NEW x, x = ValueRecord(o, p, t),
         NEW v, v = AddAny(u, x), NEW z, z = Left(v, sv)
  PROVE  /\ v.savept_cnt \in 0 .. Len(sv) /\ Sync(v, z, own, new, ar, om)
         /\ Heap(new, ar, om) /\ Recorded(u, sv, v, z, x) /\ x.obj = o /\ x.prop = p
<1> USE DEF NoValue, OwnValue, ImageValue, NewEntry, Setting
<1>1. PICK old : old = ApplyEntry(x, new)
  OBVIOUS
<1>2. PICK w : w = en[o][p].val
  OBVIOUS
<1>3. o \in Objects /\ w \in Vals /\ w \in Vals \union {EmptyMod} /\ x = ValueRecord(o, p, w)
  BY <1>2
<1>4. Entries(new) /\ new[o][p] = n /\ Elsewhere(o, p, en, new)
  <2>1. Entries(en)
    BY DEF Heap, Entries
  <2> QED BY <1>3, <2>1, EntrySet
<1>5. Heap(new, ar, om) /\ new[o][p].val # Absent
  BY <1>4 DEF Heap, Entries
<1>6. /\ x \in UndoRecord /\ x.obj = o /\ x.prop = p
      /\ Undoes(x, new, ar, om, old, ar, om)
      /\ old[o][p].val = w /\ (old[o][p].mod <=> new[o][p].mod /\ w # EmptyMod)
      /\ Elsewhere(o, p, new, old) /\ Heap(old, ar, om)
  BY <1>1, <1>3, <1>5, UndoesValue
<1>7. SameValues(en, old)
  <2>1. w # EmptyMod
    BY <1>3, ValueAssumption DEF Empties
  <2>2. old[o][p].mod \in BOOLEAN /\ en[o][p].mod \in BOOLEAN
    BY <1>3, <1>6 DEF Heap, EntryType
  <2>3. old[o][p].mod = en[o][p].mod
    BY <1>4, <1>6, <2>1, <2>2
  <2> QED BY <1>2, <1>4, <1>6, <2>3 DEF SameValues, Elsewhere
<1>8. Sync(u, sv, own, old, ar, om)
  BY <1>7, SyncSame
<1>9. v.savept_cnt \in 0 .. Len(sv) /\ Sync(v, z, own, new, ar, om) /\ Recorded(u, sv, v, z, x)
  <2>1. x.obj \in own
    BY <1>6
  <2>2. x \in UndoRecord /\ Undoes(x, new, ar, om, old, ar, om)
    BY <1>6
  <2> QED BY <1>8, <2>1, <2>2, SyncAdd
<1> QED BY <1>5, <1>6, <1>9

\* Lemma: a new value of an entry that becomes modified: the marker comes second.
LEMMA SyncMarks ==
  ASSUME NEW u, NEW sv, NEW own, NEW en, NEW ar, NEW om, NEW o, NEW p, NEW n, NEW new,
         Setting(u, sv, own, en, ar, om, o, p, n, new),
         NEW t \in Vals, ImageValue(en, o, p, t),
         NEW x, x = ValueRecord(o, p, t),
         NEW r, r = AddAny(u, x), NEW y, y = ValueRecord(o, p, EmptyMod),
         NEW v, v = AddAny(r, y), NEW z, z = Left(v, sv), NEW w, w = Left(r, sv)
  PROVE  /\ v.savept_cnt \in 0 .. Len(sv) /\ Sync(v, z, own, new, ar, om)
         /\ Heap(new, ar, om) /\ Recorded(u, sv, r, w, x) /\ Recorded(r, w, v, z, y)
         /\ x.obj = o /\ x.prop = p
<1> USE DEF NoValue, OwnValue, ImageValue, NewEntry, Setting
<1>1. PICK mid : mid = ApplyEntry(y, new)
  OBVIOUS
<1>2. PICK old : old = ApplyEntry(x, mid)
  OBVIOUS
<1>3. t = en[o][p].val
  OBVIOUS
<1>4. o \in Objects /\ t \in Vals /\ t \in Vals \union {EmptyMod} /\ x = ValueRecord(o, p, t)
      /\ EmptyMod \in Vals \union {EmptyMod}
  BY <1>3
<1>5. Entries(new) /\ new[o][p] = n /\ Elsewhere(o, p, en, new)
  <2>1. Entries(en)
    BY DEF Heap, Entries
  <2> QED BY <1>4, <2>1, EntrySet
<1>6. Heap(new, ar, om) /\ new[o][p].val # Absent
  BY <1>5 DEF Heap, Entries
<1>7. /\ y \in UndoRecord /\ y.obj = o /\ y.prop = p
      /\ Undoes(y, new, ar, om, mid, ar, om) /\ Heap(mid, ar, om)
      /\ mid[o][p].val = EmptyMod /\ (mid[o][p].mod <=> new[o][p].mod /\ EmptyMod # EmptyMod)
      /\ Elsewhere(o, p, new, mid)
  BY <1>1, <1>4, <1>6, UndoesValue
<1>8. mid[o][p].val # Absent
  BY <1>7, ValueAssumption DEF Empties
<1>9. /\ x \in UndoRecord /\ x.obj = o /\ x.prop = p
      /\ Undoes(x, mid, ar, om, old, ar, om) /\ Heap(old, ar, om)
      /\ old[o][p].val = t /\ (old[o][p].mod <=> mid[o][p].mod /\ t # EmptyMod)
      /\ Elsewhere(o, p, mid, old)
  BY <1>2, <1>4, <1>7, <1>8, UndoesValue
<1>10. SameValues(en, old)
  <2>1. old[o][p].mod \in BOOLEAN /\ en[o][p].mod \in BOOLEAN
    BY <1>4, <1>9 DEF Heap, EntryType
  <2>2. ~old[o][p].mod
    BY <1>7, <1>9
  <2>3. old[o][p].mod = en[o][p].mod
    BY <2>1, <2>2
  <2>4. Elsewhere(o, p, en, old)
    BY <1>5, <1>7, <1>9 DEF Elsewhere
  <2>5. old[o][p].val = en[o][p].val
    BY <1>3, <1>9
  <2> QED BY <2>3, <2>4, <2>5 DEF SameValues, Elsewhere
<1>11. Sync(u, sv, own, old, ar, om)
  BY <1>10, SyncSame
<1>12. r.savept_cnt \in 0 .. Len(sv) /\ Sync(r, w, own, mid, ar, om) /\ Recorded(u, sv, r, w, x)
  <2>1. x.obj \in own
    BY <1>9
  <2>2. x \in UndoRecord /\ Undoes(x, mid, ar, om, old, ar, om)
    BY <1>9
  <2> QED BY <1>11, <2>1, <2>2, SyncAdd
<1>13. v.savept_cnt \in 0 .. Len(sv) /\ Sync(v, z, own, new, ar, om) /\ Recorded(r, w, v, z, y)
  <2>1. y.obj \in own /\ sv \in Seq(SavedType)
    BY <1>7 DEF Sync
  <2>2. y \in UndoRecord /\ Undoes(y, new, ar, om, mid, ar, om)
    BY <1>7
  <2>3. r.savept_cnt \in 0 .. Len(sv) /\ Sync(r, w, own, mid, ar, om)
    BY <1>12
  <2> QED BY <2>1, <2>2, <2>3, SyncMore
<1> QED BY <1>6, <1>9, <1>12, <1>13

\* mark_modified, of an object that takes part.
MarkObject(u, o, om) ==
  IF o \in om THEN u ELSE AddAny(u, ValueRecord(o, InvalidProp, Int1))

\* What had a record still has one.
KeepsRecords(u, sv, v, w) == \A o, p : HasRecord(u, sv, o, p) => HasRecord(v, w, o, p)

\* Lemma: mark_modified.
LEMMA SyncFlag ==
  ASSUME NEW sv \in Seq(SavedType), NEW u, u.savept_cnt \in 0 .. Len(sv),
         NEW w, w = Left(u, sv), NEW own, own \subseteq Objects, NEW en, NEW ar, NEW om,
         Heap(en, ar, om), Sync(u, w, own, en, ar, om), NEW o \in own,
         NEW v, v = MarkObject(u, o, om), NEW z, z = Left(v, sv),
         NEW omn, omn = om \union {o}
  PROVE  /\ v.savept_cnt \in 0 .. Len(sv) /\ Sync(v, z, own, en, ar, omn)
         /\ KeepsRecords(u, w, v, z)
<1> USE DEF MarkObject, KeepsRecords
<1>1. CASE o \in om
  <2>1. v = u /\ omn = om /\ z = w
    BY <1>1
  <2> QED BY <2>1
<1>2. CASE o \notin om
  <2>0. PICK x : x = ValueRecord(o, InvalidProp, Int1)
    OBVIOUS
  <2>1. o \in Objects /\ v = AddAny(u, x)
    BY <1>2, <2>0
  <2>2. x \in UndoRecord /\ x.obj = o /\ Undoes(x, en, ar, omn, en, ar, om)
    BY <1>2, <2>0, <2>1, UndoesFlag
  <2>3. x.obj \in own
    BY <2>2
  <2>4. v.savept_cnt \in 0 .. Len(sv) /\ Sync(v, z, own, en, ar, omn) /\ Recorded(u, w, v, z, x)
    <3>1. x \in UndoRecord /\ Undoes(x, en, ar, omn, en, ar, om)
      BY <2>2
    <3> QED BY <2>1, <2>3, <3>1, SyncMore
  <2> QED BY <2>4 DEF Recorded
<1> QED BY <1>1, <1>2

\* Lemma: a manager at rest holds all its savepoints.
LEMMA SyncAll ==
  ASSUME NEW u, NEW sv, NEW own, NEW en, NEW ar, NEW om, Sync(u, sv, own, en, ar, om)
  PROVE  Left(u, sv) = sv /\ u.savept_cnt \in 0 .. Len(sv) /\ sv \in Seq(SavedType)
<1>1. sv \in Seq(SavedType) /\ Len(sv) = u.savept_cnt
  BY DEF Sync
<1> QED BY <1>1, NewestAll DEF Left

\* What set_prop records for the value of an entry, of an object that takes part.
RecordValue(u, o, p, e) ==
  LET first == AddAny(u, ValueRecord(o, p, IF e.val = Absent THEN EmptyNew ELSE e.val))
  IN  IF e.undo THEN u
      ELSE IF e.mod \/ e.val = Absent THEN first
      ELSE AddAny(first, ValueRecord(o, p, EmptyMod))

\* What it finds: the entry, with a record when it claims to have one.
Ready(u, sv, o, p, e) ==
  /\ e.val # EmptyMod
  /\ e.val = Absent => ~e.mod
  /\ e.undo => e.mod /\ e.val # Absent /\ HasRecord(u, sv, o, p)
NewOrder(ar, o, p, e) == IF e.val = Absent THEN AddEntry(ar, o, p) ELSE ar

\* Lemma: set_prop up to mark_modified: all can still be brought back, and the
\* entry has a record.
LEMMA SyncEntry ==
  ASSUME NEW u, NEW sv, NEW own, NEW en, NEW ar, NEW om, NEW o, NEW p, NEW n, NEW new,
         Setting(u, sv, own, en, ar, om, o, p, n, new),
         NEW e, e = en[o][p], Ready(u, sv, o, p, e),
         NEW arn, arn = NewOrder(ar, o, p, e),
         NEW v, v = RecordValue(u, o, p, e), NEW z, z = Left(v, sv)
  PROVE  /\ v.savept_cnt \in 0 .. Len(sv) /\ Sync(v, z, own, new, arn, om)
         /\ Heap(new, arn, om) /\ HasRecord(v, z, o, p)
         /\ \A a, b : HasRecord(u, sv, a, b) => HasRecord(v, z, a, b)
<1>0. /\ own \subseteq Objects /\ o \in own /\ p \in Props /\ NewEntry(n)
      /\ Heap(en, ar, om) /\ Sync(u, sv, own, en, ar, om) /\ new = SetEntry(en, o, p, n)
  BY DEF Setting
<1>1. o \in Objects /\ e \in EntryType /\ Entries(en)
  BY <1>0 DEF Heap, Entries
<1>2. e.mod \in BOOLEAN /\ (e.val = Absent \/ e.val \in Vals)
  BY <1>1 DEF EntryType, Ready
<1>3. CASE e.undo
  <2>1. v = u /\ e.mod /\ e.val # Absent /\ HasRecord(u, sv, o, p)
    BY <1>3 DEF RecordValue, Ready
  <2>2. z = sv /\ arn = ar /\ v.savept_cnt \in 0 .. Len(sv)
    BY <1>0, <2>1, SyncAll DEF NewOrder
  <2>3. Entries(new) /\ new[o][p] = n /\ Elsewhere(o, p, en, new)
    BY <1>0, <1>1, EntrySet DEF NewEntry
  <2>4. OnlyValue(o, p, en, new)
    <3>1. e.mod = TRUE
      BY <1>2, <2>1
    <3> QED BY <1>0, <2>3, <3>1 DEF OnlyValue, Elsewhere, NewEntry
  <2>5. Sync(u, sv, own, new, ar, om)
    BY <1>0, <1>1, <2>1, <2>4, SyncFlagged
  <2>6. Heap(new, ar, om)
    BY <1>0, <2>3 DEF Heap, Entries
  <2> QED BY <2>1, <2>2, <2>5, <2>6
<1>4. CASE ~e.undo /\ e.val = Absent
  <2>1. PICK x : x = ValueRecord(o, p, EmptyNew)
    OBVIOUS
  <2>2. v = AddAny(u, x) /\ arn = AddEntry(ar, o, p)
    BY <1>4, <2>1 DEF RecordValue, NewOrder
  <2>3. NoValue(en, o, p)
    BY <1>2, <1>4 DEF NoValue, Ready
  <2>4. /\ v.savept_cnt \in 0 .. Len(sv) /\ Sync(v, z, own, new, arn, om)
        /\ Heap(new, arn, om) /\ Recorded(u, sv, v, z, x) /\ x.obj = o /\ x.prop = p
    BY <2>1, <2>2, <2>3, SyncNew
  <2> QED BY <2>4 DEF Recorded
<1>5. CASE ~e.undo /\ e.val # Absent /\ e.mod
  <2>0. PICK t : t = e.val
    OBVIOUS
  <2>1. PICK x : x = ValueRecord(o, p, t)
    OBVIOUS
  <2>2. v = AddAny(u, x) /\ arn = ar
    BY <1>5, <2>0, <2>1 DEF RecordValue, NewOrder
  <2>3. t \in Vals /\ OwnValue(en, o, p, t)
    BY <1>2, <1>5, <2>0 DEF OwnValue
  <2>4. /\ v.savept_cnt \in 0 .. Len(sv) /\ Sync(v, z, own, new, ar, om)
        /\ Heap(new, ar, om) /\ Recorded(u, sv, v, z, x) /\ x.obj = o /\ x.prop = p
    BY <2>1, <2>2, <2>3, SyncValue
  <2> QED BY <2>2, <2>4 DEF Recorded
<1>6. CASE ~e.undo /\ e.val # Absent /\ ~e.mod
  <2>0. PICK t : t = e.val
    OBVIOUS
  <2>1. PICK x : x = ValueRecord(o, p, t)
    OBVIOUS
  <2>2. PICK y : y = ValueRecord(o, p, EmptyMod)
    OBVIOUS
  <2>3. PICK r : r = AddAny(u, x)
    OBVIOUS
  <2>4. PICK w : w = Left(r, sv)
    OBVIOUS
  <2>5. v = AddAny(r, y) /\ arn = ar
    BY <1>6, <2>0, <2>1, <2>2, <2>3 DEF RecordValue, NewOrder
  <2>6. t \in Vals /\ ImageValue(en, o, p, t)
    BY <1>2, <1>6, <2>0 DEF ImageValue
  <2>7. /\ v.savept_cnt \in 0 .. Len(sv) /\ Sync(v, z, own, new, ar, om)
        /\ Heap(new, ar, om) /\ Recorded(u, sv, r, w, x) /\ Recorded(r, w, v, z, y)
        /\ x.obj = o /\ x.prop = p
    BY <2>1, <2>2, <2>3, <2>4, <2>5, <2>6, SyncMarks
  <2> QED BY <2>5, <2>7 DEF Recorded
<1> QED BY <1>2, <1>3, <1>4, <1>5, <1>6

-----------------------------------------------------------------------------
\* Each entry that skips its records has one; and what entries are at rest.
Claims(u, sv, own, en) ==
  \A o \in own, p \in Props : en[o][p].undo => HasRecord(u, sv, o, p)
Plain(en, lv) ==
  /\ \A o \in Objects, p \in Props :
       en[o][p].val # EmptyMod /\ (en[o][p].val = Absent => ~en[o][p].mod)
  /\ \A o \in lv, p \in Props : en[o][p].undo => en[o][p].mod /\ en[o][p].val # Absent

\* RecoveryInv while no undo is under way, of the states it is about.
Resting(u, sv, lv, own, en, ar, om) ==
  /\ own \subseteq lv /\ lv \subseteq Objects
  /\ Heap(en, ar, om) /\ Sync(u, sv, own, en, ar, om)
  /\ Claims(u, sv, own, en) /\ Plain(en, lv)

\* Lemma: the invariants give it.
LEMMA RestFromInv ==
  ASSUME Inv, RecoveryInv, Idle
  PROVE  Resting(undo, saved, live, Owned, entry, entry_arr, obj_mod)
<1>1. RingInv(undo, FirstsOf(saved)) /\ saved \in Seq(SavedType)
      /\ Len(saved) = undo.savept_cnt
  BY InvRing
<1>2. HeapOK
  BY HeapFromInv
<1>3. Top = undo.next_free
  BY DEF Top
<1>4. Heap(entry, entry_arr, obj_mod) /\ Owned \subseteq live /\ live \subseteq Objects
  BY <1>2 DEF HeapOK, Heap, EntryType, Owned
<1>5. OwnersOf(undo.ring, undo.next_free, saved, Owned)
  BY <1>3 DEF RecoveryInv, Owners, OwnersOf
<1>6. Sync(undo, saved, Owned, entry, entry_arr, obj_mod)
  BY <1>1, <1>3, <1>5 DEF RecoveryInv, Sync
<1>7. Claims(undo, saved, Owned, entry)
  BY <1>3 DEF RecoveryInv, Backed, Claims, HasRecord
<1>8. Plain(entry, live)
  BY DEF RecoveryInv, EntriesOK, Plain
<1> QED BY <1>4, <1>6, <1>7, <1>8 DEF Resting

\* Lemma: and it gives the invariant.
LEMMA RestMakesRecovery ==
  Idle /\ Resting(undo, saved, live, Owned, entry, entry_arr, obj_mod) => RecoveryInv
<1> SUFFICES ASSUME Idle, Resting(undo, saved, live, Owned, entry, entry_arr, obj_mod)
             PROVE  RecoveryInv
  OBVIOUS
<1>1. Top = undo.next_free
  BY DEF Top
<1>2. Sync(undo, saved, Owned, entry, entry_arr, obj_mod)
      /\ Claims(undo, saved, Owned, entry) /\ Plain(entry, live)
  BY DEF Resting
<1>3. Reco(undo.ring, Top, saved, entry, entry_arr, obj_mod)
      /\ OwnersOf(undo.ring, Top, saved, Owned)
  BY <1>1, <1>2 DEF Sync
<1>4. Owners
  BY <1>3 DEF Owners, OwnersOf
<1>5. Backed(undo.ring, Top, saved, entry, Owned)
  BY <1>1, <1>2 DEF Backed, Claims, HasRecord
<1>6. EntriesOK
  BY <1>2 DEF EntriesOK, Plain
<1> QED BY <1>3, <1>4, <1>5, <1>6 DEF RecoveryInv

\* Lemma: the same of the next state.
LEMMA RestMakesRecoveryNext ==
  ASSUME Idle', Resting(undo', saved', live', (Owned)', entry', entry_arr', obj_mod')
  PROVE  RecoveryInv'
<1>1. (Idle /\ Resting(undo, saved, live, Owned, entry, entry_arr, obj_mod))' => RecoveryInv'
  BY RestMakesRecovery, PTL
<1> QED BY <1>1

-----------------------------------------------------------------------------
\* Lemma: set_prop of an object that takes part.
LEMMA SetOwned ==
  ASSUME NEW u, NEW sv, NEW lv, NEW own, NEW en, NEW ar, NEW om,
         Resting(u, sv, lv, own, en, ar, om), NEW o \in own, NEW p \in Props,
         NEW n, NewEntry(n), n.val # EmptyMod, NEW e, e = en[o][p],
         NEW new, new = SetEntry(en, o, p, n), NEW arn, arn = NewOrder(ar, o, p, e),
         NEW t, t = RecordValue(u, o, p, e), NEW v, v = MarkObject(t, o, om),
         NEW z, z = Left(v, sv), NEW omn, omn = om \union {o}
  PROVE  Resting(v, z, lv, own, new, arn, omn)
<1>1. /\ own \subseteq lv /\ lv \subseteq Objects /\ own \subseteq Objects /\ o \in Objects
      /\ Heap(en, ar, om) /\ Sync(u, sv, own, en, ar, om)
      /\ Claims(u, sv, own, en) /\ Plain(en, lv)
  BY DEF Resting
<1>2. Setting(u, sv, own, en, ar, om, o, p, n, new)
  BY <1>1 DEF Setting
<1>3. Ready(u, sv, o, p, e)
  BY <1>1 DEF Ready, Claims, Plain
<1>4. PICK w : w = Left(t, sv)
  OBVIOUS
<1>5. /\ t.savept_cnt \in 0 .. Len(sv) /\ Sync(t, w, own, new, arn, om)
      /\ Heap(new, arn, om) /\ HasRecord(t, w, o, p)
      /\ \A a, b : HasRecord(u, sv, a, b) => HasRecord(t, w, a, b)
  BY <1>2, <1>3, <1>4, SyncEntry
<1>6. sv \in Seq(SavedType)
  BY <1>1 DEF Sync
<1>7. t.savept_cnt \in 0 .. Len(sv) /\ Sync(t, w, own, new, arn, om) /\ Heap(new, arn, om)
  BY <1>5
<1>8. v.savept_cnt \in 0 .. Len(sv) /\ Sync(v, z, own, new, arn, omn)
      /\ KeepsRecords(t, w, v, z)
  BY <1>1, <1>4, <1>6, <1>7, SyncFlag
<1>9. \A a, b : HasRecord(t, w, a, b) => HasRecord(v, z, a, b)
  BY <1>8 DEF KeepsRecords
<1>10. Heap(new, arn, omn)
  BY <1>1, <1>5 DEF Heap
<1>11. new[o][p] = n /\ Elsewhere(o, p, en, new)
  <2>1. Entries(en)
    BY <1>1 DEF Heap, Entries
  <2> QED BY <1>1, <2>1, EntrySet DEF NewEntry
<1>12. Claims(v, z, own, new)
  <2>1. ASSUME NEW a \in own, NEW b \in Props, new[a][b].undo PROVE HasRecord(v, z, a, b)
    <3>1. CASE a = o /\ b = p
      BY <1>5, <1>9, <3>1
    <3>2. CASE ~(a = o /\ b = p)
      <4>1. new[a][b] = en[a][b]
        BY <1>1, <1>11, <3>2 DEF Elsewhere
      <4>2. HasRecord(u, sv, a, b)
        BY <1>1, <2>1, <4>1 DEF Claims
      <4> QED BY <1>5, <1>9, <4>2
    <3> QED BY <3>1, <3>2
  <2> QED BY <2>1 DEF Claims
<1>13. Plain(new, lv)
  <2>1. ASSUME NEW a \in Objects, NEW b \in Props
        PROVE  /\ new[a][b].val # EmptyMod /\ (new[a][b].val = Absent => ~new[a][b].mod)
               /\ a \in lv /\ new[a][b].undo => new[a][b].mod /\ new[a][b].val # Absent
    <3>1. CASE a = o /\ b = p
      BY <1>11, <3>1 DEF NewEntry
    <3>2. CASE ~(a = o /\ b = p)
      <4>1. new[a][b] = en[a][b]
        BY <1>11, <3>2 DEF Elsewhere
      <4> QED BY <1>1, <4>1 DEF Plain
    <3> QED BY <3>1, <3>2
  <2> QED BY <1>1, <2>1 DEF Plain
<1> QED BY <1>1, <1>8, <1>10, <1>12, <1>13 DEF Resting

\* Lemma: a change of an object that does not take part.
LEMMA ChangeOther ==
  ASSUME NEW u, NEW sv, NEW lv, NEW own, NEW en, NEW ar, NEW om,
         Resting(u, sv, lv, own, en, ar, om), NEW q \in Objects, q \notin own,
         NEW new, NEW arn, NEW omn, Heap(new, arn, omn),
         OnlyObject(q, en, ar, om, new, arn, omn),
         NEW lw, lv \subseteq lw, lw \subseteq Objects, Plain(new, lw)
  PROVE  Resting(u, sv, lw, own, new, arn, omn)
<1>1. /\ own \subseteq lw /\ Sync(u, sv, own, en, ar, om) /\ Claims(u, sv, own, en)
      /\ own \subseteq Objects
  BY DEF Resting
<1>2. Sync(u, sv, own, new, arn, omn)
  BY <1>1, SyncOther
<1>3. Claims(u, sv, own, new)
  BY <1>1 DEF Claims, OnlyObject
<1> QED BY <1>1, <1>2, <1>3 DEF Resting

\* Lemma: an object that takes part makes its records; any other makes none.
LEMMA RecordsMade ==
  ASSUME NEW o \in live, NEW p
  PROVE  /\ o \in Owned =>
              mark_modified(ValueRecords(undo, o, p), o)
                = MarkObject(RecordValue(undo, o, p, entry[o][p]), o, obj_mod)
         /\ o \notin Owned => mark_modified(ValueRecords(undo, o, p), o) = undo
<1>1. o \in Owned <=> is_in_undo(o)
  BY DEF Owned, is_in_undo
<1>2. ASSUME is_in_undo(o)
      PROVE  \A u, x : add_new_record(u, is_in_undo(o), x) = AddAny(u, x)
  BY <1>2, AddIsRecord
<1>3. ASSUME ~is_in_undo(o)
      PROVE  \A u, x : add_new_record(u, is_in_undo(o), x) = u
  BY <1>3, AddIsRecord
<1>4. ASSUME is_in_undo(o)
      PROVE  mark_modified(ValueRecords(undo, o, p), o)
               = MarkObject(RecordValue(undo, o, p, entry[o][p]), o, obj_mod)
  <2>1. ValueRecords(undo, o, p) = RecordValue(undo, o, p, entry[o][p])
    BY <1>2, <1>4 DEF ValueRecords, RecordValue, ValueRecord
  <2>2. \A u : mark_modified(u, o) = MarkObject(u, o, obj_mod)
    BY <1>2, <1>4 DEF mark_modified, MarkObject, ValueRecord
  <2> QED BY <2>1, <2>2
<1>5. ASSUME ~is_in_undo(o)
      PROVE  mark_modified(ValueRecords(undo, o, p), o) = undo
  <2>1. ValueRecords(undo, o, p) = undo
    BY <1>3, <1>5 DEF ValueRecords
  <2>2. mark_modified(undo, o) = undo
    BY <1>3, <1>5 DEF mark_modified
  <2> QED BY <2>1, <2>2
<1> QED BY <1>1, <1>4, <1>5

\* Lemma: set_prop.
LEMMA SetPropRest ==
  ASSUME Inv, RecoveryInv, NEW o \in Objects, NEW p \in Props, NEW val \in Vals,
         set_prop(o, p, val)
  PROVE  Resting(undo', saved', live', (Owned)', entry', entry_arr', obj_mod')
<1>1. Resting(undo, saved, live, Owned, entry, entry_arr, obj_mod) /\ o \in live
  BY RestFromInv DEF set_prop
<1>2. PICK e : e = entry[o][p]
  OBVIOUS
<1>3. PICK n : n = Entry(val, TRUE, TRUE)
  OBVIOUS
<1>4. NewEntry(n) /\ n.val # EmptyMod
  BY <1>3, ValueAssumption DEF Entry, NewEntry, EntryType, Empties
<1>5. PICK new : new = SetEntry(entry, o, p, n)
  OBVIOUS
<1>6. PICK arn : arn = NewOrder(entry_arr, o, p, e)
  OBVIOUS
<1>7. PICK omn : omn = obj_mod \union {o}
  OBVIOUS
<1>8. entry' = new /\ entry_arr' = arn /\ obj_mod' = omn /\ live' = live /\ (Owned)' = Owned
  <2>1. entry' = new
    BY <1>3, <1>5 DEF set_prop, SetEntry
  <2>2. entry_arr' = arn
    BY <1>2, <1>6 DEF set_prop, NewOrder, AddEntry
  <2>3. obj_mod' = omn /\ live' = live /\ in_undo' = in_undo
    BY <1>7 DEF set_prop
  <2> QED BY <2>1, <2>2, <2>3 DEF Owned
<1>9. undo' = mark_modified(ValueRecords(undo, o, p), o) /\ saved' = Left(undo', saved)
  BY DEF set_prop, Left
<1>10. CASE o \in Owned
  <2>1. PICK t : t = RecordValue(undo, o, p, e)
    OBVIOUS
  <2>2. undo' = MarkObject(t, o, obj_mod)
    BY <1>1, <1>2, <1>9, <1>10, <2>1, RecordsMade
  <2>3. Resting(undo', saved', live, Owned, new, arn, omn)
    BY <1>1, <1>2, <1>4, <1>5, <1>6, <1>7, <1>9, <1>10, <2>1, <2>2, SetOwned
  <2> QED BY <1>8, <2>3
<1>11. CASE o \notin Owned
  <2>1. undo' = undo
    BY <1>1, <1>9, <1>11, RecordsMade
  <2>2. saved' = saved
    <3>1. Sync(undo, saved, Owned, entry, entry_arr, obj_mod)
      BY <1>1 DEF Resting
    <3> QED BY <1>9, <2>1, <3>1, SyncAll
  <2>3. /\ Heap(entry, entry_arr, obj_mod) /\ Plain(entry, live) /\ Entries(entry)
        /\ live \subseteq Objects
    BY <1>1 DEF Resting, Heap, Entries
  <2>4. Entries(new) /\ new[o][p] = n /\ Elsewhere(o, p, entry, new)
    BY <1>4, <1>5, <2>3, EntrySet DEF NewEntry
  <2>5. arn \in [Objects -> Seq(Props)] /\ \A a \in Objects \ {o} : arn[a] = entry_arr[a]
    <3>1. entry_arr \in [Objects -> Seq(Props)]
      BY <2>3 DEF Heap
    <3>2. entry_arr[o] \in Seq(Props)
      BY <3>1
    <3>3. Append(entry_arr[o], p) \in Seq(Props)
      BY <3>2
    <3>4. CASE e.val = Absent
      <4>1. arn = [entry_arr EXCEPT ![o] = Append(entry_arr[o], p)]
        BY <1>6, <3>4 DEF NewOrder, AddEntry
      <4> QED BY <3>1, <3>3, <4>1
    <3>5. CASE e.val # Absent
      BY <1>6, <3>1, <3>5 DEF NewOrder
    <3> QED BY <3>4, <3>5
  <2>6. Heap(new, arn, omn)
    BY <1>7, <2>3, <2>4, <2>5 DEF Heap, Entries
  <2>7. OnlyObject(o, entry, entry_arr, obj_mod, new, arn, omn)
    <3>1. ASSUME NEW a \in Objects \ {o}
          PROVE  new[a] = entry[a]
      <4>1. new[a] \in [Props -> EntryType] /\ entry[a] \in [Props -> EntryType]
        BY <2>3, <2>4 DEF Entries
      <4>2. \A b \in Props : new[a][b] = entry[a][b]
        BY <2>4 DEF Elsewhere
      <4> HIDE DEF EntryType
      <4> QED BY <4>1, <4>2
    <3>2. \A b \in Props : new[o][b].val # EmptyMod
      BY <1>4, <2>3, <2>4 DEF Elsewhere, Plain
    <3> QED BY <1>7, <2>5, <3>1, <3>2 DEF OnlyObject
  <2>8. Plain(new, live)
    <3>1. ASSUME NEW a \in Objects, NEW b \in Props
          PROVE  /\ new[a][b].val # EmptyMod /\ (new[a][b].val = Absent => ~new[a][b].mod)
                 /\ a \in live /\ new[a][b].undo => new[a][b].mod /\ new[a][b].val # Absent
      <4>1. CASE a = o /\ b = p
        BY <1>4, <2>4, <4>1 DEF NewEntry
      <4>2. CASE ~(a = o /\ b = p)
        <5>1. new[a][b] = entry[a][b]
          BY <2>4, <4>2 DEF Elsewhere
        <5> QED BY <2>3, <5>1 DEF Plain
      <4> QED BY <4>1, <4>2
    <3> QED BY <2>3, <3>1 DEF Plain
  <2>9. Resting(undo, saved, live, Owned, new, arn, omn)
    BY <1>1, <1>11, <2>3, <2>6, <2>7, <2>8, ChangeOther
  <2> QED BY <1>8, <2>1, <2>2, <2>9
<1> QED BY <1>10, <1>11

\* Lemma: a new object; it takes no part before the next savepoint.
LEMMA CreateObjectRest ==
  ASSUME Inv, RecoveryInv, NEW o \in DynamicObjects, CreateObject(o)
  PROVE  Resting(undo', saved', live', (Owned)', entry', entry_arr', obj_mod')
<1>1. Resting(undo, saved, live, Owned, entry, entry_arr, obj_mod) /\ o \notin live
      /\ o \in Objects
  BY RestFromInv DEF CreateObject, Objects
<1>2. /\ Heap(entry, entry_arr, obj_mod) /\ Plain(entry, live) /\ live \subseteq Objects
      /\ Owned \subseteq live
  BY <1>1 DEF Resting
<1>3. PICK blank : blank = [p \in Props |-> NoEntry]
  OBVIOUS
<1>4. blank \in [Props -> EntryType] /\ \A p \in Props : blank[p] = NoEntry
  <2>1. NoEntry \in EntryType
    BY DEF NoEntry, Entry, EntryType
  <2> HIDE DEF EntryType
  <2> QED BY <1>3, <2>1
<1>5. entry' = [entry EXCEPT ![o] = blank] /\ entry_arr' = [entry_arr EXCEPT ![o] = << >>]
      /\ obj_mod' = obj_mod \ {o} /\ live' = live \union {o} /\ undo' = undo
      /\ saved' = saved /\ in_undo' = in_undo \ {o}
  BY <1>3 DEF CreateObject
<1>6. (Owned)' = Owned
  BY <1>1, <1>5 DEF Owned
<1>7. /\ Heap(entry', entry_arr', obj_mod') /\ entry'[o] = blank
      /\ \A a \in Objects \ {o} : entry'[a] = entry[a] /\ entry_arr'[a] = entry_arr[a]
  <2>1. entry \in [Objects -> [Props -> EntryType]] /\ entry_arr \in [Objects -> Seq(Props)]
        /\ obj_mod \in SUBSET Objects
    BY <1>2 DEF Heap
  <2>2. << >> \in Seq(Props)
    OBVIOUS
  <2> HIDE DEF EntryType
  <2> QED BY <1>1, <1>4, <1>5, <2>1, <2>2 DEF Heap
<1>8. \A p \in Props : /\ entry'[o][p].val = Absent /\ entry'[o][p].mod = FALSE
                       /\ entry'[o][p].undo = FALSE
  BY <1>4, <1>7 DEF NoEntry, Entry
<1>9. OnlyObject(o, entry, entry_arr, obj_mod, entry', entry_arr', obj_mod')
  <2>1. \A a \in Objects \ {o} : a \in obj_mod' <=> a \in obj_mod
    BY <1>5
  <2>2. \A p \in Props : entry'[o][p].val # EmptyMod
    BY <1>8, ValueAssumption DEF Empties
  <2> QED BY <1>7, <2>1, <2>2 DEF OnlyObject
<1>10. Plain(entry', live')
  <2>1. \A p \in Props : entry'[o][p].val # EmptyMod
    BY <1>8, ValueAssumption DEF Empties
  <2>2. ASSUME NEW a \in Objects, NEW p \in Props
        PROVE  /\ entry'[a][p].val # EmptyMod /\ (entry'[a][p].val = Absent => ~entry'[a][p].mod)
               /\ a \in live' /\ entry'[a][p].undo
                    => entry'[a][p].mod /\ entry'[a][p].val # Absent
    <3>1. CASE a = o
      BY <1>8, <2>1, <3>1
    <3>2. CASE a # o
      <4>1. entry'[a] = entry[a] /\ (a \in live' => a \in live)
        BY <1>5, <1>7, <3>2
      <4> QED BY <1>2, <4>1 DEF Plain
    <3> QED BY <3>1, <3>2
  <2> QED BY <1>1, <1>2, <1>5, <2>2 DEF Plain
<1>11. Resting(undo, saved, live', Owned, entry', entry_arr', obj_mod')
  <2>1. live \subseteq live' /\ live' \subseteq Objects /\ o \notin Owned
    BY <1>1, <1>2, <1>5
  <2> QED BY <1>1, <1>7, <1>9, <1>10, <2>1, ChangeOther
<1> QED BY <1>5, <1>6, <1>11

-----------------------------------------------------------------------------
\* Lemma: a savepoint takes the next free slot for its link.
LEMMA CreateSlot ==
  ASSUME NEW u, NEW f, Linked(Cell, u, f), alloc_rec(u).rec # Null,
         NEW v, v = create_savept(u), v.cur_first \in Slots
  PROVE  /\ u.next_free \in Slots /\ v.cur_first = u.next_free
         /\ v.next_free = inc_rec_ptr(u.next_free)
<1>1. alloc_rec(u).rec = u.next_free
      /\ alloc_rec(u).undo.next_free = inc_rec_ptr(u.next_free)
  BY AllocSlot
<1>2. PICK a : a = alloc_rec(u)
  OBVIOUS
<1>3. PICK c : c = PushLink(a.undo, a.rec)
  OBVIOUS
<1>4. c.cur_first = u.next_free /\ c.next_free = inc_rec_ptr(u.next_free)
  BY <1>1, <1>2, <1>3 DEF PushLink
<1>5. PICK d : d = (IF c.savept_cnt = MaxSavepts THEN drop_oldest_savept(c) ELSE c)
  OBVIOUS
<1>6. v = CountSavept(d)
  BY <1>2, <1>3, <1>5 DEF create_savept
<1>7. d.next_free = c.next_free /\ (d.cur_first = c.cur_first \/ d.cur_first = Null)
  BY <1>5 DEF drop_oldest_savept, DropSegment
<1>8. v.next_free = d.next_free /\ v.cur_first = d.cur_first
  BY <1>6 DEF CountSavept
<1>9. v.cur_first # Null
  BY NullNotSlot
<1>10. u.next_free \in Slots
  BY DEF Linked, Manager
<1> QED BY <1>4, <1>7, <1>8, <1>9, <1>10

\* Lemma: the links after a new savepoint are links it found, and its own.
LEMMA CreatedLinks ==
  ASSUME NEW f \in Seq(Slots), NEW r \in Slots, NEW n \in 1 .. (Len(f) + 1),
         NEW g, g = Newest(Append(f, r), n)
  PROVE  /\ Len(g) = n /\ g[n] = r /\ IsLink(g, r)
         /\ \A s : IsLink(g, s) => s = r \/ IsLink(f, s)
<1>1. Append(f, r) \in Seq(Slots) /\ Len(Append(f, r)) = Len(f) + 1
      /\ \A k \in 1 .. Len(f) : Append(f, r)[k] = f[k]
  OBVIOUS
<1>2. Append(f, r)[Len(f) + 1] = r
  OBVIOUS
<1>3. PICK h : h = Append(f, r)
  OBVIOUS
<1>4. n \in 0 .. Len(h) /\ h \in Seq(Slots) /\ Len(h) = Len(f) + 1
  BY <1>1, <1>3
<1>5. Len(g) = n /\ \A i \in 1 .. n : g[i] = h[Len(h) - n + i]
  BY <1>3, <1>4, NewestFacts
<1>6. g[n] = r
  BY <1>2, <1>3, <1>4, <1>5
<1>7. ASSUME NEW s, IsLink(g, s) PROVE s = r \/ IsLink(f, s)
  <2>1. PICK i \in 1 .. n : g[i] = s
    BY <1>5, <1>7 DEF IsLink
  <2>2. PICK k : k = Len(h) - n + i
    OBVIOUS
  <2>3. k \in 1 .. (Len(f) + 1) /\ s = h[k]
    BY <1>4, <1>5, <2>1, <2>2
  <2>4. CASE k = Len(f) + 1
    BY <1>2, <1>3, <2>3, <2>4
  <2>5. CASE k # Len(f) + 1
    <3>1. k \in 1 .. Len(f)
      BY <2>3, <2>5
    <3> QED BY <1>1, <1>3, <2>3, <3>1 DEF IsLink
  <2> QED BY <2>4, <2>5
<1>8. IsLink(g, r)
  <2>1. n \in 1 .. Len(g)
    BY <1>5
  <2> QED BY <1>6, <2>1 DEF IsLink
<1>9. Len(g) = n
  BY <1>5
<1> QED BY <1>6, <1>7, <1>8, <1>9

\* Lemma: a new savepoint leaves the records since the older ones as they are.
LEMMA CreateKeeps ==
  ASSUME NEW u, NEW f, RingInv(u, f), alloc_rec(u).rec # Null,
         NEW v, v = create_savept(u),
         NEW g, g = Newest(Append(f, v.cur_first), v.savept_cnt), Linked(Cell, v, g),
         NEW i \in 1 .. Len(g), g[i] # v.cur_first
  PROVE  KeepsAt(u.ring, f, u.next_free, v.ring, g, v.next_free, g[i])
<1>1. /\ Linked(Cell, u, f) /\ Records(u, f) /\ u.savept_cnt <= MaxSavepts /\ f \in Seq(Slots)
  BY DEF RingInv, Linked
<1>2. /\ v.savept_cnt \in 1 .. (Len(f) + 1) /\ v.cur_first \in Slots
      /\ Kept(u, f, v, g, Null)
  BY <1>1, CellFacts, CreateLinked
<1>3. PICK r : r = u.next_free
  OBVIOUS
<1>4. r \in Slots /\ v.cur_first = r /\ v.next_free = inc_rec_ptr(r)
  BY <1>1, <1>2, <1>3, CreateSlot
<1>5. PICK n : n = v.savept_cnt
  OBVIOUS
<1>6. IsLink(g, r) /\ \A s : IsLink(g, s) => s = r \/ IsLink(f, s)
  <2>1. n \in 1 .. (Len(f) + 1) /\ g = Newest(Append(f, r), n)
    BY <1>2, <1>4, <1>5
  <2> QED BY <1>1, <1>4, <2>1, CreatedLinks
<1>7. PICK a : a = g[i]
  OBVIOUS
<1>8. a \in Slots /\ a # r
  BY <1>4, <1>7, LinkFacts
<1>9. EndOK(v, inc_rec_ptr(r))
  <2>1. inc_rec_ptr(r) \in Slots /\ dec_rec_ptr(inc_rec_ptr(r)) = r
        /\ Span(r, inc_rec_ptr(r)) = Dist(r, r) + 1 /\ Dist(r, r) = 0
    BY <1>4, IncFacts, DistType
  <2> QED BY <1>4, <2>1 DEF EndOK
<1>10. ASSUME NEW s \in Slots, Dist(a, s) \in 1 .. (Span(a, r) - 1)
       PROVE  InUse(v, s) /\ s # Null /\ (IsLink(g, s) => IsLink(f, s))
  <2>1. Span(a, r) = Dist(a, r) /\ Span(a, inc_rec_ptr(r)) = Dist(a, r) + 1
    BY <1>4, <1>8, IncFacts DEF Span
  <2>2. Dist(a, r) \in Int /\ Dist(a, s) \in Int
    BY <1>4, <1>8, DistType
  <2>3. Dist(a, s) \in 1 .. (Span(a, inc_rec_ptr(r)) - 1) /\ Dist(a, s) # Dist(a, r)
    BY <1>10, <2>1, <2>2
  <2>4. s # r
    BY <2>3
  <2>5. InUse(v, s)
    BY <1>7, <1>9, <2>3, SegmentInUse
  <2> QED BY <1>6, <2>4, <2>5, NullNotSlot
<1>11. KeepsAt(u.ring, f, r, v.ring, g, r, a)
  BY <1>1, <1>2, <1>4, <1>8, <1>10, KeptKeeps
<1>12. \A b \in Past(f, r, a) \union {a} : b \in Slots /\ b # r
  <2>1. ASSUME NEW b \in Past(f, r, a) PROVE b \in Slots /\ b # r
    <3>1. b \in Slots /\ Dist(a, b) \in 1 .. (Span(a, r) - 1)
      BY <2>1 DEF Past
    <3>2. Span(a, r) = Dist(a, r) /\ Dist(a, r) \in Int
      BY <1>4, <1>8, DistType DEF Span
    <3> QED BY <3>1, <3>2
  <2> QED BY <1>8, <2>1
<1>13. \A b \in Past(f, r, a) \union {a} : Past(g, inc_rec_ptr(r), b) = Past(g, r, b)
  BY <1>4, <1>6, <1>12, PastIncLink
<1>14. KeepsAt(u.ring, f, r, v.ring, g, inc_rec_ptr(r), a)
  BY <1>11, <1>13 DEF KeepsAt
<1> QED BY <1>3, <1>4, <1>7, <1>14

\* Lemma: the ring and the heap.
LEMMA InvFacts ==
  Inv => /\ RingInv(undo, FirstsOf(saved)) /\ saved \in Seq(SavedType)
         /\ Len(saved) = undo.savept_cnt
         /\ live \subseteq Objects /\ Heap(entry, entry_arr, obj_mod)
<1>1. HeapOK => live \subseteq Objects /\ Heap(entry, entry_arr, obj_mod)
  BY DEF HeapOK, Heap, EntryType
<1> QED BY <1>1, InvRing, HeapFromInv

\* Lemma: those of the next state.
LEMMA InvNextFacts ==
  ASSUME Inv'
  PROVE  /\ RingInv(undo', FirstsOf(saved')) /\ saved' \in Seq(SavedType)
         /\ Len(saved') = undo'.savept_cnt
         /\ live' \subseteq Objects /\ Heap(entry', entry_arr', obj_mod')
<1>1. (Inv)' => (/\ RingInv(undo, FirstsOf(saved)) /\ saved \in Seq(SavedType)
                 /\ Len(saved) = undo.savept_cnt
                 /\ live \subseteq Objects /\ Heap(entry, entry_arr, obj_mod))'
  BY InvFacts, PTL
<1> QED BY <1>1

\* Lemma: without savepoints there is nothing to bring back.
LEMMA SyncNone ==
  ASSUME NEW u, NEW sv, sv = << >>, RingInv(u, FirstsOf(sv)), u.savept_cnt = 0,
         NEW own, NEW en, NEW ar, NEW om
  PROVE  Sync(u, sv, own, en, ar, om)
<1>1. sv \in Seq(SavedType) /\ Len(sv) = 0
  OBVIOUS
<1>2. Reco(u.ring, u.next_free, sv, en, ar, om)
  BY <1>1 DEF Reco
<1>3. OwnersOf(u.ring, u.next_free, sv, own)
  BY <1>1 DEF OwnersOf
<1> QED BY <1>1, <1>2, <1>3 DEF Sync

\* The heap that a savepoint holds is the one given, of the objects in own.
Holds(c, own, en, ar, om) ==
  \A o \in Objects : c.image[o] # NoObject =>
    /\ o \in own
    /\ c.image[o] = ImageOf(en, ar, om, o)

\* Lemma: a heap that a savepoint holds needs no record.
LEMMA HeldNow ==
  ASSUME NEW ring, NEW f, NEW e, NEW c, NEW en, NEW ar, NEW om, NEW own, Heap(en, ar, om),
         Past(f, e, c.first) = {}, Holds(c, own, en, ar, om),
         \A o \in Objects, p \in Props : en[o][p].val # EmptyMod
  PROVE  RecoAt(ring, f, e, c, en, ar, om)
<1>1. PICK S : S = Past(f, e, c.first)
  OBVIOUS
<1>2. S = {}
  BY <1>1
<1>3. ASSUME NEW o \in Objects
      PROVE  /\ c.image[o] # NoObject => Rec(ring, c.first, S, en, ar, om, o) = c.image[o]
             /\ \A p \in Props : ValOf(ring, c.first, S, en, o, p) # EmptyMod
  <2>1. c.image[o] # NoObject => Rec(ring, c.first, {}, en, ar, om, o) = c.image[o]
    <3>1. Rec(ring, c.first, {}, en, ar, om, o) = ImageOf(en, ar, om, o)
      BY RecNothing
    <3> QED BY <3>1 DEF Holds
  <2>2. \A p \in Props : ValOf(ring, c.first, S, en, o, p) = en[o][p].val
    BY <1>2, NothingVal
  <2> QED BY <1>2, <2>1, <2>2
<1> QED BY <1>1, <1>2, <1>3 DEF RecoAt

\* What the newest n savepoints w of h are.
Remaining(h, n, w) ==
  /\ Len(w) = n /\ FirstsOf(w) = Newest(FirstsOf(h), n) /\ Len(FirstsOf(w)) = n
  /\ \A i \in 1 .. n : w[i] = h[Len(h) - n + i] /\ FirstsOf(w)[i] = w[i].first

\* Lemma: they are.
LEMMA NewestRemain ==
  ASSUME NEW h \in Seq(SavedType), NEW n \in 0 .. Len(h), NEW w, w = Newest(h, n)
  PROVE  Remaining(h, n, w)
  BY NewestSaved DEF Remaining

\* What the savepoints of w are, after a new one: c, and some of sv.
Created(sv, c, n, w) ==
  /\ Len(w) = n /\ w[n] = c
  /\ FirstsOf(w) = Newest(Append(FirstsOf(sv), c.first), n) /\ Len(FirstsOf(w)) = n
  /\ \A i \in 1 .. n : /\ FirstsOf(w)[i] = w[i].first
                       /\ i # n => \E j \in 1 .. Len(sv) : w[i] = sv[j]

\* Lemma: they are.
LEMMA CreatedSaved ==
  ASSUME NEW sv \in Seq(SavedType), NEW c \in SavedType, NEW n \in 1 .. (Len(sv) + 1),
         NEW w, w = Newest(Append(sv, c), n)
  PROVE  Created(sv, c, n, w)
<1>1. Append(sv, c) \in Seq(SavedType) /\ Len(Append(sv, c)) = Len(sv) + 1
      /\ \A k \in 1 .. Len(sv) : Append(sv, c)[k] = sv[k]
  OBVIOUS
<1>2. Append(sv, c)[Len(sv) + 1] = c
  OBVIOUS
<1>3. PICK h : h = Append(sv, c)
  OBVIOUS
<1>4. n \in 0 .. Len(h) /\ h \in Seq(SavedType) /\ Len(h) = Len(sv) + 1
      /\ w = Newest(h, n)
  BY <1>1, <1>3
<1>5. Remaining(h, n, w)
  BY <1>4, NewestRemain, Zenon
<1>6. FirstsOf(h) = Append(FirstsOf(sv), c.first)
  BY <1>3, FirstsAppend
<1>7. w[n] = c
  BY <1>2, <1>3, <1>4, <1>5 DEF Remaining
<1>8. ASSUME NEW i \in 1 .. n, i # n PROVE \E j \in 1 .. Len(sv) : w[i] = sv[j]
  <2>1. PICK k : k = Len(h) - n + i
    OBVIOUS
  <2>2. k \in 1 .. Len(sv)
    <3>1. Len(sv) \in Nat
      OBVIOUS
    <3> QED BY <1>4, <1>8, <2>1, <3>1
  <2>3. w[i] = h[k]
    BY <1>5, <2>1 DEF Remaining
  <2> QED BY <1>1, <1>3, <2>2, <2>3
<1>9. /\ Len(w) = n /\ FirstsOf(w) = Newest(FirstsOf(h), n) /\ Len(FirstsOf(w)) = n
      /\ \A i \in 1 .. n : FirstsOf(w)[i] = w[i].first
  BY <1>5 DEF Remaining
<1> QED BY <1>6, <1>7, <1>8, <1>9 DEF Created

\* Lemma: a savepoint that finds a record: it and the older ones that remain
\* can be brought back.
LEMMA SyncCreate ==
  ASSUME NEW u, NEW sv, NEW own, NEW en, NEW ar, NEW om, Sync(u, sv, own, en, ar, om),
         alloc_rec(u).rec # Null, NEW v, v = create_savept(u),
         NEW c \in SavedType, c.first = v.cur_first,
         NEW w, w = Newest(Append(sv, c), v.savept_cnt), RingInv(v, FirstsOf(w)),
         NEW new, SameValues(en, new), Heap(new, ar, om),
         NEW all, own \subseteq all, Holds(c, all, new, ar, om),
         \A o \in Objects, p \in Props : new[o][p].val # EmptyMod
  PROVE  Sync(v, w, all, new, ar, om)
<1>1. /\ sv \in Seq(SavedType) /\ Len(sv) = u.savept_cnt /\ RingInv(u, FirstsOf(sv))
      /\ Reco(u.ring, u.next_free, sv, en, ar, om)
      /\ OwnersOf(u.ring, u.next_free, sv, own)
  BY DEF Sync
<1>2. PICK f : f = FirstsOf(sv)
  OBVIOUS
<1>3. PICK g : g = FirstsOf(w)
  OBVIOUS
<1>4. PICK n : n = v.savept_cnt
  OBVIOUS
<1>5. f \in Seq(Slots) /\ Len(f) = Len(sv) /\ RingInv(u, f) /\ Linked(Cell, u, f)
      /\ u.savept_cnt <= MaxSavepts /\ RingInv(v, g) /\ Linked(Cell, v, g)
  BY <1>1, <1>2, <1>3, FirstsType DEF RingInv
<1>6. n \in 1 .. (Len(sv) + 1) /\ v.cur_first \in Slots
  BY <1>4, <1>5, CellFacts, CreateLinked
<1>7. PICK r : r = u.next_free
  OBVIOUS
<1>8. r \in Slots /\ v.cur_first = r /\ v.next_free = inc_rec_ptr(r) /\ c.first = r
  BY <1>5, <1>6, <1>7, CreateSlot
<1>9. /\ Len(w) = n /\ w[n] = c /\ g = Newest(Append(f, r), n) /\ Len(g) = n
      /\ \A i \in 1 .. n : g[i] = w[i].first /\ (i # n => \E j \in 1 .. Len(sv) : w[i] = sv[j])
  <2>1. w = Newest(Append(sv, c), n)
    BY <1>4
  <2>2. Created(sv, c, n, w)
    BY <1>1, <1>6, <2>1, CreatedSaved
  <2> QED BY <1>2, <1>3, <1>8, <2>2 DEF Created
<1>10. ASSUME NEW i \in 1 .. n, i # n
       PROVE  /\ RecoAt(v.ring, g, inc_rec_ptr(r), w[i], new, ar, om)
              /\ \A s \in Past(g, inc_rec_ptr(r), w[i].first) : v.ring[s].obj \in own
              /\ \A o \in Objects : w[i].image[o] # NoObject => o \in own
  <2>1. PICK j \in 1 .. Len(sv) : w[i] = sv[j]
    BY <1>9, <1>10
  <2>2. PICK d : d = w[i]
    OBVIOUS
  <2>3. g[i] = d.first /\ d = sv[j] /\ i \in 1 .. Len(g)
    BY <1>9, <2>1, <2>2
  <2>4. d.first # r
    <3>1. n \in 1 .. n /\ i < n
      BY <1>6, <1>10
    <3>2. Dist(g[1], g[i]) < Dist(g[1], g[n]) /\ g[n] = r
      <4>1. \A a, b \in 1 .. Len(g) : a < b => Dist(g[1], g[a]) < Dist(g[1], g[b])
        BY <1>5 DEF Linked, RingOK
      <4>2. g[n] = r
        BY <1>8, <1>9, <3>1
      <4> QED BY <1>9, <3>1, <4>1, <4>2
    <3>3. Dist(g[1], g[n]) \in Int
      <4>1. g \in Seq(Slots) /\ 1 \in 1 .. Len(g) /\ n \in 1 .. Len(g)
        BY <1>5, <1>9, <3>1 DEF Linked
      <4>2. g[1] \in Slots /\ g[n] \in Slots
        BY <4>1
      <4> QED BY <4>2, DistType
    <3> QED BY <2>3, <3>2, <3>3
  <2>5. KeepsAt(u.ring, f, r, v.ring, g, inc_rec_ptr(r), d.first)
    <3>1. g = Newest(Append(f, v.cur_first), v.savept_cnt) /\ g[i] # v.cur_first
      BY <1>4, <1>8, <1>9, <2>3, <2>4
    <3>2. KeepsAt(u.ring, f, u.next_free, v.ring, g, v.next_free, g[i])
      BY <1>5, <2>3, <3>1, CreateKeeps
    <3> QED BY <1>7, <1>8, <2>3, <3>2
  <2>6. RecoAt(u.ring, f, r, d, en, ar, om)
    BY <1>1, <1>2, <1>7, <2>3 DEF Reco
  <2>7. RecoAt(v.ring, g, inc_rec_ptr(r), d, new, ar, om)
    BY <2>5, <2>6, RecoAtKeeps
  <2>8. /\ \A s \in Past(f, r, d.first) : u.ring[s].obj \in own
        /\ \A o \in Objects : d.image[o] # NoObject => o \in own
    BY <1>1, <1>2, <1>7, <2>3 DEF OwnersOf
  <2>9. \A s \in Past(g, inc_rec_ptr(r), d.first) : v.ring[s].obj \in own
    BY <2>5, <2>8 DEF KeepsAt
  <2> QED BY <2>2, <2>7, <2>8, <2>9
<1>11. Past(g, inc_rec_ptr(r), c.first) = {}
  BY <1>8, PastLast
<1>12. RecoAt(v.ring, g, inc_rec_ptr(r), c, new, ar, om)
  BY <1>11, HeldNow
<1>13. Reco(v.ring, inc_rec_ptr(r), w, new, ar, om)
  BY <1>3, <1>9, <1>10, <1>12 DEF Reco
<1>14. OwnersOf(v.ring, inc_rec_ptr(r), w, all)
  <2>1. ASSUME NEW i \in 1 .. n
        PROVE  /\ \A s \in Past(g, inc_rec_ptr(r), w[i].first) : v.ring[s].obj \in all
               /\ \A o \in Objects : w[i].image[o] # NoObject => o \in all
    <3>1. CASE i # n
      BY <1>10, <3>1
    <3>2. CASE i = n
      <4>1. w[i] = c
        BY <1>9, <3>2
      <4> QED BY <1>11, <4>1 DEF Holds
    <3> QED BY <3>1, <3>2
  <2> QED BY <1>3, <1>9, <2>1 DEF OwnersOf
<1>15. w \in Seq(SavedType)
  <2>1. Append(sv, c) \in Seq(SavedType) /\ Len(Append(sv, c)) = Len(sv) + 1
    BY <1>1
  <2>2. n \in 0 .. Len(Append(sv, c))
    BY <1>6, <2>1
  <2> QED BY <1>4, <2>1, <2>2, NewestFacts
<1> QED BY <1>3, <1>4, <1>5, <1>8, <1>9, <1>13, <1>14, <1>15 DEF Sync

\* Lemma: the flags that a savepoint clears.
LEMMA NotifyClears ==
  ASSUME HeapOK, notify_new_savept, live' = live
  PROVE  /\ SameValues(entry, entry') /\ (Owned)' = live \ TransientObjects
         /\ \A o \in live, p \in Props : entry'[o][p].undo = FALSE
<1>1. \A o \in Objects : entry'[o] = IF o \notin live THEN entry[o]
        ELSE [p \in Props |-> Entry(entry[o][p].val, entry[o][p].mod, FALSE)]
  BY DEF notify_new_savept
<1>2. live \subseteq Objects
  BY DEF HeapOK
<1>3. ASSUME NEW o \in Objects, NEW p \in Props
      PROVE  /\ entry[o][p].val = entry'[o][p].val /\ entry[o][p].mod = entry'[o][p].mod
             /\ o \in live => entry'[o][p].undo = FALSE
  <2>1. CASE o \notin live
    BY <1>1, <2>1
  <2>2. CASE o \in live
    <3>1. entry'[o][p] = Entry(entry[o][p].val, entry[o][p].mod, FALSE)
      BY <1>1, <2>2
    <3> QED BY <3>1 DEF Entry
  <2> QED BY <2>1, <2>2
<1>4. (Owned)' = live \ TransientObjects
  BY <1>2 DEF Owned, notify_new_savept
<1> QED BY <1>2, <1>3, <1>4 DEF SameValues

\* Lemma: at rest with the flags cleared, no entry claims a record.
LEMMA ClearedRest ==
  ASSUME NEW u, NEW sv, NEW lv, lv \subseteq Objects, NEW own, own \subseteq lv,
         NEW en, NEW new, NEW ar, NEW om, Heap(new, ar, om), SameValues(en, new),
         \A o \in lv, p \in Props : new[o][p].undo = FALSE,
         \A o \in Objects, p \in Props :
           en[o][p].val # EmptyMod /\ (en[o][p].val = Absent => ~en[o][p].mod),
         Sync(u, sv, own, new, ar, om)
  PROVE  Resting(u, sv, lv, own, new, ar, om)
<1>1. Claims(u, sv, own, new)
  BY DEF Claims
<1>2. Plain(new, lv)
  BY DEF Plain, SameValues
<1> QED BY <1>1, <1>2 DEF Resting

\* Lemma: savepoint().
LEMMA CreateSaveptRest ==
  ASSUME Inv, RecoveryInv, CreateSavept, Inv'
  PROVE  Resting(undo', saved', live', (Owned)', entry', entry_arr', obj_mod')
<1>1. /\ Resting(undo, saved, live, Owned, entry, entry_arr, obj_mod) /\ HeapOK
      /\ live' = live /\ obj_mod' = obj_mod /\ entry_arr' = entry_arr
      /\ undo' = create_savept(undo)
  BY RestFromInv, HeapFromInv DEF CreateSavept
<1>2. /\ Owned \subseteq live /\ live \subseteq Objects
      /\ Sync(undo, saved, Owned, entry, entry_arr, obj_mod)
      /\ Claims(undo, saved, Owned, entry) /\ Plain(entry, live)
      /\ saved \in Seq(SavedType) /\ Len(saved) = undo.savept_cnt
      /\ RingInv(undo, FirstsOf(saved))
  BY <1>1 DEF Resting, Sync
<1>3. /\ RingInv(undo', FirstsOf(saved')) /\ saved' \in Seq(SavedType)
      /\ Len(saved') = undo'.savept_cnt /\ Heap(entry', entry_arr', obj_mod')
  BY InvNextFacts
<1>4. CASE alloc_rec(undo).rec = Null
  <2>1. saved' = << >> /\ entry' = entry /\ in_undo' = in_undo
    BY <1>4 DEF CreateSavept
  <2>2. (Owned)' = Owned
    BY <1>1, <2>1 DEF Owned
  <2>3. undo'.savept_cnt = 0
    BY <1>3, <2>1
  <2>4. Sync(undo', saved', Owned, entry', entry_arr', obj_mod')
    BY <1>3, <2>1, <2>3, SyncNone
  <2>5. Claims(undo', saved', Owned, entry')
    BY <2>1 DEF Claims, HasRecord
  <2>6. Plain(entry', live')
    BY <1>1, <1>2, <2>1
  <2> QED BY <1>1, <1>2, <1>3, <2>2, <2>4, <2>5, <2>6 DEF Resting
<1>5. CASE alloc_rec(undo).rec # Null
  <2>1. PICK c : c = [first |-> undo'.cur_first, image |-> HeapImage]
    OBVIOUS
  <2>2. notify_new_savept /\ saved' = Newest(Append(saved, c), undo'.savept_cnt)
    BY <1>5, <2>1 DEF CreateSavept
  <2>3. /\ SameValues(entry, entry') /\ (Owned)' = live \ TransientObjects
        /\ \A o \in live, p \in Props : entry'[o][p].undo = FALSE
    BY <1>1, <2>2, NotifyClears
  <2>4. PICK all : all = live \ TransientObjects
    OBVIOUS
  <2>5. undo'.cur_first \in Slots
    <3>1. Linked(Cell, undo, FirstsOf(saved)) /\ undo.savept_cnt <= MaxSavepts
      BY <1>2 DEF RingInv
    <3> QED BY <1>1, <1>5, <3>1, CellFacts, CreateLinked
  <2>6. c \in SavedType /\ c.first = undo'.cur_first /\ c.image = HeapImage
    BY <1>1, <2>1, <2>5, HeapImageType DEF SavedType
  <2>7. Holds(c, all, entry', entry_arr, obj_mod)
    <3>1. ASSUME NEW o \in Objects, c.image[o] # NoObject
          PROVE  o \in all /\ c.image[o] = ImageOf(entry', entry_arr, obj_mod, o)
      <4>1. c.image[o] = IF o \in live \ TransientObjects THEN Image(o) ELSE NoObject
        BY <2>6 DEF HeapImage
      <4>2. o \in all /\ c.image[o] = Image(o)
        BY <2>4, <3>1, <4>1
      <4>3. Image(o) = ImageOf(entry, entry_arr, obj_mod, o)
        BY DEF Image, ImageOf
      <4>4. \A p \in Props : entry[o][p].val = entry'[o][p].val
                             /\ entry[o][p].mod = entry'[o][p].mod
        BY <2>3 DEF SameValues
      <4>5. ImageOf(entry, entry_arr, obj_mod, o) = ImageOf(entry', entry_arr, obj_mod, o)
        BY <4>4 DEF ImageOf
      <4> QED BY <4>2, <4>3, <4>5
    <3> QED BY <3>1 DEF Holds
  <2>8. \A o \in Objects, p \in Props :
          /\ entry[o][p].val # EmptyMod /\ (entry[o][p].val = Absent => ~entry[o][p].mod)
          /\ entry'[o][p].val # EmptyMod
    BY <1>2, <2>3 DEF Plain, SameValues
  <2>9. Owned \subseteq all /\ all \subseteq live
    BY <1>2, <2>4 DEF Owned
  <2>10. Sync(undo', saved', all, entry', entry_arr, obj_mod)
    <3>1. Heap(entry', entry_arr, obj_mod) /\ \A o \in Objects, p \in Props : entry'[o][p].val # EmptyMod
      BY <1>1, <1>3, <2>8
    <3> QED BY <1>1, <1>2, <1>3, <1>5, <2>2, <2>3, <2>6, <2>7, <2>9, <3>1, SyncCreate
  <2>11. Resting(undo', saved', live, all, entry', entry_arr, obj_mod)
    <3>1. Heap(entry', entry_arr, obj_mod)
      BY <1>1, <1>3
    <3>2. \A o \in Objects, p \in Props :
            entry[o][p].val # EmptyMod /\ (entry[o][p].val = Absent => ~entry[o][p].mod)
      BY <2>8
    <3> QED BY <1>2, <2>3, <2>9, <2>10, <3>1, <3>2, ClearedRest
  <2> QED BY <1>1, <2>3, <2>4, <2>11
<1> QED BY <1>4, <1>5

\* Lemma: a reset.
LEMMA ResetRest ==
  ASSUME Inv, RecoveryInv, Reset, Inv'
  PROVE  Resting(undo', saved', live', (Owned)', entry', entry_arr', obj_mod')
<1>1. Resting(undo, saved, live, Owned, entry, entry_arr, obj_mod) /\ Plain(entry, live)
  BY RestFromInv DEF Reset, Resting
<1>2. /\ RingInv(undo', FirstsOf(saved')) /\ Len(saved') = undo'.savept_cnt
      /\ live' \subseteq Objects /\ Heap(entry', entry_arr', obj_mod') /\ saved' = << >>
      /\ live' \subseteq live
  BY InvNextFacts DEF Reset
<1>3. PICK own : own = (Owned)'
  OBVIOUS
<1>4. own \subseteq live'
  BY <1>3 DEF Owned
<1>5. undo'.savept_cnt = 0
  BY <1>2
<1>6. Sync(undo', saved', own, entry', entry_arr', obj_mod')
  BY <1>2, <1>5, SyncNone
<1>7. Claims(undo', saved', own, entry')
  BY <1>2 DEF Claims, HasRecord
<1>8. Plain(entry', live')
  <2>1. ASSUME NEW o \in Objects, NEW p \in Props
        PROVE  /\ entry'[o][p].val # EmptyMod /\ (entry'[o][p].val = Absent => ~entry'[o][p].mod)
               /\ o \in live' /\ entry'[o][p].undo
                    => entry'[o][p].mod /\ entry'[o][p].val # Absent
    <3>1. CASE o \in ImageObjects
      <4>1. entry'[o][p] = ImageEntries[p]
        BY <3>1 DEF Reset
      <4>2. ImageEntries[p] = Entry(ImageVal, FALSE, FALSE) \/ ImageEntries[p] = NoEntry
        BY DEF ImageEntries
      <4>3. entry'[o][p].val \in {ImageVal, Absent} /\ entry'[o][p].mod = FALSE
            /\ entry'[o][p].undo = FALSE
        BY <4>1, <4>2 DEF Entry, NoEntry
      <4> QED BY <4>3, ValueAssumption DEF Empties
    <3>2. CASE o \notin ImageObjects
      <4>1. entry'[o] = entry[o]
        BY <3>2 DEF Reset
      <4> QED BY <1>1, <1>2, <4>1 DEF Plain
    <3> QED BY <3>1, <3>2
  <2> QED BY <1>2, <2>1 DEF Plain
<1> QED BY <1>2, <1>3, <1>4, <1>6, <1>7, <1>8 DEF Resting

-----------------------------------------------------------------------------
\* RecoveryInv while the undo loop runs, of the states it is about: the records
\* up to slot e are still to be applied.
Undoing(u, e, sv, own, en, ar, om) ==
  /\ sv \in Seq(SavedType) /\ Len(sv) = u.savept_cnt /\ u.savept_cnt > 0
  /\ RingInv(u, FirstsOf(sv)) /\ EndOK(u, e) /\ Heap(en, ar, om)
  /\ Reco(u.ring, e, sv, en, ar, om) /\ OwnersOf(u.ring, e, sv, own)
  /\ \A o \in Objects, p \in Props : en[o][p].val = Absent => ~en[o][p].mod

\* Lemma: the invariants give it.
LEMMA UndoingFromInv ==
  ASSUME Inv, RecoveryInv, ~Idle
  PROVE  Undoing(undo, meta, saved, Owned, entry, entry_arr, obj_mod)
<1>1. RingInv(undo, FirstsOf(saved)) /\ saved \in Seq(SavedType)
      /\ Len(saved) = undo.savept_cnt /\ Heap(entry, entry_arr, obj_mod)
  BY InvFacts
<1>2. HeapOK /\ LoopOK
  BY HeapFromInv
<1>3. Top = meta /\ meta \in Slots
  BY <1>2 DEF Top, HeapOK, Pointers, Idle
<1>4. undo.savept_cnt > 0 /\ EndOK(undo, meta)
  BY <1>2, <1>3 DEF LoopOK, EndOK
<1>5. Reco(undo.ring, meta, saved, entry, entry_arr, obj_mod)
      /\ OwnersOf(undo.ring, meta, saved, Owned)
  BY <1>3 DEF RecoveryInv, Owners, OwnersOf
<1>6. \A o \in Objects, p \in Props : entry[o][p].val = Absent => ~entry[o][p].mod
  BY DEF RecoveryInv, EntriesOK
<1> QED BY <1>1, <1>4, <1>5, <1>6 DEF Undoing

\* Lemma: and it gives the invariant.
LEMMA UndoingMakesRecovery ==
  ~Idle /\ Undoing(undo, meta, saved, Owned, entry, entry_arr, obj_mod) => RecoveryInv
<1> SUFFICES ASSUME ~Idle, Undoing(undo, meta, saved, Owned, entry, entry_arr, obj_mod)
             PROVE  RecoveryInv
  OBVIOUS
<1>1. Top = meta
  BY DEF Top
<1>2. /\ Reco(undo.ring, meta, saved, entry, entry_arr, obj_mod)
      /\ OwnersOf(undo.ring, meta, saved, Owned)
      /\ \A o \in Objects, p \in Props : entry[o][p].val = Absent => ~entry[o][p].mod
  BY DEF Undoing
<1>3. Owners
  BY <1>1, <1>2 DEF Owners, OwnersOf
<1>4. EntriesOK
  BY <1>2 DEF EntriesOK
<1> QED BY <1>1, <1>2, <1>3, <1>4 DEF RecoveryInv

\* Lemma: the same of the next state.
LEMMA UndoingMakesRecoveryNext ==
  ASSUME ~Idle', Undoing(undo', meta', saved', (Owned)', entry', entry_arr', obj_mod')
  PROVE  RecoveryInv'
<1>1. (~Idle /\ Undoing(undo, meta, saved, Owned, entry, entry_arr, obj_mod))' => RecoveryInv'
  BY UndoingMakesRecovery, PTL
<1> QED BY <1>1

\* Lemma: the loop starts at the end of the records.
LEMMA UndoBeginUndoing ==
  ASSUME Inv, RecoveryInv, UndoBegin
  PROVE  ~Idle' /\ Undoing(undo', meta', saved', (Owned)', entry', entry_arr', obj_mod')
<1>1. Resting(undo, saved, live, Owned, entry, entry_arr, obj_mod)
  BY RestFromInv DEF UndoBegin
<1>2. /\ meta' = undo.next_free /\ undo' = undo /\ saved' = saved /\ entry' = entry
      /\ entry_arr' = entry_arr /\ obj_mod' = obj_mod /\ (Owned)' = Owned
      /\ undo.savept_cnt > 0
  BY DEF UndoBegin, heap, Owned
<1>3. /\ Heap(entry, entry_arr, obj_mod) /\ Plain(entry, live)
      /\ saved \in Seq(SavedType) /\ Len(saved) = undo.savept_cnt
      /\ RingInv(undo, FirstsOf(saved))
      /\ Reco(undo.ring, undo.next_free, saved, entry, entry_arr, obj_mod)
      /\ OwnersOf(undo.ring, undo.next_free, saved, Owned)
  BY <1>1 DEF Resting, Sync
<1>4. EndOK(undo, undo.next_free)
  BY <1>2, <1>3, FreeEnd DEF RingInv
<1>5. \A o \in Objects, p \in Props : entry[o][p].val = Absent => ~entry[o][p].mod
  BY <1>3 DEF Plain
<1>6. Undoing(undo, undo.next_free, saved, Owned, entry, entry_arr, obj_mod)
  BY <1>2, <1>3, <1>4, <1>5 DEF Undoing
<1>7. ~Idle'
  <2>1. undo.next_free \in Slots
    BY <1>4 DEF EndOK
  <2> QED BY <1>2, <2>1, NullNotSlot DEF Idle
<1> QED BY <1>2, <1>6, <1>7

\* Lemma: what remains recoverable when the newest record is applied, and what
\* the record finds.
LEMMA ApplyUndoing ==
  ASSUME NEW u, NEW e, NEW sv, NEW own, NEW en, NEW ar, NEW om,
         Undoing(u, e, sv, own, en, ar, om), dec_rec_ptr(e) # u.cur_first,
         NEW t, t = dec_rec_ptr(e), NEW x, x = u.ring[t]
  PROVE  /\ x \in UndoRecord /\ t \in Slots
         /\ Applicable(x, en[x.obj][x.prop].val, ar[x.obj])
         /\ Reco(u.ring, t, sv, ApplyEntry(x, en), ApplyOrder(x, ar), ApplyObj(x, om))
         /\ OwnersOf(u.ring, t, sv, own)
<1>1. PICK f : f = FirstsOf(sv)
  OBVIOUS
<1>2. /\ RingInv(u, f) /\ Len(f) = Len(sv) /\ EndOK(u, e) /\ Heap(en, ar, om)
      /\ \A i \in 1 .. Len(sv) : f[i] = sv[i].first
      /\ Len(sv) \in 1 .. Len(sv) /\ Linked(Cell, u, f)
  <2>1. sv \in Seq(SavedType) /\ Len(sv) > 0 /\ RingInv(u, f) /\ EndOK(u, e)
        /\ Heap(en, ar, om)
    BY <1>1 DEF Undoing
  <2>2. Len(f) = Len(sv)
    BY <1>1, <2>1, FirstsType
  <2>3. Len(sv) \in 1 .. Len(sv)
    BY <2>1
  <2>4. \A i \in 1 .. Len(sv) : f[i] = sv[i].first
    BY <1>1 DEF FirstsOf
  <2>5. Linked(Cell, u, f)
    BY <2>1 DEF RingInv
  <2> QED BY <2>1, <2>2, <2>3, <2>4, <2>5
<1>3. ASSUME NEW i \in 1 .. Len(sv)
      PROVE  /\ GrowsAt(u.ring, f, t, u.ring, f, e, sv[i].first, t)
             /\ x \in UndoRecord /\ t \in Past(f, e, sv[i].first)
  <2>1. i \in 1 .. Len(f) /\ f[i] = sv[i].first
    BY <1>2
  <2>2. /\ GrowsAt(u.ring, f, t, u.ring, f, e, f[i], t)
        /\ u.ring[t] \in UndoRecord /\ t \in Past(f, e, f[i])
    BY <1>2, <2>1, DecGrows
  <2> QED BY <2>1, <2>2
<1>4. x \in UndoRecord /\ t \in Slots
  <2>1. GrowsAt(u.ring, f, t, u.ring, f, e, sv[Len(sv)].first, t) /\ x \in UndoRecord
    BY <1>2, <1>3
  <2> QED BY <2>1 DEF GrowsAt
<1>5. ASSUME NEW i \in 1 .. Len(sv)
      PROVE  /\ RecoAt(u.ring, f, t, sv[i], ApplyEntry(x, en), ApplyOrder(x, ar),
                       ApplyObj(x, om))
             /\ Applicable(x, en[x.obj][x.prop].val, ar[x.obj])
  <2>1. RecoAt(u.ring, f, e, sv[i], en, ar, om)
    BY <1>1 DEF Undoing, Reco
  <2>2. PICK c : c = sv[i]
    OBVIOUS
  <2>3. GrowsAt(u.ring, f, t, u.ring, f, e, c.first, t) /\ RecoAt(u.ring, f, e, c, en, ar, om)
    BY <1>3, <2>1, <2>2
  <2>4. /\ RecoAt(u.ring, f, t, c, ApplyEntry(u.ring[t], en), ApplyOrder(u.ring[t], ar),
                  ApplyObj(u.ring[t], om))
        /\ Applicable(u.ring[t], en[u.ring[t].obj][u.ring[t].prop].val, ar[u.ring[t].obj])
    BY <1>2, <1>4, <2>3, RecoAtPeel
  <2> QED BY <2>2, <2>4
<1>6. OwnersOf(u.ring, t, sv, own)
  <2>1. ASSUME NEW i \in 1 .. Len(sv)
        PROVE  Past(f, t, sv[i].first) \subseteq Past(f, e, sv[i].first)
    BY <1>3, <2>1 DEF GrowsAt
  <2>2. OwnersOf(u.ring, e, sv, own)
    BY DEF Undoing
  <2> QED BY <1>1, <2>1, <2>2 DEF OwnersOf
<1>7. Reco(u.ring, t, sv, ApplyEntry(x, en), ApplyOrder(x, ar), ApplyObj(x, om))
  BY <1>1, <1>5 DEF Reco
<1>8. Applicable(x, en[x.obj][x.prop].val, ar[x.obj])
  BY <1>2, <1>5
<1> QED BY <1>4, <1>6, <1>7, <1>8

\* Lemma: apply_undo is the application of the record.
LEMMA ApplyUndoIs ==
  ASSUME NEW x, apply_undo(x)
  PROVE  /\ entry' = ApplyEntry(x, entry) /\ entry_arr' = ApplyOrder(x, entry_arr)
         /\ obj_mod' = ApplyObj(x, obj_mod)
<1>1. CASE x.prop = InvalidProp
  BY <1>1 DEF apply_undo, ApplyEntry, ApplyOrder, ApplyObj
<1>2. CASE x.prop # InvalidProp /\ x.oldval = EmptyNew
  <2>1. entry' = [entry EXCEPT ![x.obj][x.prop] = NoEntry] /\ obj_mod' = obj_mod
        /\ entry_arr' = [entry_arr EXCEPT ![x.obj] =
                           SubSeq(entry_arr[x.obj], 1, Len(entry_arr[x.obj]) - 1)]
    BY <1>2 DEF apply_undo
  <2> QED BY <1>2, <2>1 DEF ApplyEntry, ApplyOrder, ApplyObj
<1>3. CASE x.prop # InvalidProp /\ x.oldval # EmptyNew
  <2>1. entry' = [entry EXCEPT ![x.obj][x.prop] =
                    Entry(x.oldval, entry[x.obj][x.prop].mod /\ x.oldval # EmptyMod,
                          entry[x.obj][x.prop].undo)]
        /\ obj_mod' = obj_mod /\ entry_arr' = entry_arr
    BY <1>3 DEF apply_undo
  <2> QED BY <1>3, <2>1 DEF ApplyEntry, ApplyOrder, ApplyObj
<1> QED BY <1>1, <1>2, <1>3

\* Lemma: a turn of the loop.
LEMMA UndoApplyUndoing ==
  ASSUME Inv, RecoveryInv, UndoApply, Inv'
  PROVE  ~Idle' /\ Undoing(undo', meta', saved', (Owned)', entry', entry_arr', obj_mod')
<1>1. Undoing(undo, meta, saved, Owned, entry, entry_arr, obj_mod)
      /\ dec_rec_ptr(meta) # undo.cur_first
  BY UndoingFromInv DEF UndoApply
<1>2. PICK t : t = dec_rec_ptr(meta)
  OBVIOUS
<1>3. PICK x : x = undo.ring[t]
  OBVIOUS
<1>4. /\ undo' = undo /\ saved' = saved /\ meta' = t /\ (Owned)' = Owned
      /\ entry' = ApplyEntry(x, entry) /\ entry_arr' = ApplyOrder(x, entry_arr)
      /\ obj_mod' = ApplyObj(x, obj_mod)
  <2>1. apply_undo(x)
    BY <1>2, <1>3 DEF UndoApply, Current
  <2> QED BY <1>2, <2>1, ApplyUndoIs DEF UndoApply, Owned
<1>5. /\ x \in UndoRecord /\ t \in Slots
      /\ Applicable(x, entry[x.obj][x.prop].val, entry_arr[x.obj])
      /\ Reco(undo.ring, t, saved, ApplyEntry(x, entry), ApplyOrder(x, entry_arr),
              ApplyObj(x, obj_mod))
      /\ OwnersOf(undo.ring, t, saved, Owned)
  BY <1>1, <1>2, <1>3, ApplyUndoing
<1>6. t # Null
  BY <1>5, NullNotSlot
<1>7. EndOK(undo, t) /\ Heap(entry', entry_arr', obj_mod')
  <2>1. HeapOK' /\ LoopOK' /\ Heap(entry', entry_arr', obj_mod')
    <3>1. (Inv)' => (HeapOK /\ LoopOK)'
      BY HeapFromInv, PTL
    <3> QED BY <3>1, InvNextFacts
  <2> QED BY <1>4, <1>5, <1>6, <2>1 DEF LoopOK, EndOK, Idle
<1>8. \A o \in Objects, p \in Props : entry'[o][p].val = Absent => ~entry'[o][p].mod
  <2>1. entry \in [Objects -> [Props -> EntryType]]
        /\ \A o \in Objects, p \in Props : entry[o][p].val = Absent => ~entry[o][p].mod
    BY <1>1 DEF Undoing, Heap
  <2>2. ASSUME NEW o \in Objects, NEW p \in Props, entry'[o][p].val = Absent
        PROVE  ~entry'[o][p].mod
    <3>1. CASE ~(x.obj = o /\ x.prop = p)
      <4>1. entry'[o][p] = entry[o][p]
        BY <1>4, <1>5, <2>1, <3>1, ApplyEntryFacts
      <4> QED BY <2>1, <2>2, <4>1
    <3>2. CASE x.obj = o /\ x.prop = p
      <4>1. x.prop # InvalidProp /\ x.oldval # Absent
        BY <1>5, <3>2, RecordFacts, ValueAssumption
      <4>2. /\ entry'[o][p].val = IF x.oldval = EmptyNew THEN Absent ELSE x.oldval
            /\ entry'[o][p].mod <=> entry[o][p].mod /\ x.oldval \notin Empties
        BY <1>4, <1>5, <2>1, <3>2, <4>1, ApplyEntryFacts
      <4> QED BY <2>2, <4>1, <4>2 DEF Empties
    <3> QED BY <3>1, <3>2
  <2> QED BY <2>2
<1>9. Undoing(undo, t, saved, Owned, entry', entry_arr', obj_mod')
  BY <1>1, <1>4, <1>5, <1>7, <1>8 DEF Undoing
<1>10. ~Idle'
  BY <1>4, <1>6 DEF Idle
<1> QED BY <1>4, <1>9, <1>10

-----------------------------------------------------------------------------
\* Lemma: the end of an undo leaves the records since the older savepoints.
LEMMA UnwindKeeps ==
  ASSUME NEW u, NEW f, RingInv(u, f), f # << >>, NEW v, v = unwind(u),
         NEW g, g = SubSeq(f, 1, Len(f) - 1), NEW i \in 1 .. Len(g)
  PROVE  /\ KeepsAt(u.ring, f, inc_rec_ptr(u.cur_first), v.ring, g, v.next_free, g[i])
         /\ i \in 1 .. Len(f) /\ g[i] = f[i]
<1>1. Linked(Cell, u, f) /\ Records(u, f) /\ f \in Seq(Slots)
  BY DEF RingInv, Linked
<1>2. Linked(Cell, v, g) /\ Kept(u, f, v, g, Null)
  BY <1>1, CellFacts, UnwindLinked
<1>3. PICK c : c = u.cur_first
  OBVIOUS
<1>4. v.next_free = c
  BY <1>3 DEF unwind
<1>5. g \in Seq(Slots) /\ Len(g) = Len(f) - 1 /\ \A k \in 1 .. Len(f) - 1 : g[k] = f[k]
  BY <1>1, FrontFacts
<1>6. Len(f) \in 1 .. Len(f) /\ i \in 1 .. Len(f) /\ g[i] = f[i] /\ i < Len(f)
      /\ 1 \in 1 .. Len(f)
  <2>1. Len(f) \in Nat /\ Len(f) # 0
    BY <1>1
  <2> QED BY <1>5, <2>1
<1>7. c = f[Len(f)] /\ c \in Slots /\ IsLink(f, c)
  BY <1>1, <1>3, <1>6, LinkFacts
<1>8. PICK a : a = g[i]
  OBVIOUS
<1>9. a \in Slots /\ a # c
  <2>1. \A j, k \in 1 .. Len(f) : j < k => Dist(f[1], f[j]) < Dist(f[1], f[k])
    BY <1>1 DEF Linked, RingOK
  <2>2. Dist(f[1], a) < Dist(f[1], c) /\ a = f[i]
    BY <1>6, <1>7, <1>8, <2>1
  <2>3. f[1] \in Slots /\ a \in Slots
    BY <1>1, <1>6, <2>2
  <2>4. Dist(f[1], a) \in Int /\ Dist(f[1], c) \in Int
    BY <1>7, <2>3, DistType
  <2> QED BY <2>2, <2>3, <2>4
<1>10. \A s : IsLink(g, s) => IsLink(f, s)
  <2>1. ASSUME NEW s, NEW k \in 1 .. Len(g), g[k] = s
        PROVE  k \in 1 .. Len(f) /\ f[k] = s
    <3>1. Len(f) \in Nat /\ k \in 1 .. (Len(f) - 1)
      BY <1>1, <1>5, <2>1
    <3> QED BY <1>5, <2>1, <3>1
  <2> QED BY <2>1 DEF IsLink
<1>11. EndOK(v, c)
  <2>1. v.savept_cnt > 0
    <3>1. Len(g) = v.savept_cnt
      BY <1>2 DEF Linked, RingOK
    <3>2. PICK n : n = Len(f)
      OBVIOUS
    <3>3. n \in Nat
      BY <1>1, <3>2
    <3>4. i \in 1 .. n /\ i < n /\ Len(g) = n - 1
      BY <1>5, <1>6, <3>2
    <3>5. n - 1 > 0
      BY <3>3, <3>4
    <3> QED BY <3>1, <3>4, <3>5
  <2> QED BY <1>2, <1>4, <2>1, FreeEnd
<1>12. ASSUME NEW s \in Slots, Dist(a, s) \in 1 .. (Span(a, c) - 1)
       PROVE  InUse(v, s) /\ s # Null /\ (IsLink(g, s) => IsLink(f, s))
  <2>1. InUse(v, s)
    BY <1>2, <1>8, <1>11, <1>12, SegmentInUse
  <2> QED BY <1>10, <2>1, NullNotSlot
<1>13. KeepsAt(u.ring, f, c, v.ring, g, c, a)
  BY <1>1, <1>2, <1>7, <1>9, <1>12, KeptKeeps
<1>14. \A b \in Past(f, c, a) \union {a} : b \in Slots /\ b # c
  <2>1. ASSUME NEW b \in Past(f, c, a) PROVE b \in Slots /\ b # c
    <3>1. b \in Slots /\ Dist(a, b) \in 1 .. (Span(a, c) - 1)
      BY <2>1 DEF Past
    <3>2. Span(a, c) = Dist(a, c) /\ Dist(a, c) \in Int
      BY <1>7, <1>9, DistType DEF Span
    <3> QED BY <3>1, <3>2
  <2> QED BY <1>9, <2>1
<1>15. \A b \in Past(f, c, a) \union {a} : Past(f, inc_rec_ptr(c), b) = Past(f, c, b)
  BY <1>7, <1>14, PastIncLink
<1>16. KeepsAt(u.ring, f, inc_rec_ptr(c), v.ring, g, c, a)
  BY <1>13, <1>15 DEF KeepsAt
<1> QED BY <1>3, <1>4, <1>6, <1>8, <1>16

\* Lemma: when the loop is done, the heap is what the newest savepoint holds.
LEMMA NewestBack ==
  ASSUME NEW u, NEW e, NEW sv, NEW own, NEW en, NEW ar, NEW om,
         Undoing(u, e, sv, own, en, ar, om), dec_rec_ptr(e) = u.cur_first
  PROVE  /\ e = inc_rec_ptr(u.cur_first)
         /\ \A o \in Objects :
              /\ sv[Len(sv)].image[o] # NoObject => ImageOf(en, ar, om, o) = sv[Len(sv)].image[o]
              /\ \A p \in Props : en[o][p].val # EmptyMod
<1>1. sv \in Seq(SavedType) /\ Len(sv) > 0 /\ Len(sv) \in 1 .. Len(sv)
      /\ RingInv(u, FirstsOf(sv)) /\ e \in Slots /\ Heap(en, ar, om)
  BY DEF Undoing, EndOK
<1>2. PICK f : f = FirstsOf(sv)
  OBVIOUS
<1>3. Len(f) = Len(sv) /\ Linked(Cell, u, f)
  BY <1>1, <1>2, FirstsType DEF RingInv
<1>4. u.cur_first \in Slots /\ u.cur_first = sv[Len(sv)].first
  <2>1. Len(f) \in 1 .. Len(f)
    BY <1>1, <1>3
  <2>2. u.cur_first \in Slots /\ u.cur_first = f[Len(f)]
    BY <1>3, <2>1, LinkFacts
  <2>3. f[Len(f)] = sv[Len(sv)].first
    BY <1>1, <1>2, <1>3 DEF FirstsOf
  <2> QED BY <2>2, <2>3
<1>5. e = inc_rec_ptr(u.cur_first)
  BY <1>1, IncFacts
<1>6. PICK c : c = sv[Len(sv)]
  OBVIOUS
<1>7. RecoAt(u.ring, f, e, c, en, ar, om)
  BY <1>1, <1>2, <1>6 DEF Undoing, Reco
<1>8. Past(f, e, c.first) = {}
  BY <1>4, <1>5, <1>6, PastLast
<1>9. ASSUME NEW o \in Objects
      PROVE  /\ c.image[o] # NoObject => ImageOf(en, ar, om, o) = c.image[o]
             /\ \A p \in Props : en[o][p].val # EmptyMod
  <2>1. /\ c.image[o] # NoObject =>
             Rec(u.ring, c.first, Past(f, e, c.first), en, ar, om, o) = c.image[o]
        /\ \A p \in Props : ValOf(u.ring, c.first, Past(f, e, c.first), en, o, p) # EmptyMod
    BY <1>7 DEF RecoAt
  <2>2. Rec(u.ring, c.first, {}, en, ar, om, o) = ImageOf(en, ar, om, o)
    BY <1>1, RecNothing
  <2>3. \A p : ValOf(u.ring, c.first, {}, en, o, p) = en[o][p].val
    BY NothingVal
  <2> QED BY <1>8, <2>1, <2>2, <2>3
<1> QED BY <1>5, <1>6, <1>9

\* Lemma: the end of undo_to_savept.
LEMMA UndoEndRest ==
  ASSUME Inv, RecoveryInv, UndoEnd, Inv'
  PROVE  Resting(undo', saved', live', (Owned)', entry', entry_arr', obj_mod')
<1>1. /\ Undoing(undo, meta, saved, Owned, entry, entry_arr, obj_mod) /\ HeapOK
      /\ dec_rec_ptr(meta) = undo.cur_first /\ undo' = unwind(undo) /\ live' = live
      /\ obj_mod' = obj_mod /\ entry_arr' = entry_arr /\ notify_new_savept
  BY UndoingFromInv, HeapFromInv DEF UndoEnd
<1>2. /\ saved \in Seq(SavedType) /\ Len(saved) = undo.savept_cnt /\ Len(saved) > 0
      /\ RingInv(undo, FirstsOf(saved)) /\ Heap(entry, entry_arr, obj_mod)
      /\ Reco(undo.ring, meta, saved, entry, entry_arr, obj_mod)
      /\ OwnersOf(undo.ring, meta, saved, Owned)
      /\ \A o \in Objects, p \in Props : entry[o][p].val = Absent => ~entry[o][p].mod
  BY <1>1 DEF Undoing
<1>3. /\ RingInv(undo', FirstsOf(saved')) /\ saved' \in Seq(SavedType)
      /\ Len(saved') = undo'.savept_cnt /\ Heap(entry', entry_arr', obj_mod')
      /\ live \subseteq Objects
  BY <1>1, InvNextFacts DEF HeapOK
<1>4. /\ SameValues(entry, entry') /\ (Owned)' = live \ TransientObjects
      /\ \A o \in live, p \in Props : entry'[o][p].undo = FALSE
  BY <1>1, NotifyClears
<1>5. PICK all : all = live \ TransientObjects
  OBVIOUS
<1>6. Owned \subseteq all /\ all \subseteq live
  BY <1>5 DEF Owned
<1>7. PICK e : e = meta
  OBVIOUS
<1>8. /\ e = inc_rec_ptr(undo.cur_first)
      /\ \A o \in Objects, p \in Props : entry[o][p].val # EmptyMod
  BY <1>1, <1>7, NewestBack
<1>9. PICK f : f = FirstsOf(saved)
  OBVIOUS
<1>10. PICK sv : sv = SubSeq(saved, 1, Len(saved) - 1)
  OBVIOUS
<1>11. PICK g : g = SubSeq(f, 1, Len(f) - 1)
  OBVIOUS
<1>12. saved # << >> /\ f # << >> /\ Len(f) = Len(saved)
  <2>1. Len(f) = Len(saved)
    BY <1>2, <1>9, FirstsType
  <2>2. saved # << >>
    BY <1>2
  <2>3. f # << >>
    BY <1>2, <2>1
  <2> QED BY <2>1, <2>2, <2>3
<1>13. sv \in Seq(SavedType) /\ FirstsOf(sv) = g /\ Len(sv) = Len(saved) - 1
       /\ \A i \in 1 .. Len(sv) : sv[i] = saved[i] /\ i \in 1 .. Len(saved)
  <2>1. sv \in Seq(SavedType) /\ FirstsOf(sv) = SubSeq(FirstsOf(saved), 1, Len(saved) - 1)
    BY <1>2, <1>10, <1>12, FirstsFront
  <2>2. Len(sv) = Len(saved) - 1 /\ \A i \in 1 .. Len(saved) - 1 : sv[i] = saved[i]
    BY <1>2, <1>10, <1>12, FrontFacts
  <2>3. Len(saved) \in Nat
    BY <1>2
  <2>4. \A i \in 1 .. Len(sv) : i \in 1 .. Len(saved) - 1 /\ i \in 1 .. Len(saved)
    BY <2>2, <2>3
  <2> QED BY <1>9, <1>11, <1>12, <2>1, <2>2, <2>4
<1>14. saved' = sv
  <2>1. undo'.savept_cnt = Len(sv)
    BY <1>1, <1>2, <1>13 DEF unwind
  <2>2. saved' = Newest(sv, undo'.savept_cnt)
    BY <1>10 DEF UndoEnd
  <2> QED BY <1>13, <2>1, <2>2, NewestAll
<1>15. PICK v : v = undo'
  OBVIOUS
<1>16. ASSUME NEW i \in 1 .. Len(sv)
       PROVE  /\ KeepsAt(undo.ring, f, e, v.ring, g, v.next_free, sv[i].first)
              /\ sv[i] = saved[i] /\ i \in 1 .. Len(saved)
  <2>1. sv[i] = saved[i] /\ i \in 1 .. Len(saved)
    BY <1>13
  <2>2. i \in 1 .. Len(g) /\ g[i] = sv[i].first
    <3>1. Len(g) = Len(sv)
      BY <1>13, FirstsType
    <3> QED BY <1>13, <3>1 DEF FirstsOf
  <2>3. RingInv(undo, f) /\ v = unwind(undo)
    BY <1>1, <1>2, <1>9, <1>15
  <2>4. KeepsAt(undo.ring, f, inc_rec_ptr(undo.cur_first), v.ring, g, v.next_free, g[i])
    BY <1>11, <1>12, <2>2, <2>3, UnwindKeeps
  <2> QED BY <1>8, <2>1, <2>2, <2>4
<1>17. ASSUME NEW i \in 1 .. Len(sv)
       PROVE  /\ RecoAt(v.ring, g, v.next_free, sv[i], entry', entry_arr, obj_mod)
              /\ \A s \in Past(g, v.next_free, sv[i].first) : v.ring[s].obj \in Owned
              /\ \A o \in Objects : sv[i].image[o] # NoObject => o \in Owned
  <2>1. PICK c : c = sv[i]
    OBVIOUS
  <2>2. KeepsAt(undo.ring, f, e, v.ring, g, v.next_free, c.first) /\ c = saved[i]
        /\ i \in 1 .. Len(saved)
    BY <1>16, <2>1
  <2>3. RecoAt(undo.ring, f, e, c, entry, entry_arr, obj_mod)
    BY <1>2, <1>7, <1>9, <2>2 DEF Reco
  <2>4. RecoAt(v.ring, g, v.next_free, c, entry', entry_arr, obj_mod)
    BY <1>4, <2>2, <2>3, RecoAtKeeps
  <2>5. /\ \A s \in Past(f, e, c.first) : undo.ring[s].obj \in Owned
        /\ \A o \in Objects : c.image[o] # NoObject => o \in Owned
    BY <1>2, <1>7, <1>9, <2>2 DEF OwnersOf
  <2>6. \A s \in Past(g, v.next_free, c.first) : v.ring[s].obj \in Owned
    BY <2>2, <2>5 DEF KeepsAt
  <2> QED BY <2>1, <2>4, <2>5, <2>6
<1>18. Sync(v, sv, all, entry', entry_arr, obj_mod)
  <2>1. Reco(v.ring, v.next_free, sv, entry', entry_arr, obj_mod)
    BY <1>13, <1>17 DEF Reco
  <2>2. OwnersOf(v.ring, v.next_free, sv, all)
    BY <1>6, <1>13, <1>17 DEF OwnersOf
  <2> QED BY <1>3, <1>14, <1>15, <2>1, <2>2 DEF Sync
<1>19. Resting(v, sv, live, all, entry', entry_arr, obj_mod)
  <2>1. Heap(entry', entry_arr, obj_mod)
    BY <1>1, <1>3
  <2>2. \A o \in Objects, p \in Props :
          entry[o][p].val # EmptyMod /\ (entry[o][p].val = Absent => ~entry[o][p].mod)
    BY <1>2, <1>8
  <2> QED BY <1>3, <1>4, <1>6, <1>18, <2>1, <2>2, ClearedRest
<1> QED BY <1>1, <1>4, <1>5, <1>14, <1>15, <1>19

-----------------------------------------------------------------------------
\* Lemma: the image's heap.
LEMMA InitRecovery == Init => RecoveryInv
<1> SUFFICES ASSUME Init PROVE RecoveryInv
  OBVIOUS
<1>1. /\ Inv /\ Idle /\ saved = << >> /\ live = ImageObjects
      /\ entry = [o \in Objects |-> IF o \in ImageObjects THEN ImageEntries
                                    ELSE [p \in Props |-> NoEntry]]
  BY InitInv DEF Init, Idle
<1>2. /\ RingInv(undo, FirstsOf(saved)) /\ Len(saved) = undo.savept_cnt
      /\ live \subseteq Objects /\ Heap(entry, entry_arr, obj_mod)
  BY <1>1, InvFacts
<1>3. Owned \subseteq live
  BY DEF Owned
<1>4. undo.savept_cnt = 0
  BY <1>1, <1>2
<1>5. Sync(undo, saved, Owned, entry, entry_arr, obj_mod)
  BY <1>1, <1>2, <1>4, SyncNone
<1>6. Claims(undo, saved, Owned, entry)
  BY <1>1 DEF Claims, HasRecord
<1>7. Plain(entry, live)
  <2>1. ASSUME NEW o \in Objects, NEW p \in Props
        PROVE  /\ entry[o][p].val # EmptyMod /\ entry[o][p].mod = FALSE
               /\ entry[o][p].undo = FALSE
    <3>1. entry[o][p] = ImageEntries[p] \/ entry[o][p] = NoEntry
      BY <1>1
    <3>2. ImageEntries[p] = Entry(ImageVal, FALSE, FALSE) \/ ImageEntries[p] = NoEntry
      BY DEF ImageEntries
    <3>3. entry[o][p].val \in {ImageVal, Absent} /\ entry[o][p].mod = FALSE
          /\ entry[o][p].undo = FALSE
      BY <3>1, <3>2 DEF Entry, NoEntry
    <3> QED BY <3>3, ValueAssumption DEF Empties
  <2> QED BY <1>2, <2>1 DEF Plain
<1>8. Resting(undo, saved, live, Owned, entry, entry_arr, obj_mod)
  BY <1>2, <1>3, <1>5, <1>6, <1>7 DEF Resting
<1> QED BY <1>1, <1>8, RestMakesRecovery

\* Lemma: every step keeps the savepoints recoverable.
LEMMA NextRecovery == Inv /\ RecoveryInv /\ [Next]_vars => RecoveryInv'
<1> SUFFICES ASSUME Inv, RecoveryInv, [Next]_vars PROVE RecoveryInv'
  OBVIOUS
<1>1. Inv'
  BY NextInv
<1>2. ASSUME NEW o \in DynamicObjects, CreateObject(o) PROVE RecoveryInv'
  <2>1. Resting(undo', saved', live', (Owned)', entry', entry_arr', obj_mod')
    BY <1>2, CreateObjectRest
  <2>2. Idle'
    BY <1>2 DEF CreateObject, Idle
  <2> QED BY <2>1, <2>2, RestMakesRecoveryNext
<1>3. ASSUME NEW o \in Objects, NEW p \in Props, NEW v \in Vals, set_prop(o, p, v)
      PROVE  RecoveryInv'
  <2>1. Resting(undo', saved', live', (Owned)', entry', entry_arr', obj_mod')
    BY <1>3, SetPropRest
  <2>2. Idle'
    BY <1>3 DEF set_prop, Idle
  <2> QED BY <2>1, <2>2, RestMakesRecoveryNext
<1>4. CASE CreateSavept
  <2>1. Resting(undo', saved', live', (Owned)', entry', entry_arr', obj_mod')
    BY <1>1, <1>4, CreateSaveptRest
  <2>2. Idle'
    BY <1>4 DEF CreateSavept, Idle
  <2> QED BY <2>1, <2>2, RestMakesRecoveryNext
<1>5. CASE UndoBegin
  BY <1>5, UndoBeginUndoing, UndoingMakesRecoveryNext
<1>6. CASE UndoApply
  BY <1>1, <1>6, UndoApplyUndoing, UndoingMakesRecoveryNext
<1>7. CASE UndoEnd
  <2>1. Resting(undo', saved', live', (Owned)', entry', entry_arr', obj_mod')
    BY <1>1, <1>7, UndoEndRest
  <2>2. Idle'
    BY <1>7 DEF UndoEnd, Idle
  <2> QED BY <2>1, <2>2, RestMakesRecoveryNext
<1>8. CASE Reset
  <2>1. Resting(undo', saved', live', (Owned)', entry', entry_arr', obj_mod')
    BY <1>1, <1>8, ResetRest
  <2>2. Idle'
    BY <1>8 DEF Reset, Idle
  <2> QED BY <2>1, <2>2, RestMakesRecoveryNext
<1>9. CASE UNCHANGED vars
  <2>1. /\ undo' = undo /\ live' = live /\ obj_mod' = obj_mod /\ (Owned)' = Owned
        /\ entry' = entry /\ entry_arr' = entry_arr /\ meta' = meta /\ saved' = saved
        /\ (Idle' <=> Idle)
    BY <1>9 DEF vars, Owned, Idle
  <2>2. CASE Idle
    <3>1. Resting(undo', saved', live', (Owned)', entry', entry_arr', obj_mod')
      BY <2>1, <2>2, RestFromInv
    <3> QED BY <2>1, <2>2, <3>1, RestMakesRecoveryNext
  <2>3. CASE ~Idle
    <3>1. Undoing(undo', meta', saved', (Owned)', entry', entry_arr', obj_mod')
      BY <2>1, <2>3, UndoingFromInv
    <3> QED BY <2>1, <2>3, <3>1, UndoingMakesRecoveryNext
  <2> QED BY <2>2, <2>3
<1> QED BY <1>2, <1>3, <1>4, <1>5, <1>6, <1>7, <1>8, <1>9 DEF Next, UndoStep

\* Lemma: the inductive invariant.
LEMMA RecoveryHolds == Spec => [](Inv /\ RecoveryInv)
<1>1. Init => Inv /\ RecoveryInv
  BY InitInv, InitRecovery
<1>2. Inv /\ RecoveryInv /\ [Next]_vars => (Inv /\ RecoveryInv)'
  BY NextInv, NextRecovery
<1> QED BY <1>1, <1>2, PTL DEF Spec

\* Lemma: the records of VmUndo are those of this module.
LEMMA RecoveredIsRec ==
  ASSUME NEW i \in 1 .. Len(saved), saved \in Seq(SavedType), NEW o
  PROVE  /\ RecordsSince(i) = Past(FirstsOf(saved), Top, saved[i].first)
         /\ \A p : About(i, o, p) = Of(undo.ring, RecordsSince(i), o, p)
         /\ Recovered(i, o) = Rec(undo.ring, saved[i].first, RecordsSince(i),
                                  entry, entry_arr, obj_mod, o)
<1>1. PICK f : f = FirstsOf(saved)
  OBVIOUS
<1>2. DOMAIN saved = 1 .. Len(saved) /\ Len(f) = Len(saved)
      /\ \A j \in 1 .. Len(saved) : f[j] = saved[j].first
  BY <1>1, FirstsType DEF FirstsOf
<1>3. \A s : IsLink(f, s) <=> ~\A j \in DOMAIN saved : saved[j].first # s
  BY <1>2 DEF IsLink
<1>4. RecordsSince(i) = Past(f, Top, saved[i].first)
  BY <1>3 DEF RecordsSince, Past
<1>5. \A p : About(i, o, p) = Of(undo.ring, RecordsSince(i), o, p)
  BY DEF About, Of
<1>6. \A S : Earliest(i, S) = FirstIn(saved[i].first, S)
  BY DEF Earliest, FirstIn
<1>7. Recovered(i, o) = Rec(undo.ring, saved[i].first, RecordsSince(i),
                            entry, entry_arr, obj_mod, o)
  <2> DEFINE R == RecordsSince(i)
             a == saved[i].first
             val(p) == LET S   == About(i, o, p)
                           old == undo.ring[Earliest(i, S)].oldval
                       IN  IF S = {} THEN entry[o][p].val
                           ELSE IF old = EmptyNew THEN Absent ELSE old
             mod(p) == entry[o][p].mod
                       /\ \A s \in About(i, o, p) : undo.ring[s].oldval \notin Empties
             flag == o \in obj_mod /\ About(i, o, InvalidProp) = {}
             order == OrderOf(undo.ring, R, entry_arr, o)
  <2>1. Recovered(i, o) = [vals  |-> [p \in Props |-> [val |-> val(p), mod |-> mod(p)]],
                           order |-> order, mod |-> flag]
    BY DEF Recovered, OrderOf
  <2>2. \A p : val(p) = ValOf(undo.ring, a, R, entry, o, p)
    BY <1>5, <1>6 DEF ValOf
  <2>3. \A p : mod(p) = ModOf(undo.ring, R, entry, o, p)
    BY <1>5 DEF ModOf
  <2>4. flag = ObjModOf(undo.ring, R, obj_mod, o)
    BY <1>5 DEF ObjModOf
  <2>5. order = OrderOf(undo.ring, R, entry_arr, o)
    OBVIOUS
  <2> HIDE DEF R, a, val, mod, flag, order
  <2>6. Recovered(i, o) = Rec(undo.ring, a, R, entry, entry_arr, obj_mod, o)
    BY <2>1, <2>2, <2>3, <2>4, <2>5 DEF Rec
  <2> QED BY <2>6 DEF a, R
<1> QED BY <1>1, <1>4, <1>5, <1>7

\* Theorem: every savepoint that is still held can be brought back exactly,
\* whatever was dropped, discarded or wrapped around: values, flags and the
\* order of the entries of every object that existed and is not transient.
THEOREM SavedStatesRecoverableHolds == Spec => []SavedStatesRecoverable
<1>1. Inv /\ RecoveryInv => SavedStatesRecoverable
  <2> SUFFICES ASSUME Inv, RecoveryInv, NEW i \in DOMAIN saved, NEW o \in Objects,
                      saved[i].image[o] # NoObject
               PROVE  Recovered(i, o) = saved[i].image[o]
    BY DEF SavedStatesRecoverable
  <2>1. saved \in Seq(SavedType)
    BY InvFacts
  <2>2. i \in 1 .. Len(saved)
    BY <2>1
  <2>3. RecoAt(undo.ring, FirstsOf(saved), Top, saved[i], entry, entry_arr, obj_mod)
    BY <2>2 DEF RecoveryInv, Reco
  <2> QED BY <2>1, <2>2, <2>3, RecoveredIsRec DEF RecoAt
<1> QED BY <1>1, RecoveryHolds, PTL

\* Theorem: the assertions of CVmObjTads::apply_undo never fail: the property
\* has an entry, and the one to be taken away is the last of prop_entry_arr.
THEOREM UndoAssertionsHold == Spec => []UndoAssertions
<1>1. Inv /\ RecoveryInv => UndoAssertions
  <2> SUFFICES ASSUME Inv, RecoveryInv, ~Idle, dec_rec_ptr(meta) # undo.cur_first
               PROVE  UndoAssertions
    BY DEF UndoAssertions
  <2>1. Undoing(undo, meta, saved, Owned, entry, entry_arr, obj_mod)
    BY UndoingFromInv
  <2>2. PICK t : t = dec_rec_ptr(meta)
    OBVIOUS
  <2>3. PICK x : x = undo.ring[t]
    OBVIOUS
  <2>4. Applicable(x, entry[x.obj][x.prop].val, entry_arr[x.obj])
    BY <2>1, <2>2, <2>3, ApplyUndoing
  <2>5. Current = x
    BY <2>2, <2>3 DEF Current
  <2> QED BY <2>4, <2>5 DEF UndoAssertions, Applicable
<1> QED BY <1>1, RecoveryHolds, PTL

\* Theorem: VMTO_PROP_UNDO is never stale: an entry that skips its undo record
\* has one in the current savepoint.
THEOREM UndoFlagBackedHolds == Spec => []UndoFlagBacked
<1>1. Inv /\ RecoveryInv => UndoFlagBacked
  <2> SUFFICES ASSUME Inv, RecoveryInv, NEW o \in live, NEW p \in Props,
                      Idle, saved # << >>, is_in_undo(o), entry[o][p].undo
               PROVE  About(Len(saved), o, p) # {}
    BY DEF UndoFlagBacked
  <2>1. saved \in Seq(SavedType) /\ Len(saved) \in 1 .. Len(saved)
    <3>1. saved \in Seq(SavedType)
      BY InvFacts
    <3> QED BY <3>1
  <2>2. o \in Owned
    BY DEF Owned, is_in_undo
  <2>3. Of(undo.ring, Past(FirstsOf(saved), Top, saved[Len(saved)].first), o, p) # {}
    BY <2>2 DEF RecoveryInv, Backed
  <2> QED BY <2>1, <2>3, RecoveredIsRec
<1> QED BY <1>1, RecoveryHolds, PTL

-----------------------------------------------------------------------------
\* The refinement of UndoHistory.

\* The states that savepoints hold.
Images(sv) == [i \in 1 .. Len(sv) |-> sv[i].image]
ImageType == [Objects -> ObjectImage \union {NoObject}]

\* Lemma: they form a sequence.
LEMMA ImagesType ==
  ASSUME NEW sv \in Seq(SavedType)
  PROVE  /\ Images(sv) \in Seq(ImageType) /\ Len(Images(sv)) = Len(sv)
         /\ \A i \in 1 .. Len(sv) : Images(sv)[i] = sv[i].image
<1>1. ASSUME NEW i \in 1 .. Len(sv) PROVE sv[i].image \in ImageType
  <2>1. sv[i] \in SavedType
    OBVIOUS
  <2> QED BY <2>1 DEF SavedType, ImageType
<1>2. Len(sv) \in Nat
  OBVIOUS
<1> HIDE DEF ImageType
<1>3. PICK n : n = Len(sv)
  OBVIOUS
<1>4. Images(sv) = [i \in 1 .. n |-> sv[i].image]
  BY <1>3 DEF Images
<1>5. Images(sv) \in [1 .. n -> ImageType]
  BY <1>1, <1>3, <1>4
<1>6. Images(sv) \in Seq(ImageType) /\ Len(Images(sv)) = n
  BY <1>2, <1>3, <1>4, <1>5
<1> QED BY <1>3, <1>4, <1>6

\* Lemma: those of the newest savepoints.
LEMMA ImagesNewest ==
  ASSUME NEW sv \in Seq(SavedType), NEW n \in 0 .. Len(sv), NEW w, w = Newest(sv, n)
  PROVE  Images(w) = Newest(Images(sv), n)
<1>1. /\ w \in Seq(SavedType) /\ Len(w) = n
      /\ \A i \in 1 .. n : Len(sv) - n + i \in 1 .. Len(sv) /\ w[i] = sv[Len(sv) - n + i]
  BY NewestSaved
<1>2. PICK s : s = Images(sv)
  OBVIOUS
<1>3. /\ s \in Seq(ImageType) /\ Len(s) = Len(sv) /\ n \in 0 .. Len(s)
      /\ \A i \in 1 .. Len(sv) : s[i] = sv[i].image
  BY <1>2, ImagesType
<1>4. PICK x : x = Newest(s, n)
  OBVIOUS
<1>5. x \in Seq(ImageType) /\ Len(x) = n /\ \A i \in 1 .. n : x[i] = s[Len(s) - n + i]
  BY <1>3, <1>4, NewestFacts
<1>6. PICK y : y = Images(w)
  OBVIOUS
<1>7. y \in Seq(ImageType) /\ Len(y) = n /\ \A i \in 1 .. n : y[i] = w[i].image
  BY <1>1, <1>6, ImagesType
<1>8. \A i \in 1 .. n : x[i] = y[i]
  BY <1>1, <1>3, <1>5, <1>7, ZenonT(40)
<1>9. x = y
  BY <1>5, <1>7, <1>8, SeqEqual
<1> QED BY <1>2, <1>4, <1>6, <1>9

\* Lemma: the newest elements are a sequence without some of its oldest ones.
LEMMA NewestRemembered ==
  ASSUME NEW S, NEW s \in Seq(S), NEW n \in 0 .. Len(s)
  PROVE  Newest(s, n) \in History!Remembered(s)
<1>1. PICK k : k = Len(s) - n + 1
  OBVIOUS
<1>2. Len(s) \in Nat
  OBVIOUS
<1>3. k \in 1 .. (Len(s) + 1)
  BY <1>1, <1>2
<1>4. Newest(s, n) = SubSeq(s, k, Len(s))
  BY <1>1 DEF Newest
<1> QED BY <1>3, <1>4 DEF History!Remembered

\* Lemma: nothing, and all, may be remembered.
LEMMA RememberedBounds ==
  ASSUME NEW S, NEW s \in Seq(S)
  PROVE  << >> \in History!Remembered(s) /\ s \in History!Remembered(s)
<1>1. Len(s) \in 0 .. Len(s) /\ 0 \in 0 .. Len(s)
  OBVIOUS
<1>2. Newest(s, Len(s)) = s
  BY NewestAll
<1>3. Newest(s, 0) \in Seq(S) /\ Len(Newest(s, 0)) = 0
  BY <1>1, NewestFacts
<1>4. Newest(s, 0) = << >>
  BY <1>3
<1> QED BY <1>1, <1>2, <1>4, NewestRemembered

\* Lemma: an undo brings back, of each object that the newest savepoint holds,
\* exactly what it holds.
LEMMA UndoEndState ==
  ASSUME Inv, RecoveryInv, UndoEnd, NEW o \in Objects,
         saved[Len(saved)].image[o] # NoObject
  PROVE  (HeapImage[o])' = saved[Len(saved)].image[o]
<1>1. /\ Undoing(undo, meta, saved, Owned, entry, entry_arr, obj_mod) /\ HeapOK
      /\ dec_rec_ptr(meta) = undo.cur_first /\ live' = live
      /\ obj_mod' = obj_mod /\ entry_arr' = entry_arr /\ notify_new_savept
  BY UndoingFromInv, HeapFromInv DEF UndoEnd
<1>2. saved[Len(saved)].image[o] = ImageOf(entry, entry_arr, obj_mod, o)
  BY <1>1, NewestBack
<1>3. o \in Owned
  <2>1. Len(saved) \in 1 .. Len(saved) /\ OwnersOf(undo.ring, meta, saved, Owned)
    BY <1>1 DEF Undoing
  <2> QED BY <2>1 DEF OwnersOf
<1>4. o \in live \ TransientObjects
  BY <1>3 DEF Owned
<1>5. SameValues(entry, entry')
  BY <1>1, NotifyClears
<1>6. (HeapImage[o])' = (Image(o))'
  BY <1>1, <1>4 DEF HeapImage
<1>7. (Image(o))' = ImageOf(entry', entry_arr, obj_mod, o)
  BY <1>1 DEF Image, ImageOf
<1>8. ImageOf(entry', entry_arr, obj_mod, o) = ImageOf(entry, entry_arr, obj_mod, o)
  BY <1>5 DEF ImageOf, SameValues
<1> QED BY <1>2, <1>6, <1>7, <1>8

\* Lemma: a savepoint leaves the state alone.
LEMMA CreateSameState ==
  ASSUME Inv, CreateSavept
  PROVE  HeapImage' = HeapImage
<1>1. HeapOK /\ live' = live /\ obj_mod' = obj_mod /\ entry_arr' = entry_arr
  BY HeapFromInv DEF CreateSavept
<1>2. SameValues(entry, entry')
  <2>1. CASE alloc_rec(undo).rec = Null
    <3>1. entry' = entry
      BY <2>1 DEF CreateSavept
    <3> QED BY <3>1 DEF SameValues
  <2>2. CASE alloc_rec(undo).rec # Null
    <3>1. notify_new_savept
      BY <2>2 DEF CreateSavept
    <3> QED BY <1>1, <3>1, NotifyClears
  <2> QED BY <2>1, <2>2
<1>3. ASSUME NEW o \in Objects PROVE (Image(o))' = Image(o)
  <2>1. (Image(o))' = ImageOf(entry', entry_arr, obj_mod, o)
        /\ Image(o) = ImageOf(entry, entry_arr, obj_mod, o)
    BY <1>1 DEF Image, ImageOf
  <2>2. ImageOf(entry', entry_arr, obj_mod, o) = ImageOf(entry, entry_arr, obj_mod, o)
    BY <1>2 DEF ImageOf, SameValues
  <2> QED BY <2>1, <2>2
<1> QED BY <1>1, <1>3 DEF HeapImage

\* Lemma: the states after a new savepoint.
LEMMA ImagesAppend ==
  ASSUME NEW sv \in Seq(SavedType), NEW c \in SavedType
  PROVE  /\ Append(sv, c) \in Seq(SavedType) /\ Len(Append(sv, c)) = Len(sv) + 1
         /\ Images(Append(sv, c)) = Append(Images(sv), c.image)
<1>1. /\ Append(sv, c) \in Seq(SavedType) /\ Len(Append(sv, c)) = Len(sv) + 1
      /\ \A k \in 1 .. Len(sv) : Append(sv, c)[k] = sv[k]
  OBVIOUS
<1>2. Append(sv, c)[Len(sv) + 1] = c
  OBVIOUS
<1>3. PICK h : h = Append(sv, c)
  OBVIOUS
<1>4. PICK s : s = Images(sv)
  OBVIOUS
<1>5. /\ s \in Seq(ImageType) /\ Len(s) = Len(sv)
      /\ \A i \in 1 .. Len(sv) : s[i] = sv[i].image
  BY <1>4, ImagesType
<1>6. PICK d : d = c.image
  OBVIOUS
<1>7. d \in ImageType
  BY <1>6 DEF SavedType, ImageType
<1>8. PICK x : x = Append(s, d)
  OBVIOUS
<1>9. PICK n : n = Len(sv)
  OBVIOUS
<1>10. n \in Nat /\ Len(s) = n
  BY <1>5, <1>9
<1>11. /\ x \in Seq(ImageType) /\ Len(x) = n + 1
       /\ (\A i \in 1 .. n : x[i] = s[i]) /\ x[n + 1] = d
  BY <1>5, <1>7, <1>8, <1>10
<1>12. h \in Seq(SavedType) /\ Len(h) = n + 1 /\ (\A i \in 1 .. n : h[i] = sv[i])
       /\ h[n + 1] = c
  BY <1>1, <1>2, <1>3, <1>9
<1>13. PICK y : y = Images(h)
  OBVIOUS
<1>14. y \in Seq(ImageType) /\ Len(y) = n + 1 /\ \A i \in 1 .. (n + 1) : y[i] = h[i].image
  BY <1>12, <1>13, ImagesType
<1>15. ASSUME NEW i \in 1 .. (n + 1) PROVE x[i] = y[i]
  <2>1. CASE i = n + 1
    BY <1>6, <1>10, <1>11, <1>12, <1>14, <2>1
  <2>2. CASE i # n + 1
    <3>1. i \in 1 .. n
      BY <1>10, <2>2
    <3> QED BY <1>5, <1>9, <1>11, <1>12, <1>14, <3>1
  <2> QED BY <2>1, <2>2
<1>16. x = y
  <2>1. n + 1 \in Nat
    BY <1>10
  <2> QED BY <1>11, <1>14, <1>15, SeqEqual
<1> QED BY <1>1, <1>3, <1>4, <1>6, <1>8, <1>13, <1>16

\* Lemma: the states of all savepoints but the newest.
LEMMA ImagesFront ==
  ASSUME NEW sv \in Seq(SavedType), sv # << >>, NEW w, w = SubSeq(sv, 1, Len(sv) - 1)
  PROVE  Images(w) = SubSeq(Images(sv), 1, Len(Images(sv)) - 1)
<1>1. w \in Seq(SavedType) /\ Len(w) = Len(sv) - 1 /\ \A i \in 1 .. Len(sv) - 1 : w[i] = sv[i]
  BY FrontFacts
<1>2. PICK n : n = Len(sv)
  OBVIOUS
<1>3. n \in Nat /\ n # 0
  BY <1>2
<1>4. PICK s : s = Images(sv)
  OBVIOUS
<1>5. s \in Seq(ImageType) /\ Len(s) = n /\ \A i \in 1 .. n : s[i] = sv[i].image
  BY <1>2, <1>4, ImagesType
<1>6. s # << >>
  BY <1>3, <1>5
<1>7. PICK x : x = SubSeq(s, 1, Len(s) - 1)
  OBVIOUS
<1>8. x \in Seq(ImageType) /\ Len(x) = Len(s) - 1 /\ \A i \in 1 .. Len(s) - 1 : x[i] = s[i]
  BY <1>5, <1>6, <1>7, FrontFacts
<1>9. PICK y : y = Images(w)
  OBVIOUS
<1>10. y \in Seq(ImageType) /\ Len(y) = n - 1 /\ \A i \in 1 .. (n - 1) : y[i] = w[i].image
  BY <1>1, <1>2, <1>9, ImagesType
<1>11. Len(x) = n - 1 /\ \A i \in 1 .. (n - 1) : x[i] = y[i] /\ i \in 1 .. n
  BY <1>1, <1>2, <1>3, <1>5, <1>8, <1>10
<1>12. x = y
  BY <1>8, <1>10, <1>11, SeqEqual
<1> QED BY <1>4, <1>7, <1>9, <1>12

\* Lemma: the end of an undo forgets the newest savepoint, and no other.
LEMMA UndoEndSaved ==
  ASSUME Inv, UndoEnd
  PROVE  saved # << >> /\ saved' = SubSeq(saved, 1, Len(saved) - 1)
<1>1. RingInv(undo, FirstsOf(saved)) /\ LoopOK /\ saved \in Seq(SavedType)
      /\ Len(saved) = undo.savept_cnt /\ undo.savept_cnt > 0 /\ undo' = unwind(undo)
  BY InvRing, HeapFromInv DEF UndoEnd, LoopOK
<1>2. PICK sv : sv = SubSeq(saved, 1, Len(saved) - 1)
  OBVIOUS
<1>3. saved # << >>
  BY <1>1
<1>4. sv \in Seq(SavedType) /\ Len(sv) = Len(saved) - 1
  BY <1>1, <1>2, <1>3, FrontFacts
<1>5. undo'.savept_cnt = Len(sv)
  BY <1>1, <1>4 DEF unwind
<1>6. saved' = Newest(sv, undo'.savept_cnt)
  BY <1>2 DEF UndoEnd
<1> QED BY <1>2, <1>3, <1>4, <1>5, <1>6, NewestAll

\* Lemma: a savepoint saves the state, and may give up the oldest savepoints.
LEMMA SavedRemembered ==
  ASSUME Inv, CreateSavept, NEW s, s = Images(saved)
  PROVE  Images(saved') \in History!Remembered(Append(s, HeapImage))
<1>1. /\ RingInv(undo, FirstsOf(saved)) /\ saved \in Seq(SavedType) /\ HeapOK
      /\ Len(saved) = undo.savept_cnt /\ undo' = create_savept(undo)
  BY InvRing, HeapFromInv DEF CreateSavept
<1>2. s \in Seq(ImageType) /\ HeapImage \in ImageType
  BY <1>1, ImagesType, HeapImageType DEF ImageType
<1>3. PICK t : t = Append(s, HeapImage)
  OBVIOUS
<1>4. t \in Seq(ImageType)
  BY <1>2, <1>3
<1>5. CASE alloc_rec(undo).rec = Null
  <2>1. saved' = << >>
    BY <1>5 DEF CreateSavept
  <2>2. Images(saved') = << >>
    BY <2>1 DEF Images
  <2> QED BY <1>3, <1>4, <2>2, RememberedBounds
<1>6. CASE alloc_rec(undo).rec # Null
  <2>1. PICK c : c = [first |-> undo'.cur_first, image |-> HeapImage]
    OBVIOUS
  <2>2. saved' = Newest(Append(saved, c), undo'.savept_cnt)
    BY <1>6, <2>1 DEF CreateSavept
  <2>3. PICK f : f = FirstsOf(saved)
    OBVIOUS
  <2>4. undo'.savept_cnt \in 1 .. (Len(f) + 1) /\ undo'.cur_first \in Slots
    <3>1. Linked(Cell, undo, f) /\ undo.savept_cnt <= MaxSavepts
      BY <1>1, <2>3 DEF RingInv
    <3> QED BY <1>1, <1>6, <3>1, CellFacts, CreateLinked
  <2>5. c \in SavedType /\ c.image = HeapImage
    BY <1>1, <2>1, <2>4, HeapImageType DEF SavedType
  <2>6. PICK sv : sv = Append(saved, c)
    OBVIOUS
  <2>7. sv \in Seq(SavedType) /\ Len(sv) = Len(saved) + 1 /\ Images(sv) = t
    BY <1>1, <1>3, <2>5, <2>6, ImagesAppend
  <2>8. PICK n : n = undo'.savept_cnt
    OBVIOUS
  <2>9. n \in 0 .. Len(sv)
    <3>1. Len(f) = Len(saved)
      BY <1>1, <2>3, FirstsType
    <3> QED BY <2>4, <2>7, <2>8, <3>1
  <2>10. saved' = Newest(sv, n)
    BY <2>2, <2>6, <2>8
  <2>11. Images(saved') = Newest(t, n)
    BY <2>7, <2>9, <2>10, ImagesNewest
  <2>12. n \in 0 .. Len(t)
    BY <2>7, <2>9, ImagesType
  <2> QED BY <1>3, <1>4, <2>11, <2>12, NewestRemembered
<1> QED BY <1>5, <1>6

\* Lemma: a change of the state that may give up the oldest savepoints.
LEMMA StepChange ==
  ASSUME Idle, Idle', saved \in Seq(SavedType),
         Images(saved') \in History!Remembered(Images(saved))
  PROVE  History!Change
<1>1. [i \in 1 .. Len(saved) |-> saved[i].image] = Images(saved)
      /\ [i \in 1 .. Len(saved) |-> saved[i].image]' = Images(saved')
  BY DEF Images
<1> QED BY <1>1 DEF History!Change

\* Lemma: each step of VmUndo is one of UndoHistory, or changes nothing.
LEMMA NextRefines ==
  ASSUME Inv, RecoveryInv, [Next]_vars, Inv'
  PROVE  [History!Next]_(History!vars)
<1>1. /\ saved \in Seq(SavedType) /\ saved' \in Seq(SavedType)
      /\ Len(saved) = undo.savept_cnt /\ Len(saved') = undo'.savept_cnt
  BY InvFacts, InvNextFacts
<1>2. PICK s : s = Images(saved)
  OBVIOUS
<1>3. /\ [i \in 1 .. Len(saved) |-> saved[i].image] = s
      /\ [i \in 1 .. Len(saved) |-> saved[i].image]' = Images(saved')
      /\ s \in Seq(ImageType) /\ Len(s) = Len(saved)
  BY <1>1, <1>2, ImagesType DEF Images
<1>4. << >> \in History!Remembered(s) /\ s \in History!Remembered(s)
  BY <1>3, RememberedBounds
<1>5. ASSUME NEW o \in DynamicObjects, CreateObject(o) PROVE History!Change
  <2>1. Idle /\ Idle' /\ saved' = saved
    BY <1>5 DEF CreateObject, Idle
  <2> QED BY <1>1, <1>2, <1>4, <2>1, StepChange
<1>6. ASSUME NEW o \in Objects, NEW p \in Props, NEW v \in Vals, set_prop(o, p, v)
      PROVE  History!Change
  <2>1. Idle /\ Idle' /\ saved' = Newest(saved, undo'.savept_cnt)
    BY <1>6 DEF set_prop, Idle
  <2>2. PICK n : n = undo'.savept_cnt
    OBVIOUS
  <2>3. n \in 0 .. Len(saved)
    BY <1>6, <2>2, SetPropRing
  <2>4. Images(saved') = Newest(s, n)
    BY <1>1, <1>2, <2>1, <2>2, <2>3, ImagesNewest
  <2>5. Newest(s, n) \in History!Remembered(s)
    BY <1>3, <2>3, NewestRemembered
  <2> QED BY <1>1, <1>2, <2>1, <2>4, <2>5, StepChange
<1>7. CASE CreateSavept
  <2>1. Idle /\ Idle' /\ HeapImage' = HeapImage
    BY <1>7, CreateSameState DEF CreateSavept, Idle
  <2>2. Images(saved') \in History!Remembered(Append(s, HeapImage))
    BY <1>7, SavedRemembered, <1>2
  <2> QED BY <1>3, <2>1, <2>2 DEF History!Next, History!Save
<1>8. CASE UndoBegin
  <2>1. /\ Idle /\ ~Idle' /\ saved' = saved /\ saved # << >> /\ HeapImage' = HeapImage
    <3>1. ~Idle'
      BY <1>8, UndoBeginUndoing
    <3>2. Idle /\ saved' = saved /\ HeapImage' = HeapImage
      BY <1>8 DEF UndoBegin, heap, HeapImage, Image
    <3>3. saved # << >>
      BY <1>1, <1>8 DEF UndoBegin
    <3> QED BY <3>1, <3>2, <3>3
  <2>2. s # << >> /\ Images(saved') = s
    BY <1>1, <1>2, <1>3, <2>1
  <2> QED BY <1>3, <2>1, <2>2 DEF History!Next, History!BeginUndo
<1>9. CASE UndoApply
  <2>1. ~Idle /\ ~Idle' /\ saved' = saved
    BY <1>1, <1>9, UndoApplyUndoing DEF UndoApply
  <2> QED BY <1>2, <1>3, <2>1 DEF History!Next, History!Rewind
<1>10. CASE UndoEnd
  <2>1. ~Idle /\ Idle'
    BY <1>10 DEF UndoEnd, Idle
  <2>2. Images(saved') = SubSeq(s, 1, Len(s) - 1)
    BY <1>1, <1>2, <1>10, UndoEndSaved, ImagesFront
  <2>3. ASSUME NEW o \in Objects, s[Len(s)][o] # NoObject
        PROVE  HeapImage'[o] = s[Len(s)][o]
    <3>1. s[Len(s)] = saved[Len(saved)].image
      <4>1. Undoing(undo, meta, saved, Owned, entry, entry_arr, obj_mod)
        BY <2>1, UndoingFromInv
      <4>2. Len(saved) \in 1 .. Len(saved)
        BY <1>1, <4>1 DEF Undoing
      <4> QED BY <1>1, <1>2, <1>3, <4>2, ImagesType
    <3> QED BY <1>10, <2>3, <3>1, UndoEndState
  <2> QED BY <1>3, <2>1, <2>2, <2>3 DEF History!Next, History!EndUndo, History!Newest
<1>11. CASE Reset
  <2>1. Idle /\ Idle' /\ saved' = << >>
    BY <1>11 DEF Reset, Idle
  <2>2. Images(saved') = << >>
    BY <2>1 DEF Images
  <2> QED BY <1>1, <1>2, <1>4, <2>1, <2>2, StepChange DEF History!Next
<1>12. CASE UNCHANGED vars
  <2>1. HeapImage' = HeapImage /\ saved' = saved /\ (Idle' <=> Idle)
    BY <1>12 DEF vars, HeapImage, Image, Idle
  <2> QED BY <1>2, <1>3, <2>1 DEF History!vars
<1> QED BY <1>5, <1>6, <1>7, <1>8, <1>9, <1>10, <1>11, <1>12
        DEF Next, UndoStep, History!Next

\* Theorem: undo keeps the promise of UndoHistory: savepoints are a history of
\* heap states, of which only the oldest are ever forgotten, and undo goes
\* back to the newest of them, exactly.
THEOREM UndoHistoryHolds == Spec => UndoHistorySpec
<1>1. Init => History!Init
  <2> SUFFICES ASSUME Init PROVE History!Init
    OBVIOUS
  <2>1. saved = << >> /\ Idle
    BY DEF Init, Idle
  <2>2. [i \in 1 .. Len(saved) |-> saved[i].image] = << >>
    BY <2>1
  <2> QED BY <2>1, <2>2 DEF History!Init
<1>2. Inv /\ RecoveryInv /\ [Next]_vars /\ Inv' => [History!Next]_(History!vars)
  BY NextRefines
<1> QED BY <1>1, <1>2, RecoveryHolds, PTL DEF Spec, UndoHistorySpec, History!Spec

-----------------------------------------------------------------------------
\* When the oldest savepoint is given up.

\* At least k records can be taken before the oldest link is in the way.
RoomFor(u, k) ==
  /\ u.oldest_first \in Slots /\ u.next_free \in Slots
  /\ Dist(u.next_free, u.oldest_first) >= k

\* Lemma: taking a slot brings next_free one slot nearer to the oldest link.
LEMMA IncNearer ==
  ASSUME NEW s \in Slots, NEW o \in Slots, Dist(s, o) >= 1
  PROVE  Dist(inc_rec_ptr(s), o) = Dist(s, o) - 1
  BY RingAssumption DEF Dist, Slots, inc_rec_ptr

\* Lemma: a record that finds room leaves the oldest savepoint where it is.
LEMMA AddKeepsOldest ==
  ASSUME NEW u, NEW b, NEW x, NEW k \in Nat, RoomFor(u, k + 1)
  PROVE  /\ RoomFor(add_new_record(u, b, x), k)
         /\ add_new_record(u, b, x).oldest_first = u.oldest_first
<1>1. /\ u.oldest_first \in Slots /\ u.next_free \in Slots
      /\ Dist(u.next_free, u.oldest_first) \in Int
      /\ Dist(u.next_free, u.oldest_first) >= k + 1
  BY DistType DEF RoomFor
<1>2. CASE u.savept_cnt = 0 \/ ~b
  <2>1. add_new_record(u, b, x) = u
    BY <1>2 DEF add_new_record
  <2> QED BY <1>1, <2>1 DEF RoomFor
<1>3. CASE ~(u.savept_cnt = 0 \/ ~b)
  <2>1. u.next_free # u.oldest_first
    BY <1>1, DistType
  <2>2. alloc_rec(u) = Take(u)
    BY <2>1 DEF alloc_rec, HasRoom
  <2>3. u.next_free # Null
    BY <1>1, NullNotSlot
  <2>4. add_new_record(u, b, x) = Store(Take(u).undo, u.next_free, x)
    BY <1>3, <2>2, <2>3 DEF add_new_record, Take
  <2>5. /\ add_new_record(u, b, x).oldest_first = u.oldest_first
        /\ add_new_record(u, b, x).next_free = inc_rec_ptr(u.next_free)
    BY <2>4 DEF Store, Take
  <2>6. inc_rec_ptr(u.next_free) \in Slots
    BY <1>1, IncFacts
  <2>7. Dist(inc_rec_ptr(u.next_free), u.oldest_first) >= k
    BY <1>1, IncNearer
  <2> QED BY <1>1, <2>5, <2>6, <2>7 DEF RoomFor
<1> QED BY <1>2, <1>3

\* Lemma: the three records of one set_prop fit where three slots are free.
LEMMA SetPropKeepsOldest ==
  ASSUME NEW o, NEW p, RoomFor(undo, 3)
  PROVE  mark_modified(ValueRecords(undo, o, p), o).oldest_first = undo.oldest_first
<1>1. PICK u : u = ValueRecords(undo, o, p)
  OBVIOUS
<1>2. RoomFor(u, 1) /\ u.oldest_first = undo.oldest_first
  <2>1. RoomFor(undo, 1) /\ RoomFor(undo, 2 + 1)
    BY DistType DEF RoomFor
  <2> DEFINE e == entry[o][p]
             x1 == [obj |-> o, prop |-> p,
                    oldval |-> IF e.val = Absent THEN EmptyNew ELSE e.val]
             x2 == [obj |-> o, prop |-> p, oldval |-> EmptyMod]
             r1 == add_new_record(undo, is_in_undo(o), x1)
             r2 == add_new_record(r1, is_in_undo(o), x2)
  <2>2. ValueRecords(undo, o, p) = undo \/ ValueRecords(undo, o, p) = r1
          \/ ValueRecords(undo, o, p) = r2
    BY DEF ValueRecords
  <2> HIDE DEF x1, x2
  <2>3. RoomFor(r1, 1 + 1) /\ r1.oldest_first = undo.oldest_first
    BY <2>1, AddKeepsOldest
  <2>4. RoomFor(r2, 1) /\ r2.oldest_first = r1.oldest_first
    BY <2>3, AddKeepsOldest
  <2>5. RoomFor(r1, 1)
    BY <2>3, DistType DEF RoomFor
  <2> HIDE DEF r1, r2
  <2> QED BY <1>1, <2>1, <2>2, <2>3, <2>4, <2>5
<1>3. CASE o \in obj_mod
  BY <1>1, <1>2, <1>3 DEF mark_modified
<1>4. CASE o \notin obj_mod
  <2>1. RoomFor(u, 0 + 1)
    BY <1>2
  <2> DEFINE x == [obj |-> o, prop |-> InvalidProp, oldval |-> Int1]
  <2>2. mark_modified(u, o) = add_new_record(u, is_in_undo(o), x)
    BY <1>4 DEF mark_modified
  <2> HIDE DEF x
  <2>3. add_new_record(u, is_in_undo(o), x).oldest_first = u.oldest_first
    BY <2>1, AddKeepsOldest
  <2> QED BY <1>1, <1>2, <2>2, <2>3
<1> QED BY <1>3, <1>4

\* Lemma: a new savepoint drops the oldest one only when the ring is full or
\* all savepoints are taken.
LEMMA CreateKeepsOldest ==
  ASSUME NEW u, RoomFor(u, 1), u.savept_cnt # MaxSavepts
  PROVE  create_savept(u).oldest_first = u.oldest_first
<1>1. u.oldest_first \in Slots /\ u.next_free \in Slots
      /\ u.next_free # u.oldest_first
  BY DistType DEF RoomFor
<1>2. alloc_rec(u) = Take(u)
  BY <1>1 DEF alloc_rec, HasRoom
<1>3. u.next_free # Null /\ u.oldest_first # Null
  BY <1>1, NullNotSlot
<1>4. PICK c : c = PushLink(Take(u).undo, Take(u).rec)
  OBVIOUS
<1>5. c.oldest_first = u.oldest_first /\ c.savept_cnt = u.savept_cnt
  BY <1>3, <1>4 DEF PushLink, Take
<1>6. create_savept(u) = CountSavept(c)
  BY <1>2, <1>3, <1>4, <1>5 DEF create_savept, Take
<1> QED BY <1>5, <1>6 DEF CountSavept

\* Theorem: a savepoint is given up for want of space only: a step other than
\* undo or reset that loses the oldest one found all savepoints taken or fewer
\* free slots than one set_prop may fill.
THEOREM SavepointsKeptHolds == Spec => SavepointsKept
<1> DEFINE Lost == Idle /\ undo' # NewUndo
                     /\ undo.oldest_first \notin {Null, undo'.oldest_first}
           Why  == Dist(undo.next_free, undo.oldest_first) < 3
                     \/ undo.savept_cnt = MaxSavepts
<1>1. Inv /\ [Next]_vars =>
        [ (Idle /\ undo' # NewUndo /\ undo.oldest_first \notin {Null, undo'.oldest_first})
            => \/ Dist(undo.next_free, undo.oldest_first) < 3
               \/ undo.savept_cnt = MaxSavepts ]_vars
  <2> SUFFICES ASSUME Inv, [Next]_vars, Lost, ~Why PROVE vars' = vars
    OBVIOUS
  <2>1. undo.oldest_first \in Slots /\ undo.next_free \in Slots
    BY DEF Inv, TypeOK, Pointers
  <2>2. RoomFor(undo, 3) /\ RoomFor(undo, 1) /\ undo.savept_cnt # MaxSavepts
    BY <2>1, DistType DEF RoomFor
  <2>3. undo'.oldest_first # undo.oldest_first /\ undo' # undo /\ undo' # NewUndo /\ Idle
    OBVIOUS
  <2> HIDE DEF Lost, Why
  <2>4. ASSUME NEW o \in DynamicObjects, CreateObject(o) PROVE FALSE
    BY <2>3, <2>4 DEF CreateObject
  <2>5. ASSUME NEW o \in Objects, NEW p \in Props, NEW v \in Vals, set_prop(o, p, v)
        PROVE  FALSE
    BY <2>2, <2>3, <2>5, SetPropKeepsOldest DEF set_prop
  <2>6. CASE CreateSavept
    BY <2>2, <2>3, <2>6, CreateKeepsOldest DEF CreateSavept
  <2>7. CASE UndoBegin
    BY <2>3, <2>7 DEF UndoBegin
  <2>8. CASE UndoStep
    BY <2>3, <2>8 DEF UndoStep, UndoApply, UndoEnd
  <2>9. CASE Reset
    BY <2>3, <2>9 DEF Reset, drop_undo
  <2> QED BY <2>4, <2>5, <2>6, <2>7, <2>8, <2>9 DEF Next
<1> QED BY <1>1, InitInv, NextInv, PTL DEF Spec, SavepointsKept
=============================================================================
