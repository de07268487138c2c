--------------------------- MODULE McmCache_proof ---------------------------
(***************************************************************************)
(* Proofs about McmCache, for chunks, caches, swap files and locks of any  *)
(* number.  An allocation preserves Good, its result belonged to none, and *)
(* it fails for a reason only (mcmalo0).  In games that free no object     *)
(* that is swapped out, the heap, the entries and the lists agree, every   *)
(* object holds what the game last gave it, and what is locked stays where *)
(* it is.                                                                  *)
(***************************************************************************)
EXTENDS McmAlloc_proof

-----------------------------------------------------------------------------
\* mcmalo0.

\* What mcmalo0 has made of s so far: everything owned is kept, and what it
\* found is not anybody's.
AloGood(s, a) ==
  /\ Good(a.m) /\ Keeps(s, a.m)
  /\ a.n # NoEntry => Fresh(s, a.m, a.n)

\* Lemma: one attempt.
LEMMA AloOne ==
  ASSUME NEW s, NEW t, Good(s), Good(t), Keeps(s, t), NEW siz \in Nat, siz > 0
  PROVE  AloGood(s, mcmalo1(t, siz))
<1>1. PICK r : r = mcmalo1(t, siz)
  OBVIOUS
<1>2. Good(r.m) /\ Keeps(t, r.m) /\ (r.n # NoEntry => Fresh(t, r.m, r.n))
  BY <1>1, mcmalo1Good
<1>3. Keeps(s, r.m)
  BY <1>2, KeepsTwice
<1>4. r.n # NoEntry => Fresh(s, r.m, r.n)
  BY <1>2, FreshBefore
<1> QED BY <1>1, <1>2, <1>3, <1>4 DEF AloGood

\* Lemma: the end of the loop keeps the attempt's result.
LEMMA GotGood ==
  ASSUME NEW s, NEW h, AloGood(s, h)
  PROVE  AloGood(s, Got(h))
BY DEF AloGood, Got

\* Lemma: garbage is collected when it failed.
LEMMA AfterSwapGood ==
  ASSUME NEW s, Good(s), NEW h, AloGood(s, h)
  PROVE  AloGood(s, AfterSwap(h))
<1>1. CASE h.n # NoEntry
  <2>1. AfterSwap(h) = Got(h)
    BY <1>1 DEF AfterSwap
  <2> QED BY <2>1, GotGood
<1>2. CASE h.n = NoEntry
  <2>1. PICK t : t = mcmgarb(h.m)
    OBVIOUS
  <2>2. Good(h.m) /\ Keeps(s, h.m)
    BY DEF AloGood
  <2>3. Good(t) /\ Keeps(h.m, t)
    BY <2>1, <2>2, mcmgarbGood
  <2>4. Keeps(s, t)
    BY <2>2, <2>3, KeepsTwice
  <2>5. AfterSwap(h) = [m |-> t, n |-> NoEntry, done |-> FALSE]
    BY <1>2, <2>1 DEF AfterSwap
  <2> QED BY <2>3, <2>4, <2>5 DEF AloGood
<1> QED BY <1>1, <1>2

\* Lemma: a turn that had to swap.
LEMMA SwappedGood ==
  ASSUME NEW s, Good(s), NEW sw, Good(sw.m), Keeps(s, sw.m), NEW siz \in Nat, siz > 0
  PROVE  AloGood(s, Swapped(sw, siz))
<1>1. AloGood(s, mcmalo1(sw.m, siz))
  BY AloOne
<1>2. AloGood(s, Got(mcmalo1(sw.m, siz))) /\ AloGood(s, AfterSwap(mcmalo1(sw.m, siz)))
  BY <1>1, GotGood, AfterSwapGood
<1>3. AloGood(s, [m |-> sw.m, n |-> NoEntry, done |-> TRUE])
  BY DEF AloGood
<1> QED BY <1>2, <1>3, Zenon DEF Swapped

\* Lemma: any turn.
LEMMA TurnGood ==
  ASSUME NEW s, Good(s), NEW g, AloGood(s, g), NEW siz \in Nat, siz > 0
  PROVE  AloGood(s, Turn(g, siz))
<1>1. PICK b : b = mcmswap(g.m, siz)
  OBVIOUS
<1>2. Good(g.m) /\ Keeps(s, g.m)
  BY DEF AloGood
<1>3. Good(b.m) /\ Keeps(g.m, b.m)
  BY <1>1, <1>2, mcmswapGood
<1>4. Keeps(s, b.m)
  BY <1>2, <1>3, KeepsTwice
<1>5. AloGood(s, Swapped(b, siz))
  BY <1>3, <1>4, SwappedGood
<1>6. AloGood(s, Got(g))
  BY GotGood
<1> QED BY <1>1, <1>5, <1>6, Zenon DEF Turn

\* mcmalo0 is a fold over the turns.
AloNext(env, a, k) == IF a.done THEN a ELSE Turn(mcmalo1(a.m, env.siz), env.siz)
AloSoFar(env, i, a) == AloGood(env.s, a)
Allocating == INSTANCE Induction WITH Step <- AloNext, Holds <- AloSoFar

\* Lemma: it is one.
LEMMA mcmalo0IsFold ==
  ASSUME NEW s, NEW siz
  PROVE  mcmalo0(s, siz) = Allocating!Fold([s |-> s, siz |-> siz], AfterSwap(mcmalo1(s, siz)), UpTo(NumEntries))
BY DEF mcmalo0, Allocating!Fold, AloNext, FoldLeft, MapThenFoldSet, Max, Allocating!Largest,
       Allocating!MapThenFoldSet

\* Theorem: an allocation, with all the garbage collection and swapping it takes,
\* keeps the cache consistent and every object as it was, and what it returns is
\* no one else's (mcmalo0).
THEOREM mcmalo0Good ==
  ASSUME NEW s, Good(s), NEW siz \in Nat, siz > 0, NEW r, r = mcmalo0(s, siz)
  PROVE  Good(r.m) /\ Keeps(s, r.m) /\ (r.n # NoEntry => Fresh(s, r.m, r.n))
<1>1. PICK env : env = [s |-> s, siz |-> siz]
  OBVIOUS
<1>2. env.s = s /\ env.siz = siz
  BY <1>1
<1>3. PICK q : q = UpTo(NumEntries)
  OBVIOUS
<1>4. q \in Seq(1 .. NumEntries)
  BY <1>3, UpToFacts, ConstFacts
<1>5. PICK a : a = AfterSwap(mcmalo1(s, siz))
  OBVIOUS
<1>6. AloSoFar(env, 0, a)
  <2>1. AloGood(s, mcmalo1(s, siz))
    BY KeepsSame, AloOne
  <2>2. AloGood(s, a)
    BY <1>5, <2>1, AfterSwapGood
  <2> QED BY <1>2, <2>2 DEF AloSoFar
<1>7. ASSUME NEW x, NEW i \in 1 .. Len(q), AloSoFar(env, i - 1, x)
      PROVE  AloSoFar(env, i, AloNext(env, x, q[i]))
  <2>1. AloGood(s, x)
    BY <1>2, <1>7 DEF AloSoFar
  <2>2. Good(x.m) /\ Keeps(s, x.m)
    BY <2>1 DEF AloGood
  <2>3. AloGood(s, mcmalo1(x.m, siz))
    BY <2>2, AloOne
  <2>4. AloGood(s, Turn(mcmalo1(x.m, siz), siz))
    BY <2>3, TurnGood
  <2> QED BY <1>2, <2>1, <2>4, Zenon DEF AloSoFar, AloNext
<1>8. AloSoFar(env, Len(q), Allocating!Fold(env, a, q))
  BY <1>4, <1>6, <1>7, Allocating!Induct
<1>9. r = Allocating!Fold(env, a, q)
  BY <1>1, <1>3, <1>5, mcmalo0IsFold
<1> QED BY <1>2, <1>8, <1>9 DEF AloSoFar, AloGood

-----------------------------------------------------------------------------
\* A request that fails.

\* Nothing can be done: everything is locked, free blocks have locked ones
\* between them, and none of them is large enough.
Stuck(s, siz) == AllLocked(s) /\ TightTo(s, Len(s.heap)) /\ Fits(s, siz) = {}
Excuse(s, siz) == s.unused = {} \/ SwapFull(s) \/ Stuck(s, siz)

\* As long as the loop goes on, every turn has made the LRU list shorter.
Few(s, i) == i >= 1 => Cardinality(Lru(s)) + i < NumEntries
AloEnds(i, a, siz) ==
  /\ a.done \in BOOLEAN
  /\ (a.done /\ a.n = NoEntry) => Excuse(a.m, siz)
  /\ ~a.done => a.n = NoEntry /\ TightTo(a.m, Len(a.m.heap)) /\ Few(a.m, i)

\* Lemma: the quota plays no part in this.
LEMMA RoomAside ==
  ASSUME NEW s, NEW t, OnlyRoom(s, t)
  PROVE  /\ TightTo(s, Len(s.heap)) => TightTo(t, Len(t.heap))
         /\ AllLocked(s) => AllLocked(t)
         /\ Lru(t) = Lru(s)
         /\ \A siz : Fits(t, siz) = Fits(s, siz)
BY DEF OnlyRoom, TightTo, Tight, FreeAt, LockAt, AllLocked, Lru, Fits, Has

\* Lemma: some of the entries are in the LRU list, and not those that are unused.
LEMMA LruNumber ==
  ASSUME NEW s, Good(s)
  PROVE  /\ IsFiniteSet(Lru(s)) /\ Cardinality(Lru(s)) \in Nat
         /\ s.unused # {} => Cardinality(Lru(s)) < NumEntries
<1>1. IsFiniteSet(Entries) /\ Cardinality(Entries) = NumEntries
  BY ConstFacts, FS_Interval DEF Entries
<1>2. Lru(s) \in SUBSET Entries
  BY DEF Lru
<1>3. /\ IsFiniteSet(Lru(s)) /\ Cardinality(Lru(s)) <= NumEntries
      /\ Cardinality(Lru(s)) = NumEntries => Lru(s) = Entries
  BY <1>1, <1>2, FS_Subset
<1>4. Cardinality(Lru(s)) \in Nat
  BY <1>3, FS_CardinalityType
<1>5. ASSUME NEW k \in s.unused PROVE k \in Entries /\ k \notin Lru(s)
  <2>1. k \in Entries /\ s.ent[k].flg = {}
    BY <1>5, UnusedApart
  <2> QED BY <2>1 DEF Lru, Has
<1>6. s.unused # {} => Lru(s) # Entries
  BY <1>5
<1> QED BY <1>3, <1>4, <1>6, ConstFacts

\* Lemma: the list gets shorter.
LEMMA LruShorter ==
  ASSUME NEW s, Good(s), NEW t, LruLess(s, t)
  PROVE  Cardinality(Lru(t)) \in Nat /\ Cardinality(Lru(t)) + 1 <= Cardinality(Lru(s))
<1>1. IsFiniteSet(Lru(s)) /\ Cardinality(Lru(s)) \in Nat
  BY LruNumber
<1>2. Lru(t) \in SUBSET Lru(s) /\ Lru(t) # Lru(s)
  BY DEF LruLess
<1>3. /\ IsFiniteSet(Lru(t)) /\ Cardinality(Lru(t)) <= Cardinality(Lru(s))
      /\ Cardinality(Lru(t)) # Cardinality(Lru(s))
  BY <1>1, <1>2, FS_Subset
<1>4. Cardinality(Lru(t)) \in Nat
  BY <1>3, FS_CardinalityType
<1> QED BY <1>1, <1>3, <1>4

\* Lemma: a turn that has tossed something out.
LEMMA TossedTurn ==
  ASSUME NEW s, Good(s), NEW i \in 1 .. NumEntries, Few(s, i - 1),
         NEW t, Good(t), LruLess(s, t), NEW siz \in 1 .. Chunk,
         NEW b, b = AfterSwap(mcmalo1(t, siz))
  PROVE  AloEnds(i, b, siz)
<1>1. PICK h : h = mcmalo1(t, siz)
  OBVIOUS
<1>2. CASE h.n # NoEntry
  <2>1. b = [m |-> h.m, n |-> h.n, done |-> TRUE]
    BY <1>1, <1>2 DEF AfterSwap, Got
  <2>2. b.done = TRUE /\ b.n # NoEntry
    BY <1>2, <2>1
  <2> QED BY <2>2, Zenon DEF AloEnds
<1>3. CASE h.n = NoEntry
  <2>1. OnlyRoom(t, h.m)
    BY <1>1, <1>3, AttemptFailed
  <2>2. siz \in Nat /\ siz > 0
    BY ConstFacts
  <2>3. Good(h.m)
    BY <1>1, <2>2, mcmalo1Good
  <2>4. PICK u : u = mcmgarb(h.m)
    OBVIOUS
  <2>5. LruSame(h.m, u) /\ TightTo(u, Len(u.heap))
    BY <2>3, <2>4, mcmgarbGood
  <2>6. b = [m |-> u, n |-> NoEntry, done |-> FALSE]
    BY <1>1, <1>3, <2>4 DEF AfterSwap
  <2>7. Lru(u) = Lru(t)
    <3>1. Lru(h.m) = Lru(t)
      BY <2>1, RoomAside
    <3>2. Lru(u) = Lru(h.m)
      BY <2>5 DEF LruSame, Lru
    <3> QED BY <3>1, <3>2
  <2>8. PICK x, y : x = Cardinality(Lru(t)) /\ y = Cardinality(Lru(s))
    OBVIOUS
  <2>9. x \in Nat /\ y \in Nat /\ x + 1 <= y /\ y < NumEntries
    BY <2>8, LruShorter, LruNumber DEF LruLess
  <2>10. i - 1 >= 1 => y + (i - 1) < NumEntries
    BY <2>8 DEF Few
  <2>11. x + i < NumEntries
    BY <2>9, <2>10, ConstFacts
  <2>12. Few(u, i)
    BY <2>7, <2>8, <2>11 DEF Few
  <2>13. b.m = u /\ b.n = NoEntry /\ b.done = FALSE
    BY <2>6
  <2> QED BY <2>5, <2>12, <2>13, Zenon DEF AloEnds
<1> QED BY <1>2, <1>3

\* Lemma: a turn in which nothing was to be tossed out.
LEMMA CalmTurn ==
  ASSUME NEW s, Good(s), TightTo(s, Len(s.heap)), s.unused # {} => AllLocked(s),
         NEW siz \in 1 .. Chunk, NEW i, NEW b, b = Got(mcmalo1(s, siz))
  PROVE  AloEnds(i, b, siz)
<1>1. PICK h : h = mcmalo1(s, siz)
  OBVIOUS
<1>2. b = [m |-> h.m, n |-> h.n, done |-> TRUE]
  BY <1>1 DEF Got
<1>3. b.m = h.m /\ b.n = h.n /\ b.done = TRUE
  BY <1>2
<1>4. ASSUME h.n = NoEntry PROVE Excuse(h.m, siz)
  <2>1. Fits(s, siz) = {} /\ OnlyRoom(s, h.m)
    BY <1>1, <1>4, AttemptFailed
  <2>2. /\ TightTo(h.m, Len(h.m.heap)) /\ Fits(h.m, siz) = {}
        /\ AllLocked(s) => AllLocked(h.m)
    BY <2>1, RoomAside
  <2>3. h.m.unused = s.unused
    BY <2>1 DEF OnlyRoom
  <2> QED BY <2>2, <2>3 DEF Excuse, Stuck
<1> QED BY <1>3, <1>4, Zenon DEF AloEnds

\* Lemma: any turn.
LEMMA TurnEnds ==
  ASSUME NEW s, Good(s), TightTo(s, Len(s.heap)), NEW i \in 1 .. NumEntries, Few(s, i - 1),
         NEW siz \in 1 .. Chunk, NEW b, b = Turn(mcmalo1(s, siz), siz)
  PROVE  AloEnds(i, b, siz)
<1>0. siz \in Nat /\ siz > 0
  BY ConstFacts
<1>1. PICK g : g = mcmalo1(s, siz)
  OBVIOUS
<1>2. CASE g.n # NoEntry
  <2>1. b = [m |-> g.m, n |-> g.n, done |-> TRUE]
    BY <1>1, <1>2 DEF Turn, Got
  <2>2. b.done = TRUE /\ b.n # NoEntry
    BY <1>2, <2>1
  <2> QED BY <2>2, Zenon DEF AloEnds
<1>3. CASE g.n = NoEntry
  <2>1. OnlyRoom(s, g.m)
    BY <1>1, <1>3, AttemptFailed
  <2>2. Good(g.m)
    BY <1>0, <1>1, mcmalo1Good
  <2>3. TightTo(g.m, Len(g.m.heap)) /\ Lru(g.m) = Lru(s)
    BY <2>1, RoomAside
  <2>4. Few(g.m, i - 1)
    BY <2>3 DEF Few
  <2>5. PICK sw : sw = mcmswap(g.m, siz)
    OBVIOUS
  <2>6. b = Swapped(sw, siz)
    BY <1>1, <1>3, <2>5 DEF Turn
  <2>7. /\ Good(sw.m) /\ Tally(g.m, sw)
        /\ (Calm(sw) /\ g.m.unused # {}) => AllLocked(g.m)
    BY <1>0, <2>2, <2>5, mcmswapGood
  <2>8. CASE ~sw.ok
    <3>1. b = [m |-> sw.m, n |-> NoEntry, done |-> TRUE]
      BY <2>6, <2>8 DEF Swapped
    <3>2. b.m = sw.m /\ b.done = TRUE
      BY <3>1
    <3>3. SwapFull(sw.m)
      BY <2>7, <2>8 DEF Tally
    <3> QED BY <3>2, <3>3, Zenon DEF AloEnds, Excuse
  <2>9. CASE sw.ok /\ sw.tot = 0
    <3>1. b = Got(mcmalo1(sw.m, siz))
      BY <2>6, <2>9 DEF Swapped
    <3>2. sw.m = g.m /\ Calm(sw)
      BY <2>7, <2>9 DEF Tally, Calm
    <3>3. g.m.unused # {} => AllLocked(g.m)
      BY <2>7, <3>2
    <3> QED BY <2>2, <2>3, <3>1, <3>2, <3>3, CalmTurn
  <2>10. CASE sw.ok /\ sw.tot # 0
    <3>1. b = AfterSwap(mcmalo1(sw.m, siz))
      BY <2>6, <2>10 DEF Swapped
    <3>2. LruLess(g.m, sw.m)
      BY <2>7, <2>10 DEF Tally
    <3> QED BY <2>2, <2>4, <2>7, <3>1, <3>2, TossedTurn
  <2> QED BY <2>8, <2>9, <2>10
<1> QED BY <1>2, <1>3

\* The turns of mcmalo0, with what is known of a failure.
AloTurns(env, i, a) == AloGood(env.s, a) /\ AloEnds(i, a, env.siz)
Ending == INSTANCE Induction WITH Step <- AloNext, Holds <- AloTurns

\* Lemma: mcmalo0 is this instance's fold, too.
LEMMA mcmalo0IsTurns ==
  ASSUME NEW s, NEW siz
  PROVE  mcmalo0(s, siz) = Ending!Fold([s |-> s, siz |-> siz], AfterSwap(mcmalo1(s, siz)), UpTo(NumEntries))
BY DEF mcmalo0, Ending!Fold, AloNext, FoldLeft, MapThenFoldSet, Max, Ending!Largest,
       Ending!MapThenFoldSet

\* Lemma: before the first turn.
LEMMA FirstAttempt ==
  ASSUME NEW s, Good(s), NEW siz \in 1 .. Chunk, NEW a, a = AfterSwap(mcmalo1(s, siz))
  PROVE  AloEnds(0, a, siz)
<1>1. PICK h : h = mcmalo1(s, siz)
  OBVIOUS
<1>2. CASE h.n # NoEntry
  <2>1. a = [m |-> h.m, n |-> h.n, done |-> TRUE]
    BY <1>1, <1>2 DEF AfterSwap, Got
  <2>2. a.done = TRUE /\ a.n # NoEntry
    BY <1>2, <2>1
  <2> QED BY <2>2, Zenon DEF AloEnds
<1>3. CASE h.n = NoEntry
  <2>1. siz \in Nat /\ siz > 0
    BY ConstFacts
  <2>2. Good(h.m)
    BY <1>1, <2>1, mcmalo1Good
  <2>3. PICK u : u = mcmgarb(h.m)
    OBVIOUS
  <2>4. TightTo(u, Len(u.heap))
    BY <2>2, <2>3, mcmgarbGood
  <2>5. a = [m |-> u, n |-> NoEntry, done |-> FALSE]
    BY <1>1, <1>3, <2>3 DEF AfterSwap
  <2>6. a.m = u /\ a.n = NoEntry /\ a.done = FALSE
    BY <2>5
  <2>7. Few(u, 0)
    BY DEF Few
  <2> QED BY <2>4, <2>6, <2>7, Zenon DEF AloEnds
<1> QED BY <1>2, <1>3

\* Theorem: a request fails only if headers have run out, if the swap file is
\* full, or if all objects are locked, nothing is left to be collected and no
\* free block is large enough (mcmalo0, mcmswap).  The bound on its turns is not
\* what ends the loop.
THEOREM mcmalo0Complete ==
  ASSUME NEW s, Good(s), NEW siz \in 1 .. Chunk, NEW r, r = mcmalo0(s, siz), r.n = NoEntry
  PROVE  Excuse(r.m, siz)
<1>0. siz \in Nat /\ siz > 0
  BY ConstFacts
<1>1. PICK env : env = [s |-> s, siz |-> siz]
  OBVIOUS
<1>2. env.s = s /\ env.siz = siz
  BY <1>1
<1>3. PICK q : q = UpTo(NumEntries)
  OBVIOUS
<1>4. q \in Seq(1 .. NumEntries) /\ Len(q) = NumEntries
  BY <1>3, UpToFacts, ConstFacts
<1>5. PICK a : a = AfterSwap(mcmalo1(s, siz))
  OBVIOUS
<1>6. AloTurns(env, 0, a)
  <2>1. AloGood(s, mcmalo1(s, siz))
    BY <1>0, KeepsSame, AloOne
  <2>2. AloGood(s, a)
    BY <1>5, <2>1, AfterSwapGood
  <2>3. AloEnds(0, a, siz)
    BY <1>5, FirstAttempt
  <2> QED BY <1>2, <2>2, <2>3 DEF AloTurns
<1>7. ASSUME NEW x, NEW i \in 1 .. Len(q), AloTurns(env, i - 1, x)
      PROVE  AloTurns(env, i, AloNext(env, x, q[i]))
  <2>1. AloGood(s, x) /\ AloEnds(i - 1, x, siz)
    BY <1>2, <1>7, Zenon DEF AloTurns
  <2>2. Good(x.m) /\ Keeps(s, x.m)
    BY <2>1 DEF AloGood
  <2>3. AloGood(s, mcmalo1(x.m, siz))
    BY <1>0, <2>2, AloOne
  <2>4. PICK b : b = Turn(mcmalo1(x.m, siz), siz)
    OBVIOUS
  <2>5. AloGood(s, b)
    BY <1>0, <2>3, <2>4, TurnGood
  <2>6. CASE x.done
    <3>1. AloNext(env, x, q[i]) = x
      BY <2>6, Zenon DEF AloNext
    <3>2. AloEnds(i, x, siz)
      BY <2>1, <2>6, Zenon DEF AloEnds
    <3> QED BY <1>2, <2>1, <3>1, <3>2, Zenon DEF AloTurns
  <2>7. CASE ~x.done
    <3>1. AloNext(env, x, q[i]) = b
      BY <1>2, <2>4, <2>7, Zenon DEF AloNext
    <3>2. TightTo(x.m, Len(x.m.heap)) /\ Few(x.m, i - 1)
      BY <2>1, <2>7, Zenon DEF AloEnds
    <3>3. i \in 1 .. NumEntries
      BY <1>4
    <3>4. AloEnds(i, b, siz)
      BY <2>2, <2>4, <3>2, <3>3, TurnEnds
    <3> QED BY <1>2, <2>5, <3>1, <3>4, Zenon DEF AloTurns
  <2> QED BY <2>6, <2>7
<1>8. AloTurns(env, Len(q), Ending!Fold(env, a, q))
  BY <1>4, <1>6, <1>7, Ending!Induct
<1>9. r = Ending!Fold(env, a, q)
  BY <1>1, <1>3, <1>5, mcmalo0IsTurns
<1>10. AloGood(s, r) /\ AloEnds(NumEntries, r, siz)
  BY <1>2, <1>4, <1>8, <1>9, Zenon DEF AloTurns
<1>11. r.done
  <2> SUFFICES ASSUME ~r.done PROVE FALSE
    OBVIOUS
  <2>1. Few(r.m, NumEntries)
    BY <1>10, Zenon DEF AloEnds
  <2>2. Cardinality(Lru(r.m)) \in Nat
    BY <1>10, LruNumber DEF AloGood
  <2>3. NumEntries \in Nat /\ NumEntries >= 1
    BY ConstFacts, CacheAssumption, FS_CardinalityType
  <2> QED BY <2>1, <2>2, <2>3 DEF Few
<1> QED BY <1>10, <1>11, Zenon DEF AloEnds

\* Lemma: a sequence of one.
LEMMA OneLong ==
  ASSUME NEW S, NEW r \in Seq(S), Len(r) = 1
  PROVE  r = <<r[1]>>
OBVIOUS

\* Lemma: then no gap between locked blocks would hold the object.
LEMMA StuckHopeless ==
  ASSUME NEW s, Good(s), NEW siz \in 1 .. Chunk, Stuck(s, siz), NEW c \in DOMAIN s.heap,
         NEW w \in Gaps(s, c)
  PROVE  SizeOfBlocks(s, SubSeq(s.heap[c], w[1], w[2])) < siz
<1>1. /\ s \in StateType /\ s.heap \in Seq(Seq(BlockType)) /\ s.ent \in [Entries -> EntryType]
      /\ s.free \in Seq(Entries)
  BY StateFields DEF Good
<1>2. PICK q \in Seq(BlockType) : q = s.heap[c]
  BY <1>1
<1>3. PICK a \in 1 .. Len(q), b \in 1 .. Len(q) :
        w[1] = a /\ w[2] = b /\ \A k \in a .. b : ~LockAt(s, q, k)
  BY <1>2 DEF Gaps, LockAt
<1>4. c \in 1 .. Len(s.heap)
  BY <1>1
<1>5. /\ AllLocked(s) /\ Tight(s, q) /\ Fits(s, siz) = {}
  BY <1>2, <1>4 DEF Stuck, TightTo
<1>6. ASSUME NEW k \in a .. b PROVE k \in 1 .. Len(q) /\ q[k] \in BlockType /\ FreeAt(s, q, k)
  <2>1. k \in 1 .. Len(q) /\ q[k] \in BlockType /\ Len(q) \in Nat
    BY <1>6
  <2>2. PICK n : n = q[k].num
    OBVIOUS
  <2>3. n \in Entries
    BY <2>1, <2>2 DEF BlockType
  <2>4. q[k] \in BlocksOf(s.heap)
    BY <1>2, <2>1, ToSetFacts DEF BlocksOf
  <2>5. InMemory(s.ent[n])
    BY <2>2, <2>3, <2>4 DEF Good, HeadersGood
  <2>6. ~Has(s, n, "LOCK")
    BY <1>3, <2>2 DEF LockAt
  <2>7. ~Has(s, n, "LRU")
    BY <1>5, <2>3, <2>6 DEF AllLocked
  <2>8. EntryGood(s.ent[n])
    BY <2>3 DEF Good
  <2>9. Has(s, n, "FREE")
    BY <2>5, <2>6, <2>7, <2>8 DEF InMemory, EntryGood, Has
  <2> QED BY <2>1, <2>2, <2>9 DEF FreeAt
<1>7. a >= b
  <2> SUFFICES ASSUME a < b PROVE FALSE
    OBVIOUS
  <2>1. a \in a .. b /\ b \in a .. b
    OBVIOUS
  <2>2. FreeAt(s, q, a) /\ FreeAt(s, q, b)
    BY <1>6, <2>1
  <2>3. PICK k \in a .. b : LockAt(s, q, k)
    BY <1>5, <2>2 DEF Tight
  <2> QED BY <1>3, <2>3
<1>8. CASE a > b
  <2>1. SubSeq(q, a, b) = << >>
    BY <1>8
  <2>2. q[a] \in BlockType
    OBVIOUS
  <2>3. SizeOfBlocks(s, << >>) = 0
    BY <1>1, <2>2, SumOne
  <2> QED BY <1>2, <1>3, <2>1, <2>3, ConstFacts
<1>9. CASE a = b
  <2>1. q[a] \in BlockType /\ FreeAt(s, q, a)
    BY <1>6, <1>9
  <2>2. SubSeq(q, a, b) = <<q[a]>>
    <3>1. PICK r : r = SubSeq(q, a, a)
      OBVIOUS
    <3>2. a \in Nat /\ 1 <= a /\ a <= a + 1 /\ a <= Len(q) /\ (a + 1) - a = 1 /\ (a - 1) + 1 = a
      OBVIOUS
    <3>3. /\ r \in Seq(BlockType) /\ Len(r) = (a + 1) - a
          /\ \A i \in 1 .. (a + 1) - a : r[i] = q[(a - 1) + i]
      BY <3>1, <3>2, PartFacts
    <3>4. Len(r) = 1 /\ r[1] = q[a]
      BY <3>2, <3>3
    <3>5. r = <<r[1]>>
      BY <3>3, <3>4, OneLong
    <3> QED BY <1>9, <3>1, <3>4, <3>5
  <2>3. SizeOfBlocks(s, <<q[a]>>) = s.ent[q[a].num].siz
    BY <1>1, <2>1, SumOne
  <2>4. q[a].num \in Entries
    BY <2>1 DEF BlockType
  <2>5. q[a].num \in ToSet(s.free)
    BY <2>1, <2>4 DEF Good, ListsGood, ListOf, FreeAt, Has
  <2>6. PICK i \in 1 .. Len(s.free) : s.free[i] = q[a].num
    BY <1>1, <2>5, ToSetFacts
  <2>7. ~(s.ent[q[a].num].siz >= siz)
    <3>1. i \in DOMAIN s.free /\ i \notin Fits(s, siz)
      BY <1>1, <1>5
    <3> QED BY <2>6, <3>1 DEF Fits
  <2>8. s.ent[q[a].num].siz \in Nat
    BY <1>1, <2>4, EntryFields, ConstFacts
  <2>9. s.ent[q[a].num].siz < siz
    BY <2>7, <2>8, ConstFacts, SMTT(20)
  <2> QED BY <1>2, <1>3, <2>2, <2>3, <2>9
<1> QED BY <1>7, <1>8, <1>9

-----------------------------------------------------------------------------
\* What a call about one object does to the others: nothing.
Others(s, t, n) ==
  /\ \A j : Owned(s, j) /\ j # n => Kept(s, t, j)
  /\ \A j \in Entries : j # n => t.ent[j].locks = s.ent[j].locks \/ t.ent[j].locks \in {0, 1}

\* The entry of n becomes e, and the LRU list follows.
EditOf(s, t, n, e) ==
  /\ t \in StateType /\ t.ent = [s.ent EXCEPT ![n] = e] /\ t.heap = s.heap /\ t.free = s.free
  /\ t.unused = s.unused /\ t.segs = s.segs /\ t.room = s.room /\ ListOf(t.ent, t.lru, "LRU")

\* It is still in memory, or still not, where it was.
EditFits(d, e) ==
  /\ e \in EntryType /\ EntryGood(e) /\ e.siz = d.siz /\ e.at = d.at /\ e.seg = d.seg
  /\ "FREE" \in e.flg <=> "FREE" \in d.flg
  /\ "PRES" \in e.flg <=> "PRES" \in d.flg

\* Lemma: such a change keeps heap, lists and segments as they are.
LEMMA EditGood ==
  ASSUME NEW s, Good(s), NEW n \in Entries, n \notin s.unused, NEW t, NEW e,
         EditOf(s, t, n, e), EditFits(s.ent[n], e)
  PROVE  /\ Good(t) /\ Others(s, t, n) /\ (Owned(s, n) => Owned(t, n))
         /\ t.ent[n] = e /\ DataOf(t, n) = DataOf(s, n)
<1>1. s \in StateType /\ s.ent \in [Entries -> EntryType]
  BY StateFields DEF Good
<1>2. /\ t \in StateType /\ t.ent = [s.ent EXCEPT ![n] = e] /\ t.heap = s.heap /\ t.free = s.free
      /\ t.unused = s.unused /\ t.segs = s.segs /\ t.room = s.room /\ ListOf(t.ent, t.lru, "LRU")
  BY DEF EditOf
<1>3. /\ e \in EntryType /\ EntryGood(e) /\ e.siz = s.ent[n].siz /\ e.at = s.ent[n].at
      /\ e.seg = s.ent[n].seg
      /\ "FREE" \in e.flg <=> "FREE" \in s.ent[n].flg
      /\ "PRES" \in e.flg <=> "PRES" \in s.ent[n].flg
  BY DEF EditFits
<1>4. t.ent[n] = e /\ \A j \in Entries : j # n => t.ent[j] = s.ent[j]
  BY <1>1, <1>2
<1>5. \A j \in Entries : EntryGood(t.ent[j])
  BY <1>3, <1>4 DEF Good
<1>6. HeapGood(t.ent, t.heap)
  <2>1. HeapGood(s.ent, s.heap) /\ s.heap \in Seq(Seq(BlockType)) /\ Separate(s.heap)
    BY <1>1, StateFields DEF Good, HeapGood
  <2>2. ASSUME NEW c \in 1 .. Len(s.heap), NEW i \in 1 .. Len(s.heap[c])
        PROVE  SamePlace(s.ent, t.ent, s.heap[c][i].num, s.heap[c][i].num)
    <3>1. s.heap[c][i].num \in Entries
      BY <2>1, BlocksFacts
    <3> QED BY <1>3, <1>4, <3>1 DEF SamePlace
  <2>3. HeapGood(t.ent, s.heap)
    BY <2>1, <2>2, RelabelHeap
  <2> QED BY <1>2, <2>3
<1>7. HeadersGood(t.ent, t.heap)
  <2>1. \A j \in Entries : InMemory(t.ent[j]) <=> InMemory(s.ent[j])
    BY <1>3, <1>4 DEF InMemory
  <2> QED BY <1>2, <2>1 DEF Good, HeadersGood
<1>8. ListsGood(t.ent, t.free, t.lru)
  <2>1. ListOf(s.ent, s.free, "FREE")
    BY DEF Good, ListsGood
  <2>2. \A j \in Entries : "FREE" \in t.ent[j].flg <=> "FREE" \in s.ent[j].flg
    BY <1>3, <1>4
  <2>3. ListOf(t.ent, s.free, "FREE")
    BY <2>1, <2>2, Zenon DEF ListOf
  <2> QED BY <1>2, <2>3 DEF ListsGood
<1>9. \A j \in t.unused : t.ent[j] = UnusedEntry
  BY <1>1, <1>2, <1>4, StateFields DEF Good
<1>10. SegsGood(t.ent, t.segs)
  <2>1. SegsKept(s.ent, t.ent) /\ SegsGood(s.ent, s.segs)
    BY <1>3, <1>4 DEF SegsKept, Good
  <2> QED BY <1>2, <2>1, SegsStay
<1>11. FileSize(t) <= SwapSize
  BY <1>2, FileStays DEF Good
<1>12. t.room >= 0 /\ t.heap # << >> /\ t.room + Len(t.heap) <= MaxChunks
  BY <1>2 DEF Good
<1>13. Good(t)
  BY <1>2, <1>5, <1>6, <1>7, <1>8, <1>9, <1>10, <1>11, <1>12, GoodParts
<1>14. ASSUME NEW j, Owned(s, j), j # n PROVE Kept(s, t, j)
  <2>1. j \in Entries
    BY <1>14 DEF Owned
  <2>2. j \notin t.unused /\ SameEntry(s, t, j) /\ BlockStays(s, t, j)
    BY <1>2, <1>4, <1>14, <2>1 DEF Owned, SameEntry, BlockStays
  <2>3. Separate(t.heap)
    BY <1>6 DEF HeapGood
  <2> QED BY <1>2, <1>14, <2>2, <2>3, KeptIf
<1>15. Others(s, t, n)
  BY <1>4, <1>14 DEF Others
<1>16. Owned(s, n) => Owned(t, n)
  BY <1>2, <1>3, <1>4 DEF Owned, Has
<1>17. DataOf(t, n) = DataOf(s, n)
  BY <1>2, SameHeap
<1> QED BY <1>4, <1>13, <1>15, <1>16, <1>17

\* A lock more, and a lock less.
LockedEntry(d) == [d EXCEPT !.flg = @ \union {"LOCK"}, !.locks = @ + 1]
AddLock(s, n) == [s EXCEPT !.ent[n].flg = @ \union {"LOCK"}, !.ent[n].locks = @ + 1]

\* Lemma: the entry with a lock more.
LEMMA LockedEntryFacts ==
  ASSUME NEW d \in EntryType, NEW e, e = LockedEntry(d)
  PROVE  /\ e \in EntryType /\ e.flg = d.flg \union {"LOCK"} /\ e.locks = d.locks + 1
         /\ e.siz = d.siz /\ e.at = d.at /\ e.seg = d.seg
<1>1. d.flg \in SUBSET Flags /\ d.locks \in Nat
  BY DEF EntryType
<1>2. d.flg \union {"LOCK"} \in SUBSET Flags /\ d.locks + 1 \in Nat
  BY <1>1 DEF Flags
<1> QED BY <1>2 DEF EntryType, LockedEntry

\* Lemma: the state with it.
LEMMA AddLockState ==
  ASSUME NEW s \in StateType, NEW n \in Entries, NEW x, x = [s.ent EXCEPT ![n] = LockedEntry(s.ent[n])]
  PROVE  AddLock(s, n) = [s EXCEPT !.ent = x]
<1>1. s.ent \in [Entries -> EntryType] /\ s.ent[n] \in EntryType
  BY StateFields
<1> QED BY <1>1 DEF AddLock, LockedEntry, StateType, EntryType

\* Lemma: mcmlck of an object in memory.
LEMMA AddLockGood ==
  ASSUME NEW s, Good(s), NEW n \in Entries, Has(s, n, "PRES"), NEW t, t = AddLock(s, n)
  PROVE  /\ Good(t) /\ Others(s, t, n) /\ Owned(t, n) /\ Has(t, n, "PRES") /\ Has(t, n, "LOCK")
         /\ Stored(t, n) = Stored(s, n) /\ t.ent[n].locks = s.ent[n].locks + 1
         /\ t.ent[n].siz = s.ent[n].siz /\ t.ent[n].at = s.ent[n].at
<1>1. s \in StateType /\ s.ent \in [Entries -> EntryType] /\ s.ent[n] \in EntryType /\ EntryGood(s.ent[n])
  BY StateFields DEF Good
<1>2. PICK e : e = LockedEntry(s.ent[n])
  OBVIOUS
<1>3. /\ e \in EntryType /\ e.flg = s.ent[n].flg \union {"LOCK"} /\ e.locks = s.ent[n].locks + 1
      /\ e.siz = s.ent[n].siz /\ e.at = s.ent[n].at /\ e.seg = s.ent[n].seg
  BY <1>1, <1>2, LockedEntryFacts
<1>4. PICK x : x = [s.ent EXCEPT ![n] = e]
  OBVIOUS
<1>5. x \in [Entries -> EntryType]
  BY <1>1, <1>3, <1>4
<1>6. t = [s EXCEPT !.ent = x]
  BY <1>1, <1>2, <1>4, AddLockState
<1>7. EntryGood(e)
  <2>1. s.ent[n].locks \in Nat
    BY <1>1, EntryFields
  <2> QED BY <1>1, <1>3, <2>1 DEF EntryGood, Has
<1>8. /\ t \in StateType /\ t.ent = x /\ t.heap = s.heap /\ t.free = s.free /\ t.unused = s.unused
      /\ t.lru = s.lru /\ t.segs = s.segs /\ t.room = s.room
  BY <1>1, <1>5, <1>6, WithEnt
<1>9. ListOf(t.ent, t.lru, "LRU")
  <2>1. ListOf(s.ent, s.lru, "LRU")
    BY DEF Good, ListsGood
  <2>2. \A j \in Entries : "LRU" \in x[j].flg <=> "LRU" \in s.ent[j].flg
    BY <1>1, <1>3, <1>4
  <2>3. ListOf(x, s.lru, "LRU")
    BY <2>1, <2>2, Zenon DEF ListOf
  <2> QED BY <1>8, <2>3
<1>10. EditOf(s, t, n, e) /\ EditFits(s.ent[n], e)
  BY <1>3, <1>4, <1>7, <1>8, <1>9 DEF EditOf, EditFits
<1>11. n \notin s.unused /\ Owned(s, n)
  BY <1>1, UnusedEntryFacts DEF Good, Has, Owned, EntryGood
<1>12. /\ Good(t) /\ Others(s, t, n) /\ Owned(t, n) /\ t.ent[n] = e /\ DataOf(t, n) = DataOf(s, n)
  BY <1>10, <1>11, EditGood
<1>13. Has(t, n, "PRES") /\ Has(t, n, "LOCK")
  BY <1>3, <1>12 DEF Has
<1>14. Stored(t, n) = Stored(s, n)
  BY <1>12, <1>13, Zenon DEF Stored
<1> QED BY <1>3, <1>12, <1>13, <1>14

\* What mcmuse does to an entry.
UsedEntry(d) == [d EXCEPT !.flg = @ \union {"LRU"}]

\* Lemma: that entry.
LEMMA UsedEntryFacts ==
  ASSUME NEW d \in EntryType, NEW e, e = UsedEntry(d)
  PROVE  /\ e \in EntryType /\ e.flg = d.flg \union {"LRU"} /\ e.locks = d.locks
         /\ e.siz = d.siz /\ e.at = d.at /\ e.seg = d.seg
<1>1. d.flg \union {"LRU"} \in SUBSET Flags
  BY DEF Flags, EntryType
<1> QED BY <1>1 DEF EntryType, UsedEntry

\* Lemma: the parts of the state after mcmuse.
LEMMA UsedFields ==
  ASSUME NEW s \in StateType, IsInjective(s.lru), NEW n \in Entries
  PROVE  Fields(mcmuse(s, n), [s.ent EXCEPT ![n] = UsedEntry(s.ent[n])], s.heap, s.free, s.unused,
                Append(RemoveFirst(s.lru, n), n), s.segs, s.room)
<1>1. s.ent \in [Entries -> EntryType] /\ s.lru \in Seq(Entries) /\ s.ent[n] \in EntryType
  BY StateFields
<1>2. PICK e : e = UsedEntry(s.ent[n])
  OBVIOUS
<1>3. e \in EntryType
  BY <1>1, <1>2, UsedEntryFacts
<1>4. PICK x : x = [s.ent EXCEPT ![n] = e]
  OBVIOUS
<1>5. x \in [Entries -> EntryType]
  BY <1>1, <1>3, <1>4
<1>6. PICK f : f = RemoveFirst(s.lru, n)
  OBVIOUS
<1>7. f \in Seq(Entries)
  BY <1>1, <1>6, RemoveFirstFacts
<1>8. Append(f, n) \in Seq(Entries)
  BY <1>7
<1>9. PICK t : t = [s EXCEPT !.lru = Append(f, n), !.ent = x]
  OBVIOUS
<1>10. Fields(t, x, s.heap, s.free, s.unused, Append(f, n), s.segs, s.room)
  BY <1>5, <1>8, <1>9 DEF Fields, StateType
<1>11. t = mcmuse(s, n)
  BY <1>1, <1>2, <1>4, <1>6, <1>9 DEF mcmuse, UsedEntry
<1> QED BY <1>2, <1>4, <1>6, <1>10, <1>11

\* s with the entry d for n; it need not agree with the LRU list.
Edited(s, u, n, d) ==
  /\ u \in StateType /\ u.ent = [s.ent EXCEPT ![n] = d] /\ u.heap = s.heap /\ u.free = s.free
  /\ u.unused = s.unused /\ u.segs = s.segs /\ u.room = s.room /\ u.lru = s.lru

\* Lemma: mcmuse makes it agree.
LEMMA UseEdit ==
  ASSUME NEW s, Good(s), NEW n \in Entries, NEW d \in EntryType, NEW u, Edited(s, u, n, d),
         NEW t, t = mcmuse(u, n)
  PROVE  EditOf(s, t, n, UsedEntry(d))
<1>1. /\ u \in StateType /\ u.ent = [s.ent EXCEPT ![n] = d] /\ u.heap = s.heap /\ u.free = s.free
      /\ u.unused = s.unused /\ u.segs = s.segs /\ u.room = s.room /\ u.lru = s.lru
  BY DEF Edited
<1>2. s \in StateType /\ s.ent \in [Entries -> EntryType] /\ s.lru \in Seq(Entries)
      /\ ListOf(s.ent, s.lru, "LRU") /\ IsInjective(s.lru)
  BY StateFields DEF Good, ListsGood, ListOf
<1>3. PICK e : e = UsedEntry(d)
  OBVIOUS
<1>4. e \in EntryType /\ e.flg = d.flg \union {"LRU"}
  BY <1>3, UsedEntryFacts
<1>5. PICK x : x = [s.ent EXCEPT ![n] = e]
  OBVIOUS
<1>6. Fields(t, x, s.heap, s.free, s.unused, Append(RemoveFirst(s.lru, n), n), s.segs, s.room)
  <2>1. u.ent[n] = d /\ [u.ent EXCEPT ![n] = e] = x
    BY <1>1, <1>2, <1>5
  <2>2. u \in StateType /\ IsInjective(u.lru)
    BY <1>1, <1>2
  <2>3. Fields(mcmuse(u, n), [u.ent EXCEPT ![n] = UsedEntry(u.ent[n])], u.heap, u.free, u.unused,
                Append(RemoveFirst(u.lru, n), n), u.segs, u.room)
    BY <2>2, UsedFields
  <2>4. [u.ent EXCEPT ![n] = UsedEntry(u.ent[n])] = x
    BY <1>3, <2>1
  <2> QED BY <1>1, <2>3, <2>4
<1>7. PICK y : y = [s.ent EXCEPT ![n] = UnusedEntry]
  OBVIOUS
<1>8. y \in [Entries -> EntryType] /\ "LRU" \notin y[n].flg
  BY <1>2, <1>7, UnusedEntryFacts
<1>9. FlagStays(s.ent, y, "LRU", n) /\ FlagStays(y, x, "LRU", n)
  BY <1>2, <1>5, <1>7 DEF FlagStays
<1>10. PICK f : f = RemoveFirst(s.lru, n)
  OBVIOUS
<1>11. f \in Seq(Entries) /\ ListOf(y, f, "LRU")
  BY <1>2, <1>8, <1>9, <1>10, ListDrop
<1>12. x[n] = e /\ "LRU" \in x[n].flg
  BY <1>2, <1>4, <1>5
<1>13. ListOf(x, Append(f, n), "LRU")
  BY <1>8, <1>9, <1>11, <1>12, ListSnoc
<1> QED BY <1>3, <1>5, <1>6, <1>10, <1>13 DEF EditOf, Fields

\* s with another entry for n.
WithEntry(s, n, d) == [s EXCEPT !.ent = [s.ent EXCEPT ![n] = d]]

\* The two ways to give up a lock.
LessEntry(d) == [d EXCEPT !.locks = @ - 1]
DropLock(s, n) == [s EXCEPT !.ent[n].locks = @ - 1]
OpenEntry(d) == [d EXCEPT !.locks = 0, !.flg = @ \ {"LOCK"}]
LastLock(s, n) == [s EXCEPT !.ent[n].locks = 0, !.ent[n].flg = @ \ {"LOCK"}]

\* Lemma: the entry with a lock less.
LEMMA LessEntryFacts ==
  ASSUME NEW d \in EntryType, d.locks > 1, NEW e, e = LessEntry(d)
  PROVE  /\ e \in EntryType /\ e.flg = d.flg /\ e.locks = d.locks - 1
         /\ e.siz = d.siz /\ e.at = d.at /\ e.seg = d.seg
<1>1. d.locks \in Nat
  BY DEF EntryType
<1>2. d.locks - 1 \in Nat
  BY <1>1
<1> QED BY <1>2 DEF EntryType, LessEntry

\* Lemma: the entry without locks.
LEMMA OpenEntryFacts ==
  ASSUME NEW d \in EntryType, NEW e, e = OpenEntry(d)
  PROVE  /\ e \in EntryType /\ e.flg = d.flg \ {"LOCK"} /\ e.locks = 0
         /\ e.siz = d.siz /\ e.at = d.at /\ e.seg = d.seg
BY DEF EntryType, OpenEntry

\* Lemma: the states.
LEMMA UnlockedStates ==
  ASSUME NEW s \in StateType, NEW n \in Entries
  PROVE  /\ DropLock(s, n) = WithEntry(s, n, LessEntry(s.ent[n]))
         /\ LastLock(s, n) = WithEntry(s, n, OpenEntry(s.ent[n]))
<1>1. s.ent \in [Entries -> EntryType] /\ s.ent[n] \in EntryType
  BY StateFields
<1>2. DropLock(s, n) = WithEntry(s, n, LessEntry(s.ent[n]))
  BY <1>1 DEF WithEntry, DropLock, LessEntry, StateType, EntryType
<1>3. LastLock(s, n) = WithEntry(s, n, OpenEntry(s.ent[n]))
  BY <1>1 DEF WithEntry, LastLock, OpenEntry, StateType, EntryType
<1> QED BY <1>2, <1>3

\* Lemma: a state with another entry.
LEMMA EditedState ==
  ASSUME NEW s \in StateType, NEW n \in Entries, NEW d \in EntryType, NEW u,
         u = WithEntry(s, n, d)
  PROVE  Edited(s, u, n, d)
<1>1. s.ent \in [Entries -> EntryType]
  BY StateFields
<1>2. PICK x : x = [s.ent EXCEPT ![n] = d]
  OBVIOUS
<1>3. x \in [Entries -> EntryType]
  BY <1>1, <1>2
<1>4. u = [s EXCEPT !.ent = x]
  BY <1>2 DEF WithEntry
<1>5. /\ u \in StateType /\ u.ent = x /\ u.heap = s.heap /\ u.free = s.free /\ u.unused = s.unused
      /\ u.lru = s.lru /\ u.segs = s.segs /\ u.room = s.room
  BY <1>3, <1>4, WithEnt
<1> QED BY <1>2, <1>5 DEF Edited

\* Lemma: an edit that leaves the LRU flag.
LEMMA EditSame ==
  ASSUME NEW s, Good(s), NEW n \in Entries, NEW d, NEW t, Edited(s, t, n, d),
         "LRU" \in d.flg <=> "LRU" \in s.ent[n].flg
  PROVE  EditOf(s, t, n, d)
<1>1. s.ent \in [Entries -> EntryType] /\ ListOf(s.ent, s.lru, "LRU")
  BY StateFields DEF Good, ListsGood
<1>2. t.ent = [s.ent EXCEPT ![n] = d] /\ t.lru = s.lru
  BY DEF Edited
<1>3. \A j \in Entries : "LRU" \in t.ent[j].flg <=> "LRU" \in s.ent[j].flg
  BY <1>1, <1>2
<1>4. ListOf(t.ent, t.lru, "LRU")
  BY <1>1, <1>2, <1>3, Zenon DEF ListOf
<1> QED BY <1>4 DEF Edited, EditOf

\* What a call leaves of the object it is about: it is in memory where it was,
\* with what it held.
StaysIn(s, t, n) ==
  /\ Owned(t, n) /\ Has(t, n, "PRES") /\ Stored(t, n) = Stored(s, n)
  /\ t.ent[n].siz = s.ent[n].siz /\ t.ent[n].at = s.ent[n].at

\* Lemma: an object in memory stays there when its entry is edited.
LEMMA EditStays ==
  ASSUME NEW s, Good(s), NEW n \in Entries, Has(s, n, "PRES"), NEW t, NEW e,
         EditOf(s, t, n, e), EditFits(s.ent[n], e)
  PROVE  Good(t) /\ Others(s, t, n) /\ StaysIn(s, t, n) /\ t.ent[n] = e
<1>1. n \notin s.unused /\ Owned(s, n)
  BY UnusedEntryFacts DEF Good, Has, Owned, EntryGood
<1>2. Good(t) /\ Others(s, t, n) /\ Owned(t, n) /\ t.ent[n] = e /\ DataOf(t, n) = DataOf(s, n)
  BY <1>1, EditGood
<1>3. Has(t, n, "PRES") /\ t.ent[n].siz = s.ent[n].siz /\ t.ent[n].at = s.ent[n].at
  BY <1>2 DEF EditFits, Has
<1>4. Stored(t, n) = Stored(s, n)
  BY <1>2, <1>3, Zenon DEF Stored
<1> QED BY <1>2, <1>3, <1>4 DEF StaysIn

\* Lemma: mcmunlck.
LEMMA mcmunlckGood ==
  ASSUME NEW s, Good(s), NEW n \in Entries, Has(s, n, "LOCK"), NEW t, t = mcmunlck(s, n)
  PROVE  /\ Good(t) /\ Others(s, t, n) /\ StaysIn(s, t, n) /\ t.ent[n].locks = s.ent[n].locks - 1
         /\ t.ent[n].locks \in Nat
<1>1. /\ s \in StateType /\ s.ent[n] \in EntryType /\ EntryGood(s.ent[n]) /\ s.ent[n].locks \in Nat
      /\ s.ent[n].locks > 0 /\ Has(s, n, "PRES")
  <2>1. s \in StateType /\ EntryGood(s.ent[n])
    BY DEF Good
  <2>2. s.ent[n] \in EntryType /\ s.ent[n].locks \in Nat
    BY <2>1, EntryFields
  <2> QED BY <2>1, <2>2 DEF EntryGood, Has
<1>2. CASE s.ent[n].locks > 1
  <2>1. PICK e : e = LessEntry(s.ent[n])
    OBVIOUS
  <2>2. /\ e \in EntryType /\ e.flg = s.ent[n].flg /\ e.locks = s.ent[n].locks - 1
        /\ e.siz = s.ent[n].siz /\ e.at = s.ent[n].at /\ e.seg = s.ent[n].seg
    BY <1>1, <1>2, <2>1, LessEntryFacts
  <2>3. t = DropLock(s, n)
    BY <1>2, Zenon DEF mcmunlck, DropLock
  <2>4. t = WithEntry(s, n, e)
    BY <1>1, <2>1, <2>3, UnlockedStates
  <2>5. Edited(s, t, n, e)
    BY <1>1, <2>2, <2>4, EditedState
  <2>6. EditOf(s, t, n, e)
    BY <2>2, <2>5, EditSame
  <2>7. EntryGood(e)
    BY <1>1, <1>2, <2>2 DEF EntryGood
  <2>8. EditFits(s.ent[n], e)
    BY <2>2, <2>7 DEF EditFits
  <2>9. Good(t) /\ Others(s, t, n) /\ StaysIn(s, t, n) /\ t.ent[n] = e
    BY <1>1, <2>6, <2>8, EditStays
  <2> QED BY <1>1, <1>2, <2>2, <2>9
<1>3. CASE ~(s.ent[n].locks > 1)
  <2>1. PICK d : d = OpenEntry(s.ent[n])
    OBVIOUS
  <2>2. /\ d \in EntryType /\ d.flg = s.ent[n].flg \ {"LOCK"} /\ d.locks = 0
        /\ d.siz = s.ent[n].siz /\ d.at = s.ent[n].at /\ d.seg = s.ent[n].seg
    BY <1>1, <2>1, OpenEntryFacts
  <2>3. PICK u : u = LastLock(s, n)
    OBVIOUS
  <2>4. t = mcmuse(u, n)
    BY <1>3, <2>3, Zenon DEF mcmunlck, LastLock
  <2>5. u = WithEntry(s, n, d)
    BY <1>1, <2>1, <2>3, UnlockedStates
  <2>6. Edited(s, u, n, d)
    BY <1>1, <2>2, <2>5, EditedState
  <2>7. PICK e : e = UsedEntry(d)
    OBVIOUS
  <2>8. /\ e \in EntryType /\ e.flg = d.flg \union {"LRU"} /\ e.locks = d.locks
        /\ e.siz = d.siz /\ e.at = d.at /\ e.seg = d.seg
    BY <2>2, <2>7, UsedEntryFacts
  <2>9. EditOf(s, t, n, e)
    BY <2>2, <2>4, <2>6, <2>7, UseEdit
  <2>10. EntryGood(e)
    BY <1>1, <2>2, <2>8 DEF EntryGood, Has
  <2>11. EditFits(s.ent[n], e)
    BY <1>1, <2>2, <2>8, <2>10 DEF EditFits
  <2>12. Good(t) /\ Others(s, t, n) /\ StaysIn(s, t, n) /\ t.ent[n] = e
    BY <1>1, <2>9, <2>11, EditStays
  <2> QED BY <1>1, <1>3, <2>2, <2>8, <2>12
<1> QED BY <1>2, <1>3

-----------------------------------------------------------------------------
\* The data of an object.

\* One block is given other data.
DataPut(s, t, n, data) ==
  /\ Fields(t, s.ent, t.heap, s.free, s.unused, s.lru, s.segs, s.room)
  /\ HeapGood(t.ent, t.heap) /\ Len(t.heap) = Len(s.heap)
  /\ \A x : x \in BlocksOf(t.heap) <=> x = Block(n, data) \/ (x \in BlocksOf(s.heap) /\ x.num # n)

\* Lemma: that is what SetData does.
LEMMA SetDataFields ==
  ASSUME NEW s, Good(s), NEW n \in Entries, Has(s, n, "PRES"), NEW data \in Versions,
         NEW t, t = SetData(s, n, data)
  PROVE  DataPut(s, t, n, data)
<1>1. /\ s \in StateType /\ s.heap \in Seq(Seq(BlockType)) /\ HeapGood(s.ent, s.heap)
      /\ Separate(s.heap)
  BY StateFields DEF Good, HeapGood
<1>2. PICK c \in 1 .. Len(s.heap) : \E i \in 1 .. Len(s.heap[c]) :
        s.heap[c][i].num = n /\ PlaceOf(s, n) = <<c, i>> /\ DataOf(s, n) = s.heap[c][i].data
  BY HeaderPlace
<1>3. PICK i \in 1 .. Len(s.heap[c]) : s.heap[c][i].num = n /\ PlaceOf(s, n) = <<c, i>>
  BY <1>2
<1>4. PICK b : b = Block(n, data)
  OBVIOUS
<1>5. b \in BlockType /\ b.num = n
  BY <1>4 DEF Block, BlockType
<1>6. PICK new : new = [s.heap EXCEPT ![c][i] = b]
  OBVIOUS
<1>7. Relabelled(s.heap, c, i, b)
  <2>1. b.num = s.heap[c][i].num
    BY <1>3, <1>5
  <2>2. s.heap \in Seq(Seq(BlockType)) /\ Separate(s.heap)
    BY <1>1
  <2> QED BY <1>5, <2>1, <2>2, RelabelOne
<1>8. /\ new \in Seq(Seq(BlockType)) /\ Len(new) = Len(s.heap) /\ Separate(new)
      /\ \A d \in 1 .. Len(s.heap) : Len(new[d]) = Len(s.heap[d])
      /\ new[c][i] = b
      /\ \A d \in 1 .. Len(s.heap) : \A j \in 1 .. Len(s.heap[d]) : d # c \/ j # i => new[d][j] = s.heap[d][j]
      /\ \A x : x \in BlocksOf(new) <=> x = b \/ (x \in BlocksOf(s.heap) /\ x.num # s.heap[c][i].num)
  BY <1>6, <1>7, Zenon DEF Relabelled
<1>9. HeapGood(s.ent, new)
  <2>1. ASSUME NEW d \in 1 .. Len(s.heap), NEW j \in 1 .. Len(s.heap[d])
        PROVE  SamePlace(s.ent, s.ent, new[d][j].num, s.heap[d][j].num)
    <3>1. new[d][j].num = s.heap[d][j].num
      BY <1>3, <1>5, <1>8
    <3> QED BY <3>1 DEF SamePlace
  <2> QED BY <1>1, <1>8, <2>1, RelabelHeap
<1>10. t = [s EXCEPT !.heap = new]
  BY <1>3, <1>4, <1>6 DEF SetData, SetBlock
<1>11. /\ t \in StateType /\ t.heap = new
       /\ t.ent = s.ent /\ t.free = s.free /\ t.unused = s.unused
       /\ t.lru = s.lru /\ t.segs = s.segs /\ t.room = s.room
  <2>1. s \in StateType
    BY <1>1
  <2>2. new \in Seq(Seq(BlockType))
    BY <1>8
  <2> QED BY <1>10, <2>1, <2>2, WithHeap
<1>12. Fields(t, s.ent, t.heap, s.free, s.unused, s.lru, s.segs, s.room)
  BY <1>11 DEF Fields
<1>13. \A x : x \in BlocksOf(t.heap) <=> x = Block(n, data) \/ (x \in BlocksOf(s.heap) /\ x.num # n)
  BY <1>3, <1>4, <1>8, <1>11
<1> QED BY <1>8, <1>9, <1>11, <1>12, <1>13 DEF DataPut

\* Lemma: nothing else changes.
LEMMA DataPutGood ==
  ASSUME NEW s, Good(s), NEW n \in Entries, Has(s, n, "PRES"), NEW data \in Versions,
         NEW t, DataPut(s, t, n, data)
  PROVE  Good(t) /\ Others(s, t, n) /\ Owned(t, n) /\ Stored(t, n) = data /\ t.ent = s.ent
<1>1. /\ t \in StateType /\ t.ent = s.ent /\ t.free = s.free /\ t.unused = s.unused
      /\ t.lru = s.lru /\ t.segs = s.segs /\ t.room = s.room
      /\ HeapGood(t.ent, t.heap) /\ Len(t.heap) = Len(s.heap)
      /\ \A x : x \in BlocksOf(t.heap) <=> x = Block(n, data) \/ (x \in BlocksOf(s.heap) /\ x.num # n)
  BY Zenon DEF DataPut, Fields
<1>2. Block(n, data).num = n /\ Block(n, data).data = data
  BY DEF Block
<1>3. HeadersGood(t.ent, t.heap)
  <2> SUFFICES ASSUME NEW j \in Entries
               PROVE  InMemory(t.ent[j]) <=> \E x \in BlocksOf(t.heap) : x.num = j
    BY DEF HeadersGood
  <2>1. InMemory(s.ent[j]) <=> \E x \in BlocksOf(s.heap) : x.num = j
    BY DEF Good, HeadersGood
  <2>2. CASE j = n
    BY <1>1, <1>2, <2>2 DEF InMemory, Has
  <2>3. CASE j # n
    BY <1>1, <1>2, <2>1, <2>3
  <2> QED BY <2>2, <2>3
<1>4. FileSize(t) <= SwapSize
  BY <1>1, FileStays DEF Good
<1>5. t.room >= 0 /\ t.heap # << >> /\ t.room + Len(t.heap) <= MaxChunks
  <2>1. s.heap # << >> /\ s.heap \in Seq(Seq(BlockType)) /\ t.heap \in Seq(Seq(BlockType))
    BY <1>1, StateFields DEF Good
  <2>2. t.heap # << >>
    BY <1>1, <2>1
  <2> QED BY <1>1, <2>2 DEF Good
<1>6. Good(t)
  <2>1. \A j \in Entries : EntryGood(t.ent[j])
    BY <1>1 DEF Good
  <2>2. ListsGood(t.ent, t.free, t.lru) /\ SegsGood(t.ent, t.segs)
    BY <1>1 DEF Good
  <2>3. \A j \in t.unused : t.ent[j] = UnusedEntry
    BY <1>1 DEF Good
  <2> QED BY <1>1, <1>3, <1>4, <1>5, <2>1, <2>2, <2>3, GoodParts
<1>7. Separate(t.heap)
  BY <1>1 DEF HeapGood
<1>8. ASSUME NEW j, Owned(s, j), j # n PROVE Kept(s, t, j)
  <2>1. j \notin t.unused /\ SameEntry(s, t, j) /\ BlockStays(s, t, j)
    BY <1>1, <1>8 DEF Owned, SameEntry, BlockStays
  <2> QED BY <1>1, <1>7, <1>8, <2>1, KeptIf
<1>9. Others(s, t, n)
  BY <1>1, <1>8 DEF Others
<1>10. Owned(t, n)
  BY <1>1, UnusedEntryFacts DEF Good, Has, Owned, EntryGood
<1>11. Stored(t, n) = data
  <2>1. Has(t, n, "PRES")
    BY <1>1 DEF Has
  <2>2. Block(n, data) \in BlocksOf(t.heap)
    BY <1>1
  <2>3. DataOf(t, Block(n, data).num) = Block(n, data).data
    BY <1>1, <1>7, <2>2, DataFacts
  <2> QED BY <1>2, <2>1, <2>3 DEF Stored
<1> QED BY <1>1, <1>6, <1>9, <1>10, <1>11

\* Lemma: an object in memory is written (mcmtch, mcmalo, objrevert).
LEMMA SetDataGood ==
  ASSUME NEW s, Good(s), NEW n \in Entries, Has(s, n, "PRES"), NEW data \in Versions,
         NEW t, t = SetData(s, n, data)
  PROVE  Good(t) /\ Others(s, t, n) /\ Owned(t, n) /\ Stored(t, n) = data /\ t.ent = s.ent
BY SetDataFields, DataPutGood

\* Lemma: mcmuse of an object in memory.
LEMMA mcmuseGood ==
  ASSUME NEW s, Good(s), NEW n \in Entries, Has(s, n, "PRES"), NEW t, t = mcmuse(s, n)
  PROVE  /\ Good(t) /\ Others(s, t, n) /\ StaysIn(s, t, n) /\ t.ent[n].locks = s.ent[n].locks
<1>1. /\ s \in StateType /\ s.ent \in [Entries -> EntryType] /\ s.ent[n] \in EntryType /\ EntryGood(s.ent[n])
  BY StateFields DEF Good
<1>2. Edited(s, s, n, s.ent[n])
  BY <1>1 DEF Edited
<1>3. PICK e : e = UsedEntry(s.ent[n])
  OBVIOUS
<1>4. /\ e \in EntryType /\ e.flg = s.ent[n].flg \union {"LRU"} /\ e.locks = s.ent[n].locks
      /\ e.siz = s.ent[n].siz /\ e.at = s.ent[n].at /\ e.seg = s.ent[n].seg
  BY <1>1, <1>3, UsedEntryFacts
<1>5. EditOf(s, t, n, e)
  BY <1>1, <1>2, <1>3, UseEdit
<1>6. EntryGood(e)
  BY <1>1, <1>4 DEF EntryGood, Has
<1>7. EditFits(s.ent[n], e)
  BY <1>4, <1>6 DEF EditFits
<1>8. Good(t) /\ Others(s, t, n) /\ StaysIn(s, t, n) /\ t.ent[n] = e
  BY <1>5, <1>7, EditStays
<1> QED BY <1>4, <1>8

-----------------------------------------------------------------------------
\* Reverting an object.

\* An object that is not in memory is to be reset when it is loaded.
RevertEntry(d) == [d EXCEPT !.flg = @ \union {"REVRT"}]
RevertLater(s, n) == [s EXCEPT !.ent[n].flg = @ \union {"REVRT"}]

\* Lemma: its entry, and the state.
LEMMA RevertFacts ==
  ASSUME NEW s \in StateType, NEW n \in Entries, NEW e, e = RevertEntry(s.ent[n])
  PROVE  /\ e \in EntryType /\ e.flg = s.ent[n].flg \union {"REVRT"} /\ e.locks = s.ent[n].locks
         /\ e.siz = s.ent[n].siz /\ e.at = s.ent[n].at /\ e.seg = s.ent[n].seg
         /\ RevertLater(s, n) = WithEntry(s, n, e)
<1>1. s.ent \in [Entries -> EntryType] /\ s.ent[n] \in EntryType
  BY StateFields
<1>2. \A d \in EntryType : /\ RevertEntry(d) \in EntryType
                           /\ RevertEntry(d).flg = d.flg \union {"REVRT"} /\ RevertEntry(d).locks = d.locks
                           /\ RevertEntry(d).siz = d.siz /\ RevertEntry(d).at = d.at /\ RevertEntry(d).seg = d.seg
  <2> SUFFICES ASSUME NEW d \in EntryType
               PROVE  /\ RevertEntry(d) \in EntryType
                      /\ RevertEntry(d).flg = d.flg \union {"REVRT"} /\ RevertEntry(d).locks = d.locks
                      /\ RevertEntry(d).siz = d.siz /\ RevertEntry(d).at = d.at /\ RevertEntry(d).seg = d.seg
    OBVIOUS
  <2>1. d.flg \union {"REVRT"} \in SUBSET Flags
    BY DEF EntryType, Flags
  <2> QED BY <2>1 DEF EntryType, RevertEntry
<1>3. RevertLater(s, n) = WithEntry(s, n, RevertEntry(s.ent[n]))
  BY <1>1 DEF RevertLater, WithEntry, RevertEntry, StateType, EntryType
<1> QED BY <1>1, <1>2, <1>3

\* Lemma: mcmrevert of an object that is not in memory.
LEMMA RevertLaterGood ==
  ASSUME NEW s, Good(s), NEW n, Owned(s, n), ~Has(s, n, "PRES"), NEW t, t = RevertLater(s, n)
  PROVE  /\ Good(t) /\ Others(s, t, n) /\ Owned(t, n) /\ Stored(t, n) = 0
         /\ t.ent[n].locks = s.ent[n].locks /\ t.ent[n].siz = s.ent[n].siz
<1>1. n \in Entries /\ n \notin s.unused /\ s \in StateType /\ EntryGood(s.ent[n])
      /\ "FREE" \notin s.ent[n].flg /\ "PRES" \notin s.ent[n].flg
  BY DEF Owned, Good, Has
<1>2. PICK e : e = RevertEntry(s.ent[n])
  OBVIOUS
<1>3. /\ e \in EntryType /\ e.flg = s.ent[n].flg \union {"REVRT"} /\ e.locks = s.ent[n].locks
      /\ e.siz = s.ent[n].siz /\ e.at = s.ent[n].at /\ e.seg = s.ent[n].seg
      /\ RevertLater(s, n) = WithEntry(s, n, e)
  BY <1>1, <1>2, RevertFacts
<1>4. t = WithEntry(s, n, e)
  BY <1>3
<1>5. Edited(s, t, n, e)
  BY <1>1, <1>3, <1>4, EditedState
<1>6. EditOf(s, t, n, e)
  BY <1>1, <1>3, <1>5, EditSame
<1>7. EditFits(s.ent[n], e)
  <2>1. EntryGood(e)
    BY <1>1, <1>3 DEF EntryGood
  <2> QED BY <1>3, <2>1 DEF EditFits
<1>8. Good(t) /\ Others(s, t, n) /\ Owned(t, n) /\ t.ent[n] = e
  BY <1>1, <1>6, <1>7, EditGood
<1>9. Stored(t, n) = 0
  <2>1. ~Has(t, n, "PRES") /\ Has(t, n, "REVRT")
    BY <1>1, <1>3, <1>8 DEF Has
  <2> QED BY <2>1 DEF Stored
<1> QED BY <1>3, <1>8, <1>9

\* An object is freed.
GoneEntry(d) == [d EXCEPT !.flg = {"FREE"}, !.seg = NoSeg]
Gone(s, n) == [s EXCEPT !.ent[n].flg = {"FREE"}, !.lru = RemoveFirst(@, n), !.ent[n].seg = NoSeg]

\* Lemma: the entry of its block.
LEMMA GoneEntryFacts ==
  ASSUME NEW d \in EntryType, NEW e, e = GoneEntry(d)
  PROVE  /\ e \in EntryType /\ e.flg = {"FREE"} /\ e.locks = d.locks
         /\ e.siz = d.siz /\ e.at = d.at /\ e.seg = NoSeg
BY DEF EntryType, GoneEntry, Flags, NoSeg

\* Lemma: the parts of the state.
LEMMA GoneFields ==
  ASSUME NEW s \in StateType, IsInjective(s.lru), NEW n \in Entries
  PROVE  Fields(mcmgfre(s, n), [s.ent EXCEPT ![n] = GoneEntry(s.ent[n])], s.heap, <<n>> \o s.free,
                s.unused, RemoveFirst(s.lru, n), s.segs, s.room)
<1>1. s.ent \in [Entries -> EntryType] /\ s.lru \in Seq(Entries) /\ s.ent[n] \in EntryType
  BY StateFields
<1>2. PICK e : e = GoneEntry(s.ent[n])
  OBVIOUS
<1>3. e \in EntryType
  BY <1>1, <1>2, GoneEntryFacts
<1>4. PICK x : x = [s.ent EXCEPT ![n] = e]
  OBVIOUS
<1>5. x \in [Entries -> EntryType]
  BY <1>1, <1>3, <1>4
<1>6. PICK f : f = RemoveFirst(s.lru, n)
  OBVIOUS
<1>7. f \in Seq(Entries)
  BY <1>1, <1>6, RemoveFirstFacts
<1>8. PICK u : u = [s EXCEPT !.lru = f, !.ent = x]
  OBVIOUS
<1>9. Fields(u, x, s.heap, s.free, s.unused, f, s.segs, s.room)
  BY <1>5, <1>7, <1>8 DEF Fields, StateType
<1>10. u = Gone(s, n)
  <2>1. \A d \in EntryType : [[d EXCEPT !.flg = {"FREE"}] EXCEPT !.seg = NoSeg] = GoneEntry(d)
    BY DEF GoneEntry
  <2>2. PICK x1 : x1 = [s.ent EXCEPT ![n].flg = {"FREE"}]
    OBVIOUS
  <2>3. x = [x1 EXCEPT ![n].seg = NoSeg]
    BY <1>1, <1>2, <1>4, <2>1, <2>2
  <2>4. PICK u1 : u1 = [s EXCEPT !.ent = x1]
    OBVIOUS
  <2>5. u1 = [s EXCEPT !.ent[n].flg = {"FREE"}]
    BY <2>2, <2>4
  <2>6. u1.ent = x1 /\ u1.lru = s.lru
    BY <2>4 DEF StateType
  <2>7. PICK u2 : u2 = [u1 EXCEPT !.lru = f]
    OBVIOUS
  <2>8. u2.ent = x1
    BY <2>4, <2>6, <2>7 DEF StateType
  <2>9. [u2 EXCEPT !.ent[n].seg = NoSeg] = [u2 EXCEPT !.ent = x]
    BY <2>3, <2>8
  <2>10. Gone(s, n) = [u2 EXCEPT !.ent[n].seg = NoSeg]
    BY <1>6, <2>5, <2>7 DEF Gone
  <2>11. [u2 EXCEPT !.ent = x] = u
    BY <1>8, <2>4, <2>7 DEF StateType
  <2> QED BY <2>9, <2>10, <2>11
<1>11. PICK t : t = mcmgfre(s, n)
  OBVIOUS
<1>12. t = LinkFree(u, n)
  BY <1>10, <1>11, Zenon DEF mcmgfre, Gone
<1>13. u \in StateType
  BY <1>9 DEF Fields
<1>14. /\ t \in StateType /\ t.free = <<n>> \o u.free
       /\ t.ent = u.ent /\ t.unused = u.unused
       /\ t.heap = u.heap /\ t.lru = u.lru /\ t.segs = u.segs /\ t.room = u.room
  BY <1>12, <1>13, LinkFreeFacts
<1>15. Fields(t, x, s.heap, <<n>> \o s.free, s.unused, f, s.segs, s.room)
  BY <1>9, <1>14, Zenon DEF Fields
<1> QED BY <1>2, <1>4, <1>6, <1>11, <1>15

-----------------------------------------------------------------------------
\* Freeing an object.

\* Lemma: freeing an object that is in memory and not locked gives its block to
\* the free list and leaves the others alone (mcmgfre).
LEMMA mcmgfreGood ==
  ASSUME NEW s, Good(s), NEW n \in Entries, Has(s, n, "PRES"), s.ent[n].locks = 0,
         NEW t, t = mcmgfre(s, n)
  PROVE  Good(t) /\ Others(s, t, n) /\ t.ent[n].locks = 0
<1>1. /\ s \in StateType /\ s.ent \in [Entries -> EntryType] /\ EntryGood(s.ent[n])
      /\ s.ent[n] \in EntryType /\ n \notin s.unused /\ s.lru \in Seq(Entries) /\ s.free \in Seq(Entries)
  BY StateFields, UnusedEntryFacts DEF Good, Has
<1>2. PICK e : e = GoneEntry(s.ent[n])
  OBVIOUS
<1>3. /\ e \in EntryType /\ e.flg = {"FREE"} /\ e.locks = 0
      /\ e.siz = s.ent[n].siz /\ e.at = s.ent[n].at /\ e.seg = NoSeg
  BY <1>1, <1>2, GoneEntryFacts
<1>4. EntryGood(e)
  BY <1>3 DEF EntryGood
<1>5. ListOf(s.ent, s.free, "FREE") /\ ListOf(s.ent, s.lru, "LRU") /\ IsInjective(s.lru)
  BY DEF Good, ListsGood, ListOf
<1>6. PICK x : x = [s.ent EXCEPT ![n] = e]
  OBVIOUS
<1>7. Fields(t, x, s.heap, <<n>> \o s.free, s.unused, RemoveFirst(s.lru, n), s.segs, s.room)
  <2>1. s \in StateType /\ IsInjective(s.lru)
    BY <1>1, <1>5
  <2> QED BY <1>2, <1>6, <2>1, GoneFields
<1>8. /\ t \in StateType /\ t.ent = x /\ t.heap = s.heap /\ t.free = <<n>> \o s.free
      /\ t.unused = s.unused /\ t.lru = RemoveFirst(s.lru, n) /\ t.segs = s.segs /\ t.room = s.room
  BY <1>7, Zenon DEF Fields
<1>9. t.ent[n] = e /\ \A j \in Entries : j # n => t.ent[j] = s.ent[j]
  BY <1>1, <1>6, <1>8
<1>10. \A j \in Entries : EntryGood(t.ent[j])
  BY <1>4, <1>9 DEF Good
<1>11. HeapGood(t.ent, t.heap)
  <2>1. HeapGood(s.ent, s.heap) /\ s.heap \in Seq(Seq(BlockType)) /\ Separate(s.heap)
    BY <1>1, StateFields DEF Good, HeapGood
  <2>2. ASSUME NEW c \in 1 .. Len(s.heap), NEW i \in 1 .. Len(s.heap[c])
        PROVE  SamePlace(s.ent, t.ent, s.heap[c][i].num, s.heap[c][i].num)
    <3>1. s.heap[c][i].num \in Entries
      BY <2>1, BlocksFacts
    <3> QED BY <1>3, <1>9, <3>1 DEF SamePlace
  <2>3. HeapGood(t.ent, s.heap)
    BY <2>1, <2>2, RelabelHeap
  <2> QED BY <1>8, <2>3
<1>12. HeadersGood(t.ent, t.heap)
  <2>1. \A j \in Entries : InMemory(t.ent[j]) <=> InMemory(s.ent[j])
    BY <1>3, <1>9 DEF InMemory, Has
  <2> QED BY <1>8, <2>1 DEF Good, HeadersGood
<1>13. ListsGood(t.ent, t.free, t.lru)
  <2>1. FlagStays(s.ent, t.ent, "FREE", n) /\ FlagStays(s.ent, t.ent, "LRU", n)
    BY <1>9 DEF FlagStays
  <2>2. "FREE" \notin s.ent[n].flg /\ "FREE" \in t.ent[n].flg /\ "LRU" \notin t.ent[n].flg
    BY <1>1, <1>3, <1>9 DEF EntryGood, Has
  <2>3. ListOf(t.ent, t.free, "FREE")
    <3>1. t.free = <<n>> \o s.free
      BY <1>8
    <3>2. s.free \in Seq(Entries)
      BY <1>1
    <3> QED BY <1>5, <2>1, <2>2, <3>1, <3>2, ListCons
  <2>4. ListOf(t.ent, t.lru, "LRU")
    <3>1. t.lru = RemoveFirst(s.lru, n)
      BY <1>8
    <3>2. s.lru \in Seq(Entries)
      BY <1>1
    <3> QED BY <1>5, <2>1, <2>2, <3>1, <3>2, ListDrop
  <2> QED BY <2>3, <2>4 DEF ListsGood
<1>14. \A j \in t.unused : t.ent[j] = UnusedEntry
  BY <1>1, <1>8, <1>9, StateFields DEF Good
<1>15. SegsGood(t.ent, t.segs)
  <2>1. SegsKept(s.ent, t.ent) /\ SegsGood(s.ent, s.segs)
    BY <1>3, <1>9 DEF SegsKept, Good
  <2> QED BY <1>8, <2>1, SegsStay
<1>16. FileSize(t) <= SwapSize
  BY <1>8, FileStays DEF Good
<1>17. t.room >= 0 /\ t.heap # << >> /\ t.room + Len(t.heap) <= MaxChunks
  BY <1>8 DEF Good
<1>18. Good(t)
  BY <1>8, <1>10, <1>11, <1>12, <1>13, <1>14, <1>15, <1>16, <1>17, GoodParts
<1>19. ASSUME NEW j, Owned(s, j), j # n PROVE Kept(s, t, j)
  <2>1. j \in Entries
    BY <1>19 DEF Owned
  <2>2. j \notin t.unused /\ SameEntry(s, t, j) /\ BlockStays(s, t, j)
    BY <1>8, <1>9, <1>19, <2>1 DEF Owned, SameEntry, BlockStays
  <2>3. Separate(t.heap)
    BY <1>11 DEF HeapGood
  <2> QED BY <1>8, <1>19, <2>2, <2>3, KeptIf
<1>20. Others(s, t, n)
  BY <1>9, <1>19 DEF Others
<1> QED BY <1>3, <1>9, <1>18, <1>20

-----------------------------------------------------------------------------
\* Loading an object.

\* Segment g, if it is one, is given back.
SegsFreed(old, segs, g) ==
  /\ segs \in Seq(SegType) /\ Len(segs) = Len(old)
  /\ \A j \in 1 .. Len(old) : segs[j].siz = old[j].siz /\ (j # g => segs[j] = old[j])
  /\ \A j \in 1 .. Len(old) : old[j].osz <= old[j].siz => segs[j].osz <= segs[j].siz

\* The object n is no longer in the swap file.
Fetched(u, t, n) ==
  /\ t \in StateType /\ t.heap = u.heap /\ t.free = u.free /\ t.unused = u.unused /\ t.lru = u.lru
  /\ t.room = u.room /\ \A j \in Entries : j # n => t.ent[j] = u.ent[j]
  /\ t.ent[n].flg = u.ent[n].flg /\ t.ent[n].seg = NoSeg
  /\ SegsFreed(u.segs, t.segs, u.ent[n].seg)

\* Lemma: a segment that is given back.
LEMMA FreedSeg ==
  ASSUME NEW segs \in Seq(SegType), NEW g \in 1 .. Len(segs), NEW new,
         new = [segs EXCEPT ![g] = [@ EXCEPT !.inuse = FALSE, !.osz = segs[g].siz, !.data = Nothing]]
  PROVE  SegsFreed(segs, new, g)
<1>1. segs[g] \in SegType
  OBVIOUS
<1>2. PICK d : d = [segs[g] EXCEPT !.inuse = FALSE, !.osz = segs[g].siz, !.data = Nothing]
  OBVIOUS
<1>3. d \in SegType /\ d.siz = segs[g].siz /\ d.osz = segs[g].siz
  BY <1>1, <1>2 DEF SegType
<1>4. new = [segs EXCEPT ![g] = d]
  BY <1>2
<1>5. new \in Seq(SegType) /\ Len(new) = Len(segs) /\ new[g] = d
      /\ \A j \in 1 .. Len(segs) : j # g => new[j] = segs[j]
  <2>1. d \in SegType
    BY <1>3
  <2>3. PICK r : r = [segs EXCEPT ![g] = d]
    OBVIOUS
  <2>4. /\ r \in Seq(SegType) /\ Len(r) = Len(segs) /\ r[g] = d
        /\ \A j \in 1 .. Len(segs) : j # g => r[j] = segs[j]
    BY <2>1, <2>3
  <2>5. new = r
    BY <1>4, <2>3, Zenon
  <2> QED BY <2>4, <2>5
<1>6. segs[g].siz \in Int
  BY <1>1 DEF SegType
<1>7. \A j \in 1 .. Len(segs) : segs[j].osz <= segs[j].siz => new[j].osz <= new[j].siz
  <2> SUFFICES ASSUME NEW j \in 1 .. Len(segs), segs[j].osz <= segs[j].siz
               PROVE  new[j].osz <= new[j].siz
    OBVIOUS
  <2>1. CASE j = g
    BY <1>3, <1>5, <1>6, <2>1
  <2>2. CASE j # g
    BY <1>5, <2>2
  <2> QED BY <2>1, <2>2
<1>8. \A j \in 1 .. Len(segs) : new[j].siz = segs[j].siz
  BY <1>3, <1>5
<1> QED BY <1>5, <1>7, <1>8 DEF SegsFreed

\* Lemma: mcsin.
LEMMA SwapInFacts ==
  ASSUME NEW u, Good(u), NEW n \in Entries, u.ent[n].seg # NoSeg
  PROVE  Fetched(u, SwapIn(u, n), n)
<1>1. /\ u \in StateType /\ u.ent \in [Entries -> EntryType] /\ u.ent[n] \in EntryType
      /\ u.segs \in Seq(SegType) /\ u.ent[n].seg \in 1 .. Len(u.segs)
  <2>1. u \in StateType
    BY DEF Good
  <2>2. u.ent[n].seg \in Nat /\ u.segs \in Seq(SegType)
    BY <2>1, EntryFields, StateFields
  <2>3. u.ent[n].seg <= Len(u.segs) /\ u.ent[n].seg # 0
    BY DEF Good, SegsGood, NoSeg
  <2> QED BY <2>1, <2>2, <2>3, StateFields
<1>2. PICK g \in 1 .. Len(u.segs) : g = u.ent[n].seg
  BY <1>1
<1>3. PICK segs : segs = [u.segs EXCEPT ![g] = [@ EXCEPT !.inuse = FALSE, !.osz = u.segs[g].siz, !.data = Nothing]]
  OBVIOUS
<1>4. SegsFreed(u.segs, segs, g)
  <2>1. u.segs \in Seq(SegType)
    BY <1>1
  <2> QED BY <1>3, <2>1, FreedSeg
<1>5. PICK e : e = [u.ent[n] EXCEPT !.seg = NoSeg]
  OBVIOUS
<1>6. e \in EntryType /\ e.flg = u.ent[n].flg /\ e.seg = NoSeg
  BY <1>1, <1>5 DEF EntryType, NoSeg
<1>7. PICK x : x = [u.ent EXCEPT ![n] = e]
  OBVIOUS
<1>8. x \in [Entries -> EntryType] /\ x[n] = e /\ \A j \in Entries : j # n => x[j] = u.ent[j]
  BY <1>1, <1>6, <1>7
<1>9. PICK t : t = [u EXCEPT !.segs = segs, !.ent = x]
  OBVIOUS
<1>10. Fields(t, x, u.heap, u.free, u.unused, u.lru, segs, u.room)
  <2>1. segs \in Seq(SegType)
    BY <1>4 DEF SegsFreed
  <2>2. x \in [Entries -> EntryType]
    BY <1>8
  <2>3. u \in StateType
    BY <1>1
  <2> QED BY <1>9, <2>1, <2>2, <2>3, WithEntSegs
<1>11. SwapIn(u, n) = t
  BY <1>1, <1>2, <1>3, <1>5, <1>7, <1>9 DEF SwapIn, StateType
<1>12. Fetched(u, t, n)
  BY <1>2, <1>4, <1>6, <1>8, <1>10 DEF Fetched, Fields
<1> QED BY <1>11, <1>12

\* Lemma: an object that is in the game file needs no fetching.
LEMMA NotFetched ==
  ASSUME NEW u, Good(u), NEW n \in Entries, u.ent[n].seg = NoSeg
  PROVE  Fetched(u, u, n)
<1>1. u \in StateType /\ u.segs \in Seq(SegType)
  BY StateFields DEF Good
<1> QED BY <1>1 DEF Fetched, SegsFreed

\* Lemma: the swap file stays as long as it is, and keeps what it has for others.
LEMMA FetchedSegs ==
  ASSUME NEW u, Good(u), NEW n \in Entries, NEW segs, SegsFreed(u.segs, segs, u.ent[n].seg),
         NEW w, w \in StateType, w.segs = segs, w.ent[n].seg = NoSeg,
         \A j \in Entries : j # n => w.ent[j].seg = u.ent[j].seg \/ w.ent[j].seg = NoSeg
  PROVE  SegsGood(w.ent, w.segs) /\ FileSize(w) <= SwapSize
<1>1. u \in StateType /\ SegsGood(u.ent, u.segs) /\ u.segs \in Seq(SegType)
  BY StateFields DEF Good
<1>2. /\ segs \in Seq(SegType) /\ Len(segs) = Len(u.segs)
      /\ \A j \in 1 .. Len(u.segs) : segs[j].siz = u.segs[j].siz /\ (j # u.ent[n].seg => segs[j] = u.segs[j])
      /\ \A j \in 1 .. Len(u.segs) : u.segs[j].osz <= u.segs[j].siz => segs[j].osz <= segs[j].siz
  BY DEF SegsFreed
<1>3. \A j \in 1 .. Len(segs) : segs[j].osz <= segs[j].siz
  BY <1>1, <1>2 DEF SegsGood
<1>4. ASSUME NEW j \in Entries, w.ent[j].seg # NoSeg
      PROVE  j # n /\ w.ent[j].seg = u.ent[j].seg
  BY <1>4
<1>5. ASSUME NEW j \in Entries, w.ent[j].seg # NoSeg
      PROVE  w.ent[j].seg <= Len(segs) /\ segs[w.ent[j].seg].inuse
  <2>1. j # n /\ w.ent[j].seg = u.ent[j].seg
    BY <1>4, <1>5
  <2>2. u.ent[j].seg <= Len(u.segs) /\ u.segs[u.ent[j].seg].inuse /\ u.ent[j].seg # u.ent[n].seg
    BY <1>1, <1>5, <2>1 DEF SegsGood
  <2>3. u.ent[j].seg \in 1 .. Len(u.segs)
    <3>1. u.ent[j].seg \in Nat
      BY <1>1, EntryFields
    <3> QED BY <1>1, <1>5, <2>1, <2>2, <3>1 DEF NoSeg
  <2> QED BY <1>2, <2>1, <2>2, <2>3
<1>6. ASSUME NEW j \in Entries, NEW l \in Entries, w.ent[j].seg # NoSeg, w.ent[j].seg = w.ent[l].seg
      PROVE  j = l
  BY <1>1, <1>4, <1>6 DEF SegsGood
<1>7. SegsGood(w.ent, w.segs)
  BY <1>3, <1>5, <1>6 DEF SegsGood
<1>8. FileSize(w) = FileSize(u)
  <2>1. [j \in 1 .. Len(w.segs) |-> w.segs[j].siz] = [j \in 1 .. Len(u.segs) |-> u.segs[j].siz]
    BY <1>2
  <2>2. /\ FileSize(w) = Total([j \in 1 .. Len(w.segs) |-> w.segs[j].siz])
        /\ FileSize(u) = Total([j \in 1 .. Len(u.segs) |-> u.segs[j].siz])
    BY <1>1, FileFacts
  <2> QED BY <2>1, <2>2
<1> QED BY <1>7, <1>8 DEF Good

\* The object n, which is not in memory, takes over the block of the header k.
LoadedInto(u, r, n, k, data) ==
  /\ r \in StateType /\ r.free = u.free /\ r.lru = u.lru /\ r.room = u.room
  /\ r.unused = u.unused \union {k} /\ r.ent[k] = UnusedEntry
  /\ r.ent[n].flg = (u.ent[n].flg \ {"REVRT"}) \union {"PRES", "LOCK", "NODISC"}
  /\ r.ent[n].siz = u.ent[k].siz /\ r.ent[n].at = u.ent[k].at
  /\ r.ent[n].locks = 1 /\ r.ent[n].seg = NoSeg
  /\ \A j \in Entries : j # n /\ j # k => r.ent[j] = u.ent[j]
  /\ SegsFreed(u.segs, r.segs, u.ent[n].seg)
  /\ r.heap = [u.heap EXCEPT ![PlaceOf(u, k)[1]][PlaceOf(u, k)[2]] = Block(n, data)]

\* A header that was allocated and has not been handed on.
Spare(u, k) == k \in Entries /\ k \notin u.unused /\ u.ent[k].flg = {"NODISC", "LOCK", "PRES"}

\* Lemma: the heap after that.
LEMMA LoadedHeap ==
  ASSUME NEW u, Good(u), NEW n, Owned(u, n), ~Has(u, n, "PRES"), NEW k, Spare(u, k), NEW data \in Versions,
         NEW r, LoadedInto(u, r, n, k, data)
  PROVE  /\ HeapGood(r.ent, r.heap) /\ Len(r.heap) = Len(u.heap)
         /\ \A x : x \in BlocksOf(r.heap) <=> x = Block(n, data) \/ (x \in BlocksOf(u.heap) /\ x.num # k)
         /\ \A x \in BlocksOf(u.heap) : x.num # n
<1>1. /\ u \in StateType /\ u.heap \in Seq(Seq(BlockType)) /\ HeapGood(u.ent, u.heap)
      /\ Separate(u.heap)
  BY StateFields DEF Good, HeapGood
<1>2. n \in Entries /\ k \in Entries /\ Has(u, k, "PRES") /\ n # k /\ ~InMemory(u.ent[n])
  BY DEF Owned, Spare, Has, InMemory
<1>3. PICK c \in 1 .. Len(u.heap) : \E i \in 1 .. Len(u.heap[c]) :
        u.heap[c][i].num = k /\ PlaceOf(u, k) = <<c, i>> /\ DataOf(u, k) = u.heap[c][i].data
  BY <1>2, HeaderPlace
<1>4. PICK i \in 1 .. Len(u.heap[c]) : u.heap[c][i].num = k /\ PlaceOf(u, k) = <<c, i>>
  BY <1>3
<1>5. PICK b : b = Block(n, data)
  OBVIOUS
<1>6. b \in BlockType /\ b.num = n
  BY <1>2, <1>5 DEF Block, BlockType
<1>7. \A x \in BlocksOf(u.heap) : x.num # n
  BY <1>2 DEF Good, HeadersGood
<1>8. NotIn(u.heap, n)
  <2> SUFFICES ASSUME NEW d \in 1 .. Len(u.heap), NEW j \in 1 .. Len(u.heap[d]) PROVE u.heap[d][j].num # n
    BY DEF NotIn
  <2>1. u.heap[d][j] \in BlocksOf(u.heap)
    BY <1>1, BlocksFacts
  <2> QED BY <1>7, <2>1
<1>9. Relabelled(u.heap, c, i, b)
  <2>1. u.heap \in Seq(Seq(BlockType)) /\ Separate(u.heap)
    BY <1>1
  <2>2. NotIn(u.heap, b.num)
    BY <1>6, <1>8
  <2> QED BY <1>6, <2>1, <2>2, RelabelOne
<1>10. PICK new : new = [u.heap EXCEPT ![c][i] = b]
  OBVIOUS
<1>11. /\ new \in Seq(Seq(BlockType)) /\ Len(new) = Len(u.heap) /\ Separate(new)
       /\ \A d \in 1 .. Len(u.heap) : Len(new[d]) = Len(u.heap[d])
       /\ new[c][i] = b
       /\ \A d \in 1 .. Len(u.heap) : \A j \in 1 .. Len(u.heap[d]) : d # c \/ j # i => new[d][j] = u.heap[d][j]
       /\ \A x : x \in BlocksOf(new) <=> x = b \/ (x \in BlocksOf(u.heap) /\ x.num # u.heap[c][i].num)
  BY <1>9, <1>10, Zenon DEF Relabelled
<1>12. r.heap = new
  <2>1. PlaceOf(u, k)[1] = c /\ PlaceOf(u, k)[2] = i
    BY <1>4
  <2> QED BY <1>5, <1>10, <2>1, Zenon DEF LoadedInto
<1>13. /\ r.ent[n].siz = u.ent[k].siz /\ r.ent[n].at = u.ent[k].at
       /\ \A j \in Entries : j # n /\ j # k => r.ent[j] = u.ent[j]
  BY DEF LoadedInto
<1>14. HeapGood(r.ent, new)
  <2>1. ASSUME NEW d \in 1 .. Len(u.heap), NEW j \in 1 .. Len(u.heap[d])
        PROVE  SamePlace(u.ent, r.ent, new[d][j].num, u.heap[d][j].num)
    <3>1. CASE d = c /\ j = i
      BY <1>4, <1>6, <1>11, <1>13, <3>1 DEF SamePlace
    <3>2. CASE d # c \/ j # i
      <4>1. new[d][j].num = u.heap[d][j].num
        BY <1>11, <3>2
      <4>2. u.heap[d][j].num # k
        BY <1>1, <1>4, <3>2 DEF Separate
      <4>3. u.heap[d][j].num # n /\ u.heap[d][j].num \in Entries
        BY <1>1, <1>8, BlocksFacts DEF NotIn
      <4> QED BY <1>13, <4>1, <4>2, <4>3 DEF SamePlace
    <3> QED BY <3>1, <3>2
  <2> QED BY <1>1, <1>11, <2>1, RelabelHeap
<1> QED BY <1>4, <1>5, <1>7, <1>11, <1>12, <1>14

\* Lemma: a loaded object is in memory and locked, with what it held; the
\* header it was allocated with is unused again, the other objects stay.
LEMMA LoadedGood ==
  ASSUME NEW u, Good(u), NEW n, Owned(u, n), ~Has(u, n, "PRES"), NEW k, Spare(u, k), NEW data \in Versions,
         NEW r, LoadedInto(u, r, n, k, data)
  PROVE  /\ Good(r) /\ Owned(r, n) /\ Has(r, n, "PRES") /\ Has(r, n, "LOCK") /\ Stored(r, n) = data
         /\ r.ent[n].locks = 1
         /\ \A j : Owned(u, j) /\ j # n /\ j # k => Kept(u, r, j)
         /\ \A j \in Entries : r.ent[j].locks = u.ent[j].locks \/ r.ent[j].locks \in {0, 1}
<1>1. /\ u \in StateType /\ u.ent \in [Entries -> EntryType] /\ EntryGood(u.ent[n])
      /\ n \in Entries /\ k \in Entries /\ n # k /\ n \notin u.unused
      /\ "FREE" \notin u.ent[n].flg /\ "PRES" \notin u.ent[n].flg /\ "LRU" \notin u.ent[n].flg
      /\ u.ent[k].flg = {"NODISC", "LOCK", "PRES"}
  BY StateFields DEF Good, Owned, Spare, Has, EntryGood
<1>2. /\ r \in StateType /\ r.free = u.free /\ r.lru = u.lru /\ r.room = u.room
      /\ r.unused = u.unused \union {k} /\ r.ent[k] = UnusedEntry
      /\ r.ent[n].flg = (u.ent[n].flg \ {"REVRT"}) \union {"PRES", "LOCK", "NODISC"}
      /\ r.ent[n].siz = u.ent[k].siz /\ r.ent[n].at = u.ent[k].at
      /\ r.ent[n].locks = 1 /\ r.ent[n].seg = NoSeg
      /\ \A j \in Entries : j # n /\ j # k => r.ent[j] = u.ent[j]
      /\ SegsFreed(u.segs, r.segs, u.ent[n].seg)
  BY DEF LoadedInto
<1>3. /\ HeapGood(r.ent, r.heap) /\ Len(r.heap) = Len(u.heap)
      /\ \A x : x \in BlocksOf(r.heap) <=> x = Block(n, data) \/ (x \in BlocksOf(u.heap) /\ x.num # k)
      /\ \A x \in BlocksOf(u.heap) : x.num # n
  BY LoadedHeap
<1>4. UnusedEntry.flg = {} /\ UnusedEntry.seg = NoSeg /\ UnusedEntry.locks = 0 /\ EntryGood(UnusedEntry)
  BY UnusedEntryFacts
<1>5. EntryGood(r.ent[n])
  BY <1>1, <1>2 DEF EntryGood
<1>6. \A j \in Entries : EntryGood(r.ent[j])
  BY <1>2, <1>4, <1>5 DEF Good
<1>7. Block(n, data).num = n /\ Block(n, data).data = data
  BY DEF Block
<1>8. HeadersGood(r.ent, r.heap)
  <2> SUFFICES ASSUME NEW j \in Entries
               PROVE  InMemory(r.ent[j]) <=> \E x \in BlocksOf(r.heap) : x.num = j
    BY DEF HeadersGood
  <2>1. InMemory(u.ent[j]) <=> \E x \in BlocksOf(u.heap) : x.num = j
    BY DEF Good, HeadersGood
  <2>2. CASE j = n
    BY <1>2, <1>3, <1>7, <2>2 DEF InMemory
  <2>3. CASE j = k
    BY <1>1, <1>2, <1>3, <1>4, <1>7, <2>3 DEF InMemory
  <2>4. CASE j # n /\ j # k
    BY <1>2, <1>3, <1>7, <2>1, <2>4
  <2> QED BY <2>2, <2>3, <2>4
<1>9. ListsGood(r.ent, r.free, r.lru)
  <2>1. ListOf(u.ent, u.free, "FREE") /\ ListOf(u.ent, u.lru, "LRU")
    BY DEF Good, ListsGood
  <2>2. \A j \in Entries : /\ "FREE" \in r.ent[j].flg <=> "FREE" \in u.ent[j].flg
                           /\ "LRU" \in r.ent[j].flg <=> "LRU" \in u.ent[j].flg
    <3> SUFFICES ASSUME NEW j \in Entries
                 PROVE  /\ "FREE" \in r.ent[j].flg <=> "FREE" \in u.ent[j].flg
                        /\ "LRU" \in r.ent[j].flg <=> "LRU" \in u.ent[j].flg
      OBVIOUS
    <3>1. CASE j = n
      BY <1>1, <1>2, <3>1
    <3>2. CASE j = k
      BY <1>1, <1>2, <1>4, <3>2
    <3>3. CASE j # n /\ j # k
      BY <1>2, <3>3
    <3> QED BY <3>1, <3>2, <3>3
  <2>3. ListOf(r.ent, u.free, "FREE") /\ ListOf(r.ent, u.lru, "LRU")
    BY <2>1, <2>2, Zenon DEF ListOf
  <2> QED BY <1>2, <2>3 DEF ListsGood
<1>10. \A j \in r.unused : r.ent[j] = UnusedEntry
  BY <1>1, <1>2, StateFields DEF Good
<1>11. \A j \in Entries : j # n => r.ent[j].seg = u.ent[j].seg \/ r.ent[j].seg = NoSeg
  BY <1>2, <1>4
<1>12. SegsGood(r.ent, r.segs) /\ FileSize(r) <= SwapSize
  <2>1. PICK segs : segs = r.segs
    OBVIOUS
  <2>2. SegsFreed(u.segs, segs, u.ent[n].seg)
    BY <1>2, <2>1
  <2>3. r.segs = segs /\ r \in StateType /\ r.ent[n].seg = NoSeg /\ n \in Entries
    BY <1>1, <1>2, <2>1
  <2> QED BY <1>11, <2>2, <2>3, FetchedSegs
<1>13. r.room >= 0 /\ r.heap # << >> /\ r.room + Len(r.heap) <= MaxChunks
  <2>1. u.heap # << >> /\ u.heap \in Seq(Seq(BlockType)) /\ r.heap \in Seq(Seq(BlockType))
    BY <1>1, <1>2, StateFields DEF Good
  <2>2. r.heap # << >>
    BY <1>3, <2>1
  <2> QED BY <1>2, <1>3, <2>2 DEF Good
<1>14. Good(r)
  BY <1>2, <1>3, <1>6, <1>8, <1>9, <1>10, <1>12, <1>13, GoodParts
<1>15. Separate(r.heap)
  BY <1>3 DEF HeapGood
<1>16. ASSUME NEW j, Owned(u, j), j # n, j # k PROVE Kept(u, r, j)
  <2>1. j \in Entries /\ j \notin r.unused /\ SameEntry(u, r, j) /\ BlockStays(u, r, j)
    BY <1>2, <1>3, <1>16 DEF Owned, SameEntry, BlockStays
  <2>2. CASE u.ent[j].seg = NoSeg
    BY <1>2, <1>15, <1>16, <2>1, <2>2, KeptIf
  <2>3. CASE u.ent[j].seg # NoSeg
    <3>1. u.ent[j].seg \in 1 .. Len(u.segs) /\ u.ent[j].seg # u.ent[n].seg
      <4>1. u.ent[j].seg \in Nat /\ Len(u.segs) \in Nat
        BY <1>1, <2>1, EntryFields, FileFacts
      <4>2. u.ent[j].seg <= Len(u.segs)
        BY <2>1, <2>3 DEF Good, SegsGood
      <4>3. u.ent[j].seg # u.ent[n].seg
        BY <1>1, <1>16, <2>1, <2>3 DEF Good, SegsGood
      <4> QED BY <2>3, <4>1, <4>2, <4>3 DEF NoSeg
    <3>2. r.segs[u.ent[j].seg] = u.segs[u.ent[j].seg]
      BY <1>2, <3>1 DEF SegsFreed
    <3> QED BY <1>14, <1>16, <2>1, <2>3, <3>2, KeptInFile
  <2> QED BY <2>2, <2>3
<1>17. Has(r, n, "PRES") /\ Has(r, n, "LOCK") /\ Owned(r, n)
  BY <1>1, <1>2 DEF Has, Owned
<1>18. Stored(r, n) = data
  <2>1. Block(n, data) \in BlocksOf(r.heap)
    BY <1>3
  <2>2. DataOf(r, Block(n, data).num) = Block(n, data).data
    BY <1>2, <1>15, <2>1, DataFacts
  <2> QED BY <1>7, <1>17, <2>2 DEF Stored
<1>19. \A j \in Entries : r.ent[j].locks = u.ent[j].locks \/ r.ent[j].locks \in {0, 1}
  BY <1>2, <1>4
<1> QED BY <1>2, <1>14, <1>16, <1>17, <1>18, <1>19

\* The entry of a loaded object, and the state in which it has the block of k.
LoadedEntry(d, x) ==
  [d EXCEPT !.flg = (@ \ {"REVRT"}) \union {"PRES", "LOCK", "NODISC"},
            !.siz = x.siz, !.at = x.at, !.locks = 1]
TakeOver(t, n, k, data) ==
  Disuse([SetBlock(t, PlaceOf(t, k), Block(n, data)) EXCEPT !.ent[n] = LoadedEntry(t.ent[n], t.ent[k])], k)
TakenOver(t, n, k, data, c, i) ==
  [t EXCEPT !.ent = [t.ent EXCEPT ![n] = LoadedEntry(t.ent[n], t.ent[k])],
            !.heap = [t.heap EXCEPT ![c][i] = Block(n, data)]]

\* Lemma: the fields of that entry.
LEMMA LoadedEntryFacts ==
  ASSUME NEW d \in EntryType, NEW x \in EntryType, NEW e, e = LoadedEntry(d, x)
  PROVE  /\ e \in EntryType /\ e.flg = (d.flg \ {"REVRT"}) \union {"PRES", "LOCK", "NODISC"}
         /\ e.siz = x.siz /\ e.at = x.at /\ e.locks = 1 /\ e.seg = d.seg
<1>1. PICK f : f = (d.flg \ {"REVRT"}) \union {"PRES", "LOCK", "NODISC"}
  OBVIOUS
<1>2. f \in SUBSET Flags
  BY <1>1 DEF EntryType, Flags
<1>3. PICK z \in 0 .. Chunk : z = x.siz
  BY DEF EntryType
<1>4. PICK a \in (0 .. MaxChunks) \X (0 .. Chunk) : a = x.at
  BY DEF EntryType
<1>5. e = [d EXCEPT !.flg = f, !.siz = z, !.at = a, !.locks = 1]
  BY <1>1, <1>3, <1>4 DEF LoadedEntry
<1>6. e \in EntryType /\ e.flg = f /\ e.siz = z /\ e.at = a /\ e.locks = 1 /\ e.seg = d.seg
  <2>1. e.flg = f /\ e.siz = z /\ e.at = a /\ e.locks = 1 /\ e.seg = d.seg
    BY <1>5 DEF EntryType
  <2>2. d = [flg |-> d.flg, siz |-> d.siz, at |-> d.at, locks |-> d.locks, seg |-> d.seg] /\ d.seg \in Nat
    BY DEF EntryType
  <2>3. e = [flg |-> f, siz |-> z, at |-> a, locks |-> 1, seg |-> d.seg]
    BY <1>5, <2>2
  <2>4. e \in EntryType
    BY <1>2, <2>2, <2>3 DEF EntryType
  <2> QED BY <2>1, <2>4
<1> QED BY <1>1, <1>3, <1>4, <1>6

\* Lemma: one block of the heap changes, and one entry.
LEMMA TakeOverState ==
  ASSUME NEW t \in StateType, NEW n \in Entries, NEW k, NEW c, NEW i, PlaceOf(t, k) = <<c, i>>, NEW data
  PROVE  TakeOver(t, n, k, data) = Disuse(TakenOver(t, n, k, data, c, i), k)
<1>20. PICK h : h = [t.heap EXCEPT ![c][i] = Block(n, data)]
  OBVIOUS
<1>21. PICK x : x = [t.ent EXCEPT ![n] = LoadedEntry(t.ent[n], t.ent[k])]
  OBVIOUS
<1>1. PICK e : e = LoadedEntry(t.ent[n], t.ent[k])
  OBVIOUS
<1>2. PICK u : u = SetBlock(t, PlaceOf(t, k), Block(n, data))
  OBVIOUS
<1>3. PICK b : b = Block(n, data)
  OBVIOUS
<1>4. PlaceOf(t, k)[1] = c /\ PlaceOf(t, k)[2] = i
  OBVIOUS
<1>5. u = [t EXCEPT !.heap[c][i] = b]
  BY <1>2, <1>3, <1>4 DEF SetBlock
<1>6. u = [t EXCEPT !.heap = h]
  <2>1. h = [t.heap EXCEPT ![c][i] = b]
    BY <1>3, <1>20
  <2> QED BY <1>5, <2>1 DEF StateType
<1>7. [u EXCEPT !.ent[n] = e] = [t EXCEPT !.ent = x, !.heap = h]
  <2>1. x = [t.ent EXCEPT ![n] = e]
    BY <1>1, <1>21
  <2>2. u.ent = t.ent
    BY <1>6 DEF StateType
  <2>3. [u EXCEPT !.ent[n] = e] = [u EXCEPT !.ent = x]
    BY <1>6, <2>1, <2>2 DEF StateType
  <2> QED BY <1>6, <2>3 DEF StateType
<1>8. TakenOver(t, n, k, data, c, i) = [t EXCEPT !.ent = x, !.heap = h]
  BY <1>20, <1>21 DEF TakenOver
<1> QED BY <1>1, <1>2, <1>7, <1>8, Zenon DEF TakeOver

\* Lemma: that state.
LEMMA TakeOverFields ==
  ASSUME NEW u, Good(u), NEW n, Owned(u, n), ~Has(u, n, "PRES"), NEW k, Spare(u, k), NEW data \in Versions,
         NEW t, Fetched(u, t, n), NEW r, r = TakeOver(t, n, k, data)
  PROVE  LoadedInto(u, r, n, k, data)
<1>1. /\ u \in StateType /\ u.heap \in Seq(Seq(BlockType)) /\ HeapGood(u.ent, u.heap) /\ Separate(u.heap)
  BY StateFields DEF Good, HeapGood
<1>2. n \in Entries /\ k \in Entries /\ Has(u, k, "PRES") /\ n # k /\ ~InMemory(u.ent[n])
  BY DEF Owned, Spare, Has, InMemory
<1>3. /\ t \in StateType /\ t.heap = u.heap /\ t.free = u.free /\ t.unused = u.unused /\ t.lru = u.lru
      /\ t.room = u.room /\ \A j \in Entries : j # n => t.ent[j] = u.ent[j]
      /\ t.ent[n].flg = u.ent[n].flg /\ t.ent[n].seg = NoSeg
      /\ SegsFreed(u.segs, t.segs, u.ent[n].seg)
  BY DEF Fetched
<1>4. PICK c \in 1 .. Len(u.heap) : \E i \in 1 .. Len(u.heap[c]) :
        u.heap[c][i].num = k /\ PlaceOf(u, k) = <<c, i>> /\ DataOf(u, k) = u.heap[c][i].data
  BY <1>2, HeaderPlace
<1>5. PICK i \in 1 .. Len(u.heap[c]) : u.heap[c][i].num = k /\ PlaceOf(u, k) = <<c, i>>
  BY <1>4
<1>6. PlaceOf(t, k) = <<c, i>>
  BY <1>3, <1>5, SameHeap
<1>7. PICK b : b = Block(n, data)
  OBVIOUS
<1>8. b \in BlockType /\ b.num = n
  BY <1>2, <1>7 DEF Block, BlockType
<1>9. NotIn(u.heap, b.num)
  <2> SUFFICES ASSUME NEW d \in 1 .. Len(u.heap), NEW j \in 1 .. Len(u.heap[d]) PROVE u.heap[d][j].num # n
    BY <1>8 DEF NotIn
  <2>1. u.heap[d][j] \in BlocksOf(u.heap)
    BY <1>1, BlocksFacts
  <2> QED BY <1>2, <2>1 DEF Good, HeadersGood
<1>10. PICK h : h = [u.heap EXCEPT ![c][i] = b]
  OBVIOUS
<1>11. h \in Seq(Seq(BlockType))
  <2>1. u.heap \in Seq(Seq(BlockType)) /\ Separate(u.heap)
    BY <1>1
  <2>2. Relabelled(u.heap, c, i, b)
    BY <1>8, <1>9, <2>1, RelabelOne
  <2> QED BY <1>10, <2>2, Zenon DEF Relabelled
<1>12. PICK e : e = LoadedEntry(t.ent[n], t.ent[k])
  OBVIOUS
<1>13. /\ e \in EntryType /\ e.flg = (u.ent[n].flg \ {"REVRT"}) \union {"PRES", "LOCK", "NODISC"}
       /\ e.siz = u.ent[k].siz /\ e.at = u.ent[k].at /\ e.locks = 1 /\ e.seg = NoSeg
  <2>1. t.ent[n] \in EntryType /\ t.ent[k] \in EntryType
    BY <1>2, <1>3, EntryFields
  <2> QED BY <1>2, <1>3, <1>12, <2>1, LoadedEntryFacts
<1>14. PICK x : x = [t.ent EXCEPT ![n] = e]
  OBVIOUS
<1>15. x \in [Entries -> EntryType] /\ x[n] = e /\ \A j \in Entries : j # n => x[j] = u.ent[j]
  <2>1. t.ent \in [Entries -> EntryType]
    BY <1>3, StateFields
  <2> QED BY <1>2, <1>3, <1>13, <1>14, <2>1
<1>16. PICK v : v = [t EXCEPT !.ent = x, !.heap = h]
  OBVIOUS
<1>17. Fields(v, x, h, t.free, t.unused, t.lru, t.segs, t.room)
  BY <1>3, <1>11, <1>15, <1>16, WithEntHeap
<1>18. r = Disuse(v, k)
  <2>1. h = [t.heap EXCEPT ![c][i] = Block(n, data)]
    BY <1>3, <1>7, <1>10
  <2>2. x = [t.ent EXCEPT ![n] = LoadedEntry(t.ent[n], t.ent[k])]
    BY <1>12, <1>14
  <2>3. TakeOver(t, n, k, data) = Disuse(TakenOver(t, n, k, data, c, i), k)
    <3>1. t \in StateType
      BY <1>3
    <3>2. n \in Entries
      BY <1>2
    <3> QED BY <1>6, <3>1, <3>2, TakeOverState
  <2>4. TakenOver(t, n, k, data, c, i) = v
    BY <1>16, <2>1, <2>2 DEF TakenOver
  <2> QED BY <2>3, <2>4
<1>19. /\ r \in StateType /\ r.ent = [v.ent EXCEPT ![k] = UnusedEntry]
       /\ r.unused = v.unused \union {k}
       /\ r.heap = v.heap /\ r.free = v.free /\ r.lru = v.lru
       /\ r.segs = v.segs /\ r.room = v.room
  <2>1. v \in StateType
    BY <1>17 DEF Fields
  <2> QED BY <1>2, <1>18, <2>1, DisuseFacts
<1>20. /\ r.ent[n] = e /\ r.ent[k] = UnusedEntry
       /\ \A j \in Entries : j # n /\ j # k => r.ent[j] = u.ent[j]
  <2>1. v.ent = x
    BY <1>17 DEF Fields
  <2> QED BY <1>2, <1>15, <1>19, <2>1
<1>21. /\ r.heap = h /\ r.free = u.free /\ r.lru = u.lru /\ r.room = u.room
       /\ r.unused = u.unused \union {k} /\ r.segs = t.segs
  BY <1>3, <1>17, <1>19, Zenon DEF Fields
<1>22. r.heap = [u.heap EXCEPT ![PlaceOf(u, k)[1]][PlaceOf(u, k)[2]] = Block(n, data)]
  <2>1. PlaceOf(u, k)[1] = c /\ PlaceOf(u, k)[2] = i
    BY <1>5
  <2> QED BY <1>7, <1>10, <1>21, <2>1, Zenon
<1>23. SegsFreed(u.segs, r.segs, u.ent[n].seg)
  BY <1>3, <1>21
<1> QED BY <1>13, <1>19, <1>20, <1>21, <1>22, <1>23 DEF LoadedInto

-----------------------------------------------------------------------------
\* Locking an object.

\* The object n has been locked for somebody.
Claimed(s, t, n) ==
  /\ Owned(t, n) /\ Has(t, n, "PRES") /\ Has(t, n, "LOCK") /\ Stored(t, n) = Stored(s, n)
  /\ t.ent[n].locks = s.ent[n].locks + 1
  /\ Has(s, n, "PRES") => t.ent[n].at = s.ent[n].at
LockOutcome(s, r, n) ==
  /\ Good(r.m) /\ Others(s, r.m, n) /\ r.ok \in BOOLEAN
  /\ r.ok => Claimed(s, r.m, n)
  /\ ~r.ok => Keeps(s, r.m)

\* What an allocation promises about its outcome.
AloOutcome(s, g) == Good(g.m) /\ Keeps(s, g.m) /\ (g.n # NoEntry => Fresh(s, g.m, g.n))

\* Lemma: what is kept is kept of the others, too.
LEMMA KeepsOther ==
  ASSUME NEW s, NEW t, Keeps(s, t), NEW n
  PROVE  Others(s, t, n)
BY DEF Keeps, Others, Modest

\* Lemma: an object that is not in memory holds what its segment does, or what
\* it held in the game file.
LEMMA StoredOut ==
  ASSUME NEW u, Good(u), NEW n \in Entries, ~Has(u, n, "PRES")
  PROVE  /\ Has(u, n, "NODISC") <=> u.ent[n].seg # NoSeg
         /\ Stored(u, n) = IF Has(u, n, "REVRT") THEN 0
                           ELSE IF Has(u, n, "NODISC") THEN u.segs[u.ent[n].seg].data ELSE 0
<1>1. EntryGood(u.ent[n]) /\ u \in StateType /\ u.segs \in Seq(SegType)
  BY StateFields DEF Good
<1>2. Has(u, n, "NODISC") <=> u.ent[n].seg # NoSeg
  BY <1>1 DEF EntryGood, Has
<1>3. ASSUME Has(u, n, "NODISC") PROVE u.ent[n].seg \in DOMAIN u.segs
  <2>1. u.ent[n].seg \in Nat /\ u.ent[n].seg # 0
    BY <1>1, <1>2, <1>3, EntryFields DEF NoSeg
  <2>2. u.ent[n].seg <= Len(u.segs)
    BY <1>2, <1>3 DEF Good, SegsGood
  <2> QED BY <1>1, <2>1, <2>2
<1> QED BY <1>2, <1>3, Zenon DEF Stored

\* Lemma: mcmload, once there is a block for the object.
LEMMA LoadIntoGood ==
  ASSUME NEW s, Good(s), NEW n, Owned(s, n), ~Has(s, n, "PRES"), Stored(s, n) \in Versions,
         NEW g, AloOutcome(s, g), NEW r, r = LoadInto(s, n, g)
  PROVE  LockOutcome(s, r, n)
<1>1. Good(g.m) /\ Keeps(s, g.m) /\ n \in Entries
  BY DEF AloOutcome, Owned
<1>2. CASE g.n = NoEntry
  <2>1. r = [m |-> g.m, ok |-> FALSE]
    BY <1>2, Zenon DEF LoadInto
  <2>2. r.m = g.m /\ r.ok = FALSE
    BY <2>1
  <2> QED BY <1>1, <2>2, KeepsOther DEF LockOutcome
<1>3. CASE g.n # NoEntry
  <2>1. PICK u : u = g.m
    OBVIOUS
  <2>2. PICK k : k = g.n
    OBVIOUS
  <2>3. /\ Good(u) /\ Keeps(s, u) /\ Fresh(s, u, k) /\ Kept(s, u, n) /\ Modest(s, u)
    BY <1>1, <1>3, <2>1, <2>2 DEF AloOutcome, Keeps
  <2>4. /\ Owned(u, n) /\ ~Has(u, n, "PRES") /\ Stored(u, n) = Stored(s, n)
        /\ Has(u, n, "REVRT") <=> Has(s, n, "REVRT")
    BY <2>3 DEF Kept
  <2>5. Spare(u, k) /\ k # n /\ ~Owned(s, k)
    BY <2>3 DEF Fresh, Spare
  <2>6. PICK t : t = IF Has(u, n, "NODISC") THEN SwapIn(u, n) ELSE u
    OBVIOUS
  <2>7. /\ Has(u, n, "NODISC") <=> u.ent[n].seg # NoSeg
        /\ Stored(u, n) = IF Has(u, n, "REVRT") THEN 0
                          ELSE IF Has(u, n, "NODISC") THEN u.segs[u.ent[n].seg].data ELSE 0
    BY <1>1, <2>3, <2>4, StoredOut
  <2>8. Fetched(u, t, n)
    <3>1. CASE Has(u, n, "NODISC")
      <4>1. Fetched(u, SwapIn(u, n), n)
        BY <1>1, <2>3, <2>7, <3>1, SwapInFacts
      <4> QED BY <2>6, <3>1, <4>1
    <3>2. CASE ~Has(u, n, "NODISC")
      <4>1. Fetched(u, u, n)
        BY <1>1, <2>3, <2>7, <3>2, NotFetched
      <4> QED BY <2>6, <3>2, <4>1
    <3> QED BY <3>1, <3>2
  <2>9. PICK data : data = Stored(u, n)
    OBVIOUS
  <2>10. data \in Versions
    BY <2>4, <2>9
  <2>11. PICK w : w = TakeOver(t, n, k, data)
    OBVIOUS
  <2>12. r = [m |-> w, ok |-> TRUE]
    <3>1. data = IF Has(s, n, "REVRT") THEN 0
                 ELSE IF Has(u, n, "NODISC") THEN u.segs[u.ent[n].seg].data ELSE 0
      BY <2>4, <2>7, <2>9
    <3> QED BY <1>3, <2>1, <2>2, <2>6, <2>11, <3>1, Zenon DEF LoadInto, TakeOver, LoadedEntry
  <2>13. r.m = w /\ r.ok = TRUE
    BY <2>12
  <2>14. LoadedInto(u, w, n, k, data)
    BY <2>3, <2>4, <2>5, <2>8, <2>10, <2>11, TakeOverFields
  <2>15. /\ Good(w) /\ Owned(w, n) /\ Has(w, n, "PRES") /\ Has(w, n, "LOCK") /\ Stored(w, n) = data
         /\ w.ent[n].locks = 1
         /\ \A j : Owned(u, j) /\ j # n /\ j # k => Kept(u, w, j)
         /\ \A j \in Entries : w.ent[j].locks = u.ent[j].locks \/ w.ent[j].locks \in {0, 1}
    BY <2>3, <2>4, <2>5, <2>10, <2>14, LoadedGood
  <2>16. s.ent[n].locks = 0
    <3>1. EntryGood(s.ent[n]) /\ s.ent[n].locks \in Nat
      BY <1>1, EntryFields DEF Good
    <3> QED BY <3>1 DEF EntryGood, Has
  <2>17. Claimed(s, w, n)
    BY <2>4, <2>9, <2>15, <2>16 DEF Claimed
  <2>18. ASSUME NEW j, Owned(s, j), j # n PROVE Kept(s, w, j)
    <3>1. Kept(s, u, j) /\ Owned(u, j)
      BY <2>3, <2>18 DEF Keeps, Kept
    <3>2. Kept(u, w, j)
      BY <2>5, <2>15, <2>18, <3>1
    <3> QED BY <2>3, <2>18, <3>1, <3>2, KeptTwice
  <2>19. Others(s, w, n)
    BY <2>3, <2>15, <2>18 DEF Others, Modest
  <2> QED BY <2>13, <2>15, <2>17, <2>19 DEF LockOutcome
<1> QED BY <1>2, <1>3

\* Lemma: mcmlck of an object in memory, or that can be loaded.
LEMMA mcmlckGood ==
  ASSUME NEW s, Good(s), NEW n, Owned(s, n), s.ent[n].siz > 0, Stored(s, n) \in Versions,
         NEW r, r = mcmlck(s, n)
  PROVE  LockOutcome(s, r, n)
<1>1. n \in Entries /\ s \in StateType
  BY DEF Owned, Good
<1>2. CASE Has(s, n, "PRES")
  <2>1. PICK t : t = AddLock(s, n)
    OBVIOUS
  <2>2. r = [m |-> t, ok |-> TRUE]
    BY <1>2, <2>1, Zenon DEF mcmlck, AddLock
  <2>3. r.m = t /\ r.ok = TRUE
    BY <2>2
  <2>4. /\ Good(t) /\ Others(s, t, n) /\ Owned(t, n) /\ Has(t, n, "PRES") /\ Has(t, n, "LOCK")
        /\ Stored(t, n) = Stored(s, n) /\ t.ent[n].locks = s.ent[n].locks + 1
        /\ t.ent[n].siz = s.ent[n].siz /\ t.ent[n].at = s.ent[n].at
    BY <1>1, <1>2, <2>1, AddLockGood
  <2> QED BY <2>3, <2>4 DEF LockOutcome, Claimed
<1>3. CASE ~Has(s, n, "PRES")
  <2>1. PICK siz : siz = s.ent[n].siz
    OBVIOUS
  <2>2. siz \in Nat /\ siz > 0
    BY <1>1, <2>1, EntryFields, ConstFacts
  <2>3. PICK g : g = mcmalo0(s, siz)
    OBVIOUS
  <2>4. Good(g.m) /\ Keeps(s, g.m) /\ (g.n # NoEntry => Fresh(s, g.m, g.n))
    BY <2>2, <2>3, mcmalo0Good
  <2>5. AloOutcome(s, g)
    BY <2>4 DEF AloOutcome
  <2>6. r = LoadInto(s, n, g)
    BY <1>3, <2>1, <2>3, Zenon DEF mcmlck, mcmload
  <2> QED BY <1>3, <2>5, <2>6, LoadIntoGood
<1> QED BY <1>2, <1>3

-----------------------------------------------------------------------------
\* Annexing the free block above.

\* One block is taken out of a chunk; it takes one out of the heap.
Removed(old, q) ==
  LET new == RemoveAt(old, q)
  IN  /\ new \in Seq(BlockType) /\ Distinct(new)
      /\ \A x : (\E i \in 1 .. Len(new) : new[i] = x) <=>
                  (\E j \in 1 .. Len(old) : old[j] = x) /\ x.num # old[q].num
RemovedIn(tne, heap, c, q) ==
  LET new == [heap EXCEPT ![c] = RemoveAt(heap[c], q)]
  IN  /\ new \in Seq(Seq(BlockType)) /\ Len(new) = Len(heap) /\ HeapGood(tne, new)
      /\ \A x : x \in BlocksOf(new) <=> x \in BlocksOf(heap) /\ x.num # heap[c][q].num

\* The object n annexes the free block of header k behind it, at p of chunk c.
AnnexOf(s, t, n, k, c, p) ==
  /\ t.ent[n] = [s.ent[n] EXCEPT !.siz = s.ent[n].siz + s.ent[k].siz] /\ t.ent[k] = UnusedEntry
  /\ \A j \in Entries : j # n /\ j # k => t.ent[j] = s.ent[j]
  /\ t.heap = [s.heap EXCEPT ![c] = RemoveAt(s.heap[c], p + 1)]
  /\ t.free = RemoveFirst(s.free, k) /\ t.unused = s.unused \union {k}
  /\ t.lru = s.lru /\ t.segs = s.segs /\ t.room = s.room
Behind(s, n, k, c, p) ==
  /\ c \in 1 .. Len(s.heap) /\ p \in 1 .. Len(s.heap[c]) - 1
  /\ s.heap[c][p].num = n /\ s.heap[c][p + 1].num = k
  /\ PlaceOf(s, n) = <<c, p>> /\ Has(s, k, "FREE")

\* Lemma: a chunk without one of its blocks.
LEMMA RemovedBlock ==
  ASSUME NEW old \in Seq(BlockType), Distinct(old), NEW q \in 1 .. Len(old)
  PROVE  Removed(old, q)
<1>1. PICK new : new = RemoveAt(old, q)
  OBVIOUS
<1>2. PICK n \in Nat : n = Len(old)
  OBVIOUS
<1>3. /\ new \in Seq(BlockType) /\ Len(new) = n - 1
      /\ \A i \in 1 .. n - 1 : new[i] = IF i < q THEN old[i] ELSE old[i + 1]
  BY <1>1, <1>2, RemoveAtFacts
<1>4. q \in 1 .. n
  BY <1>2
<1>5. PICK from : from = [i \in 1 .. n - 1 |-> IF i < q THEN i ELSE i + 1]
  OBVIOUS
<1>6. ASSUME NEW i \in 1 .. n - 1 PROVE from[i] \in 1 .. n /\ from[i] # q /\ new[i] = old[from[i]]
  <2>1. CASE i < q
    <3>1. from[i] = i /\ i \in 1 .. n /\ i # q
      BY <1>4, <1>5, <2>1
    <3> QED BY <1>3, <2>1, <3>1
  <2>2. CASE ~(i < q)
    <3>1. from[i] = i + 1 /\ i + 1 \in 1 .. n /\ i + 1 # q
      BY <1>4, <1>5, <2>2
    <3> QED BY <1>3, <2>2, <3>1
  <2> QED BY <2>1, <2>2
<1>7. \A i, j \in 1 .. n - 1 : from[i] = from[j] => i = j
  BY <1>4, <1>5
<1>8. ASSUME NEW j \in 1 .. n, j # q PROVE \E i \in 1 .. n - 1 : from[i] = j
  <2>1. CASE j < q
    <3>1. j \in 1 .. n - 1
      BY <1>4, <2>1
    <3> QED BY <1>5, <2>1, <3>1
  <2>2. CASE j > q
    <3>1. j - 1 \in 1 .. n - 1 /\ ~(j - 1 < q) /\ (j - 1) + 1 = j
      BY <1>4, <2>2
    <3> QED BY <1>5, <3>1
  <2> QED BY <1>4, <1>8, <2>1, <2>2
<1>9. Distinct(new)
  <2> SUFFICES ASSUME NEW i \in 1 .. n - 1, NEW j \in 1 .. n - 1, new[i].num = new[j].num
               PROVE  i = j
    BY <1>3 DEF Distinct
  <2>1. from[i] \in 1 .. n /\ from[j] \in 1 .. n /\ old[from[i]].num = old[from[j]].num
    BY <1>6
  <2>2. from[i] = from[j]
    BY <1>2, <2>1 DEF Distinct
  <2> QED BY <1>7, <2>2
<1>10. ASSUME NEW x
       PROVE  (\E i \in 1 .. n - 1 : new[i] = x) <=> (\E j \in 1 .. n : old[j] = x) /\ x.num # old[q].num
  <2>1. ASSUME NEW i \in 1 .. n - 1, new[i] = x
        PROVE  (\E j \in 1 .. n : old[j] = x) /\ x.num # old[q].num
    <3>1. from[i] \in 1 .. n /\ from[i] # q /\ old[from[i]] = x
      BY <1>6, <2>1
    <3>2. old[from[i]].num # old[q].num
      BY <1>2, <1>4, <3>1 DEF Distinct
    <3> QED BY <3>1, <3>2
  <2>2. ASSUME NEW j \in 1 .. n, old[j] = x, x.num # old[q].num
        PROVE  \E i \in 1 .. n - 1 : new[i] = x
    <3>1. j # q
      BY <2>2
    <3>2. PICK i \in 1 .. n - 1 : from[i] = j
      BY <1>8, <3>1
    <3> QED BY <1>6, <2>2, <3>2
  <2> QED BY <2>1, <2>2, Zenon
<1>11. \A x : (\E i \in 1 .. Len(new) : new[i] = x) <=>
                (\E j \in 1 .. Len(old) : old[j] = x) /\ x.num # old[q].num
  BY <1>2, <1>3, <1>10
<1> QED BY <1>1, <1>3, <1>9, <1>11, Zenon DEF Removed

\* Lemma: a block less in one chunk.
LEMMA RemoveInHeap ==
  ASSUME NEW ent, NEW tne, NEW heap \in Seq(Seq(BlockType)), HeapGood(ent, heap),
         NEW c \in 1 .. Len(heap), NEW q \in 1 .. Len(heap[c]),
         OthersStay(ent, tne, heap, c), Chained(tne, RemoveAt(heap[c], q), c)
  PROVE  RemovedIn(tne, heap, c, q)
<1>1. PICK blocks : blocks = RemoveAt(heap[c], q)
  OBVIOUS
<1>2. /\ heap[c] \in Seq(BlockType) /\ Distinct(heap[c])
      /\ \A d \in 1 .. Len(heap) : d # c => \A j \in 1 .. Len(heap[d]) :
           \A i \in 1 .. Len(heap[c]) : heap[c][i].num # heap[d][j].num
  BY ChunkFacts
<1>3. /\ blocks \in Seq(BlockType) /\ Distinct(blocks)
      /\ \A x : (\E i \in 1 .. Len(blocks) : blocks[i] = x) <=>
                  (\E j \in 1 .. Len(heap[c]) : heap[c][j] = x) /\ x.num # heap[c][q].num
  <2>1. heap[c] \in Seq(BlockType) /\ Distinct(heap[c])
    BY <1>2
  <2>2. Removed(heap[c], q)
    BY <2>1, RemovedBlock
  <2> QED BY <1>1, <2>2, Zenon DEF Removed
<1>4. Apart(heap, c, blocks)
  <2> SUFFICES ASSUME NEW d \in 1 .. Len(heap), d # c, NEW j \in 1 .. Len(heap[d]), NEW i \in 1 .. Len(blocks)
               PROVE  blocks[i].num # heap[d][j].num
    BY DEF Apart
  <2>1. \E x \in 1 .. Len(heap[c]) : heap[c][x] = blocks[i]
    BY <1>3
  <2> QED BY <1>2, <2>1
<1>5. PICK new : new = [heap EXCEPT ![c] = blocks]
  OBVIOUS
<1>6. Chained(tne, blocks, c)
  BY <1>1
<1>7. /\ new \in Seq(Seq(BlockType)) /\ Len(new) = Len(heap) /\ HeapGood(tne, new)
      /\ \A x : x \in BlocksOf(new) <=>
                  \/ \E i \in 1 .. Len(blocks) : blocks[i] = x
                  \/ \E d \in 1 .. Len(heap) : d # c /\ \E j \in 1 .. Len(heap[d]) : heap[d][j] = x
  <2>1. blocks \in Seq(BlockType) /\ Distinct(blocks)
    BY <1>3
  <2>2. Replaced(tne, heap, c, blocks)
    BY <1>4, <1>6, <2>1, RewriteChunk
  <2> QED BY <1>5, <2>2, Zenon DEF Replaced
<1>8. \A x : x \in BlocksOf(heap) <=> \E d \in 1 .. Len(heap) : \E j \in 1 .. Len(heap[d]) : heap[d][j] = x
  BY BlocksFacts
<1>9. ASSUME NEW x PROVE x \in BlocksOf(new) <=> x \in BlocksOf(heap) /\ x.num # heap[c][q].num
  <2>1. ASSUME NEW d \in 1 .. Len(heap), d # c, NEW j \in 1 .. Len(heap[d]), heap[d][j] = x
        PROVE  x.num # heap[c][q].num
    BY <1>2, <2>1
  <2>2. ASSUME x \in BlocksOf(new) PROVE x \in BlocksOf(heap) /\ x.num # heap[c][q].num
    <3>1. CASE \E i \in 1 .. Len(blocks) : blocks[i] = x
      BY <1>3, <1>8, <3>1
    <3>2. CASE \E d \in 1 .. Len(heap) : d # c /\ \E j \in 1 .. Len(heap[d]) : heap[d][j] = x
      BY <1>8, <2>1, <3>2
    <3> QED BY <1>7, <2>2, <3>1, <3>2
  <2>3. ASSUME x \in BlocksOf(heap), x.num # heap[c][q].num PROVE x \in BlocksOf(new)
    <3>1. PICK d \in 1 .. Len(heap) : \E j \in 1 .. Len(heap[d]) : heap[d][j] = x
      BY <1>8, <2>3
    <3>2. CASE d = c
      BY <1>3, <1>7, <2>3, <3>1, <3>2
    <3>3. CASE d # c
      BY <1>7, <3>1, <3>3
    <3> QED BY <3>2, <3>3
  <2> QED BY <2>2, <2>3
<1>10. \A x : x \in BlocksOf(new) <=> x \in BlocksOf(heap) /\ x.num # heap[c][q].num
  BY <1>9
<1> QED BY <1>1, <1>5, <1>7, <1>10, Zenon DEF RemovedIn

\* Lemma: annexing a free block leaves a good state.
LEMMA AnnexGood ==
  ASSUME NEW s, Good(s), NEW t, t \in StateType, NEW n \in Entries, NEW k, Has(s, n, "PRES"),
         NEW c, NEW p, Behind(s, n, k, c, p), AnnexOf(s, t, n, k, c, p)
  PROVE  Good(t) /\ KeepsOthers(s, t, n) /\ KeptSized(s, t, n)
<1>1. s \in StateType /\ s.heap \in Seq(Seq(BlockType))
  BY StateFields DEF Good
<1>2. /\ c \in 1 .. Len(s.heap) /\ p \in 1 .. Len(s.heap[c]) - 1
      /\ s.heap[c][p].num = n /\ s.heap[c][p + 1].num = k /\ Has(s, k, "FREE")
  BY DEF Behind
<1>3. PICK old : old = s.heap[c]
  OBVIOUS
<1>4. /\ old \in Seq(BlockType) /\ Chained(s.ent, old, c) /\ Distinct(old)
      /\ p \in 1 .. Len(old) - 1 /\ p \in 1 .. Len(old) /\ p + 1 \in 1 .. Len(old)
      /\ old[p].num = n /\ old[p + 1].num = k
  <2>1. HeapGood(s.ent, s.heap)
    BY DEF Good
  <2>2. old \in Seq(BlockType) /\ Chained(s.ent, old, c) /\ Distinct(old)
    BY <1>1, <1>2, <1>3, <2>1, ChunkFacts
  <2>3. Len(old) \in Nat /\ p \in 1 .. Len(old) - 1
    BY <1>2, <1>3, <2>2
  <2>4. p \in 1 .. Len(old) /\ p + 1 \in 1 .. Len(old)
    BY <2>3
  <2> QED BY <1>2, <1>3, <2>2, <2>3, <2>4
<1>5. n # k /\ k \in Entries /\ k \notin s.unused
  <2>1. n # k
    <3>1. p # p + 1
      BY <1>4
    <3> QED BY <1>4, <3>1 DEF Distinct
  <2>2. PICK q \in 1 .. Len(s.heap[c]) : s.heap[c][q].num = k
    BY <1>3, <1>4
  <2>3. s.heap[c][q].num \in Entries /\ s.heap[c][q].num \notin s.unused
    BY <1>2, PlaceHeader
  <2> QED BY <2>1, <2>2, <2>3
<1>6. PICK z : z = s.ent[n].siz + s.ent[k].siz
  OBVIOUS
<1>7. z \in 0 .. Chunk /\ z > 0
  <2>1. /\ s.ent[n].siz \in 0 .. Chunk /\ s.ent[k].siz \in 0 .. Chunk
        /\ s.ent[n].at[2] \in 0 .. Chunk /\ s.ent[k].at[2] \in 0 .. Chunk
    BY <1>1, <1>5, EntryFields
  <2>2. s.ent[k].at[2] = s.ent[n].at[2] + s.ent[n].siz
    BY <1>4 DEF Chained, EndOf
  <2>3. s.ent[k].at[2] + s.ent[k].siz <= Chunk /\ s.ent[k].siz > 0
    <3>1. PICK q \in 1 .. Len(s.heap[c]) : s.heap[c][q].num = k
      BY <1>3, <1>4
    <3>2. /\ s.ent[s.heap[c][q].num].siz > 0
          /\ s.ent[s.heap[c][q].num].at[2] + s.ent[s.heap[c][q].num].siz <= Chunk
      BY <1>2, EndFits
    <3> QED BY <3>1, <3>2
  <2> QED BY <1>6, <2>1, <2>2, <2>3, ConstFacts
<1>8. PICK f : f = [s.ent[n] EXCEPT !.siz = z]
  OBVIOUS
<1>9. /\ f \in EntryType /\ f.flg = s.ent[n].flg /\ f.siz = z /\ f.at = s.ent[n].at
      /\ f.locks = s.ent[n].locks /\ f.seg = s.ent[n].seg /\ EntryGood(f)
  <2>1. s.ent[n] \in EntryType /\ EntryGood(s.ent[n])
    BY <1>1, EntryFields DEF Good
  <2> QED BY <1>7, <1>8, <2>1, ShortEntry
<1>10. PICK blocks : blocks = RemoveAt(old, p + 1)
  OBVIOUS
<1>11. /\ t.ent[n] = f /\ t.ent[k] = UnusedEntry /\ (\A j \in Entries : j # n /\ j # k => t.ent[j] = s.ent[j])
       /\ t.heap = [s.heap EXCEPT ![c] = blocks]
       /\ t.free = RemoveFirst(s.free, k) /\ t.unused = s.unused \union {k}
       /\ t.lru = s.lru /\ t.segs = s.segs /\ t.room = s.room
  BY <1>3, <1>6, <1>8, <1>10, Zenon DEF AnnexOf
<1>12. UnusedEntry.flg = {} /\ UnusedEntry.seg = NoSeg /\ UnusedEntry.locks = 0 /\ EntryGood(UnusedEntry)
  BY UnusedEntryFacts
<1>13. ASSUME NEW d \in 1 .. Len(s.heap), NEW j \in 1 .. Len(s.heap[d])
       PROVE  /\ s.heap[d][j].num \in Entries
              /\ (s.heap[d][j].num = n => d = c /\ j = p) /\ (s.heap[d][j].num = k => d = c /\ j = p + 1)
              /\ (s.heap[d][j].num # n /\ s.heap[d][j].num # k
                    => SamePlace(s.ent, t.ent, s.heap[d][j].num, s.heap[d][j].num))
  <2>1. s.heap[d][j].num \in Entries
    BY <1>1, BlocksFacts
  <2>2. Separate(s.heap)
    BY DEF Good, HeapGood
  <2>3. s.heap[d][j].num = n => d = c /\ j = p
    BY <1>2, <1>3, <1>4, <2>2, SMTT(20) DEF Separate
  <2>4. s.heap[d][j].num = k => d = c /\ j = p + 1
    BY <1>2, <1>3, <1>4, <2>2, SMTT(20) DEF Separate
  <2> QED BY <1>11, <2>1, <2>3, <2>4 DEF SamePlace
<1>14. Chained(t.ent, blocks, c)
  <2>1. NumbersIn(s.ent, old)
    <3>1. \A i \in 1 .. Len(old) : old[i].num \in Entries
      BY <1>2, <1>3, <1>13
    <3>2. \A j \in Entries : s.ent[j].at[2] \in Nat /\ s.ent[j].siz \in Nat
      BY <1>1, EntryFields, ConstFacts
    <3> QED BY <3>1, <3>2 DEF NumbersIn
  <2>2. StayBut(s.ent, t.ent, old, {p, p + 1})
    BY <1>2, <1>3, <1>13 DEF StayBut
  <2>3. /\ t.ent[old[p].num].at = s.ent[old[p].num].at
        /\ t.ent[old[p].num].siz = s.ent[old[p].num].siz + s.ent[old[p + 1].num].siz
    BY <1>4, <1>6, <1>9, <1>11
  <2> QED BY <1>4, <1>10, <2>1, <2>2, <2>3, ChainAnnex
<1>15. /\ HeapGood(t.ent, t.heap) /\ Len(t.heap) = Len(s.heap)
       /\ \A x : x \in BlocksOf(t.heap) <=> x \in BlocksOf(s.heap) /\ x.num # k
  <2>1. HeapGood(s.ent, s.heap) /\ s.heap \in Seq(Seq(BlockType))
    BY <1>1 DEF Good
  <2>2. OthersStay(s.ent, t.ent, s.heap, c)
    BY <1>13 DEF OthersStay
  <2>3. PICK q : q = p + 1
    OBVIOUS
  <2>4. q \in 1 .. Len(s.heap[c]) /\ s.heap[c][q].num = k
    BY <1>3, <1>4, <2>3
  <2>5. Chained(t.ent, RemoveAt(s.heap[c], q), c)
    BY <1>3, <1>10, <1>14, <2>3
  <2>6. t.heap = [s.heap EXCEPT ![c] = RemoveAt(s.heap[c], q)]
    BY <1>3, <1>10, <1>11, <2>3
  <2>7. RemovedIn(t.ent, s.heap, c, q)
    BY <1>2, <2>1, <2>2, <2>4, <2>5, RemoveInHeap
  <2> QED BY <2>4, <2>6, <2>7, Zenon DEF RemovedIn
<1>16. \A x : x \in BlocksOf(t.heap) <=> x \in BlocksOf(s.heap) /\ x.num # k
  BY <1>15
<1>17. \A j \in Entries : EntryGood(t.ent[j])
  BY <1>9, <1>11, <1>12 DEF Good
<1>18. HeadersGood(t.ent, t.heap)
  <2> SUFFICES ASSUME NEW j \in Entries
               PROVE  InMemory(t.ent[j]) <=> \E x \in BlocksOf(t.heap) : x.num = j
    BY DEF HeadersGood
  <2>1. InMemory(s.ent[j]) <=> \E x \in BlocksOf(s.heap) : x.num = j
    BY DEF Good, HeadersGood
  <2>2. CASE j = k
    BY <1>11, <1>12, <1>16, <2>2 DEF InMemory
  <2>3. CASE j # k
    <3>1. t.ent[j].flg = s.ent[j].flg
      BY <1>9, <1>11, <2>3
    <3> QED BY <1>16, <2>1, <2>3, <3>1 DEF InMemory
  <2> QED BY <2>2, <2>3
<1>19. EntryGood(s.ent[k])
  BY <1>5 DEF Good
<1>20. ListsGood(t.ent, t.free, t.lru)
  <2>1. ListOf(s.ent, s.free, "FREE") /\ ListOf(s.ent, s.lru, "LRU") /\ s.free \in Seq(Entries)
    BY <1>1, StateFields DEF Good, ListsGood
  <2>2. FlagStays(s.ent, t.ent, "FREE", k) /\ FlagStays(s.ent, t.ent, "LRU", k)
    BY <1>9, <1>11 DEF FlagStays
  <2>3. "FREE" \notin t.ent[k].flg /\ ("LRU" \in t.ent[k].flg <=> "LRU" \in s.ent[k].flg)
    BY <1>2, <1>11, <1>12, <1>19 DEF EntryGood, Has
  <2>4. ListOf(t.ent, t.free, "FREE")
    BY <1>5, <1>11, <2>1, <2>2, <2>3, ListDrop
  <2>5. ListOf(t.ent, t.lru, "LRU")
    BY <1>11, <2>1, <2>2, <2>3, ListSame
  <2> QED BY <2>4, <2>5 DEF ListsGood
<1>21. n \notin s.unused
  BY <1>2, <1>3, <1>4, PlaceHeader
<1>22. \A j \in t.unused : t.ent[j] = UnusedEntry
  BY <1>1, <1>11, <1>21, StateFields DEF Good
<1>23. SegsGood(t.ent, t.segs)
  <2>1. SegsGood(s.ent, s.segs)
    BY DEF Good
  <2>2. SegsKept(s.ent, t.ent)
    BY <1>9, <1>11, <1>12 DEF SegsKept
  <2> QED BY <1>11, <2>1, <2>2, SegsStay
<1>24. FileSize(t) <= SwapSize
  BY <1>11, FileStays DEF Good
<1>25. t.room >= 0 /\ t.heap # << >> /\ t.room + Len(t.heap) <= MaxChunks
  <2>1. s.room >= 0 /\ s.room + Len(s.heap) <= MaxChunks
    BY DEF Good
  <2>2. t.heap # << >>
    BY <1>2, <1>15
  <2> QED BY <1>11, <1>15, <2>1, <2>2
<1>26. Good(t)
  BY <1>15, <1>17, <1>18, <1>20, <1>22, <1>23, <1>24, <1>25, GoodParts
<1>27. Separate(t.heap)
  BY <1>15 DEF HeapGood
<1>28. ASSUME NEW j, Owned(s, j), j # n PROVE Kept(s, t, j)
  <2>1. j # k /\ j \in Entries
    BY <1>2, <1>28 DEF Owned
  <2>2. j \notin t.unused /\ SameEntry(s, t, j) /\ BlockStays(s, t, j)
    BY <1>11, <1>16, <1>28, <2>1 DEF Owned, SameEntry, BlockStays
  <2>3. t.segs = s.segs
    BY <1>11
  <2> QED BY <1>27, <1>28, <2>2, <2>3, KeptIf
<1>29. KeptSized(s, t, n)
  <2>1. n \notin t.unused /\ ~Has(s, n, "FREE")
    <3>1. EntryGood(s.ent[n])
      BY DEF Good
    <3> QED BY <1>5, <1>11, <1>21, <3>1 DEF EntryGood, Has
  <2>2. Owned(t, n) /\ Has(t, n, "PRES")
    BY <1>9, <1>11, <2>1 DEF Owned, Has
  <2>3. BlockStays(s, t, n)
    BY <1>5, <1>16 DEF BlockStays
  <2>4. Stored(t, n) = Stored(s, n)
    BY <1>27, <2>2, <2>3, SameData DEF Stored
  <2> QED BY <1>7, <1>9, <1>11, <2>2, <2>4 DEF KeptSized
<1>30. Modest(s, t)
  BY <1>9, <1>11, <1>12 DEF Modest
<1> QED BY <1>26, <1>28, <1>29, <1>30 DEF KeepsOthers

\* The state after that, of the block at p of chunk c; z is the size of both.
Annexed(s, n, k, c, p, z) ==
  Disuse([s EXCEPT !.ent[n].siz = z, !.free = RemoveFirst(@, k), !.heap[c] = RemoveAt(@, p + 1)], k)

\* Lemma: its fields.
LEMMA AnnexFields ==
  ASSUME NEW s \in StateType, IsInjective(s.free), NEW n \in Entries, NEW k \in Entries, k # n,
         NEW c \in 1 .. Len(s.heap), NEW p, p + 1 \in 1 .. Len(s.heap[c]), NEW z \in 0 .. Chunk
  PROVE  Fields(Annexed(s, n, k, c, p, z),
                [[s.ent EXCEPT ![n] = [s.ent[n] EXCEPT !.siz = z]] EXCEPT ![k] = UnusedEntry],
                [s.heap EXCEPT ![c] = RemoveAt(s.heap[c], p + 1)],
                RemoveFirst(s.free, k), s.unused \union {k}, s.lru, s.segs, s.room)
<1>0. s.ent \in [Entries -> EntryType] /\ s.heap \in Seq(Seq(BlockType)) /\ s.free \in Seq(Entries)
  BY StateFields
<1>1. PICK x : x = [s.ent EXCEPT ![n] = [s.ent[n] EXCEPT !.siz = z]]
  OBVIOUS
<1>2. x \in [Entries -> EntryType]
  <2>1. [s.ent[n] EXCEPT !.siz = z] \in EntryType
    BY <1>0, ShortEntry
  <2> QED BY <1>0, <1>1, <2>1
<1>3. PICK blocks : blocks = RemoveAt(s.heap[c], p + 1)
  OBVIOUS
<1>4. PICK y : y = [s.heap EXCEPT ![c] = blocks]
  OBVIOUS
<1>5. y \in Seq(Seq(BlockType))
  <2>1. PICK q : q = p + 1
    OBVIOUS
  <2>2. s.heap[c] \in Seq(BlockType) /\ q \in 1 .. Len(s.heap[c]) /\ blocks = RemoveAt(s.heap[c], q)
    BY <1>0, <1>3, <2>1
  <2>3. blocks \in Seq(BlockType)
    BY <2>2, RemoveAtFacts
  <2> QED BY <1>0, <1>4, <2>3
<1>6. PICK f : f = RemoveFirst(s.free, k)
  OBVIOUS
<1>7. f \in Seq(Entries)
  BY <1>0, <1>6, RemoveFirstFacts
<1>8. PICK v : v = [s EXCEPT !.ent = x, !.heap = y]
  OBVIOUS
<1>9. Fields(v, x, y, s.free, s.unused, s.lru, s.segs, s.room)
  BY <1>2, <1>5, <1>8, WithEntHeap
<1>10. PICK u : u = [v EXCEPT !.free = f]
  OBVIOUS
<1>11. Fields(u, x, y, f, s.unused, s.lru, s.segs, s.room)
  <2>1. v \in StateType
    BY <1>9 DEF Fields
  <2>2. /\ u \in StateType /\ u.free = f /\ u.ent = v.ent /\ u.heap = v.heap /\ u.unused = v.unused
        /\ u.lru = v.lru /\ u.segs = v.segs /\ u.room = v.room
    BY <1>7, <1>10, <2>1, WithFree
  <2> QED BY <1>9, <2>2, Zenon DEF Fields
<1>12. u = [s EXCEPT !.ent[n].siz = z, !.free = RemoveFirst(@, k), !.heap[c] = RemoveAt(@, p + 1)]
  BY <1>1, <1>3, <1>4, <1>6, <1>8, <1>10 DEF StateType
<1>13. PICK t : t = Disuse(u, k)
  OBVIOUS
<1>14. Fields(t, [x EXCEPT ![k] = UnusedEntry], y, f, s.unused \union {k}, s.lru, s.segs, s.room)
  <2>1. u \in StateType
    BY <1>11 DEF Fields
  <2>2. /\ t \in StateType
        /\ t.ent = [u.ent EXCEPT ![k] = UnusedEntry] /\ t.unused = u.unused \union {k}
        /\ t.heap = u.heap /\ t.free = u.free /\ t.lru = u.lru
        /\ t.segs = u.segs /\ t.room = u.room
    BY <1>13, <2>1, DisuseFacts
  <2> QED BY <1>11, <2>2, Zenon DEF Fields
<1>15. Annexed(s, n, k, c, p, z) = t
  BY <1>12, <1>13, Zenon DEF Annexed
<1> QED BY <1>1, <1>3, <1>4, <1>6, <1>14, <1>15, Zenon

\* Lemma: the block of an entry in memory has a size.
LEMMA PresentSize ==
  ASSUME NEW s, Good(s), NEW n \in Entries, Has(s, n, "PRES") \/ Has(s, n, "FREE")
  PROVE  s.ent[n].siz > 0
<1>1. PICK c \in 1 .. Len(s.heap) : \E i \in 1 .. Len(s.heap[c]) :
        s.heap[c][i].num = n /\ PlaceOf(s, n) = <<c, i>> /\ DataOf(s, n) = s.heap[c][i].data
  BY HeaderPlace
<1>2. PICK i \in 1 .. Len(s.heap[c]) : s.heap[c][i].num = n
  BY <1>1
<1> QED BY <1>2, EndFits

\* Lemma: what the next block being free means.
LEMMA NextFreeFacts ==
  ASSUME NEW s, Good(s), NEW n \in Entries, Has(s, n, "PRES"), NEW k, k = NextFree(s, n), k # NoEntry
  PROVE  \E c, p : Behind(s, n, k, c, p)
<1>1. PICK c \in 1 .. Len(s.heap) : \E i \in 1 .. Len(s.heap[c]) :
        s.heap[c][i].num = n /\ PlaceOf(s, n) = <<c, i>> /\ DataOf(s, n) = s.heap[c][i].data
  BY HeaderPlace
<1>2. PICK p \in 1 .. Len(s.heap[c]) : s.heap[c][p].num = n /\ PlaceOf(s, n) = <<c, p>>
  BY <1>1
<1>3. PlaceOf(s, n)[1] = c /\ PlaceOf(s, n)[2] = p
  BY <1>2
<1>4. k = IF p < Len(s.heap[c]) /\ Has(s, s.heap[c][p + 1].num, "FREE")
          THEN s.heap[c][p + 1].num ELSE NoEntry
  BY <1>3, Zenon DEF NextFree
<1>5. p < Len(s.heap[c]) /\ Has(s, k, "FREE") /\ k = s.heap[c][p + 1].num
  BY <1>4
<1>6. p \in 1 .. Len(s.heap[c]) - 1
  BY <1>5, StateFields DEF Good
<1>7. Behind(s, n, k, c, p)
  BY <1>2, <1>5, <1>6 DEF Behind
<1> QED BY <1>7

\* Lemma: mcmrealo of an object that annexes the free block behind it.
LEMMA AnnexAllGood ==
  ASSUME NEW s, Good(s), NEW n \in Entries, Has(s, n, "PRES"), NEW k, k = NextFree(s, n), k # NoEntry,
         NEW siz \in Nat, siz > 0, NEW t, t = Annex(s, n, k, siz)
  PROVE  Good(t) /\ KeepsOthers(s, t, n) /\ KeptSized(s, t, n)
<1>1. PICK c, p : Behind(s, n, k, c, p)
  BY NextFreeFacts
<1>2. /\ c \in 1 .. Len(s.heap) /\ p \in 1 .. Len(s.heap[c]) - 1
      /\ s.heap[c][p].num = n /\ s.heap[c][p + 1].num = k
      /\ PlaceOf(s, n) = <<c, p>> /\ Has(s, k, "FREE")
  BY <1>1 DEF Behind
<1>3. /\ s \in StateType /\ IsInjective(s.free) /\ s.heap \in Seq(Seq(BlockType)) /\ Separate(s.heap)
      /\ s.ent \in [Entries -> EntryType] /\ EntryGood(s.ent[n]) /\ HeapGood(s.ent, s.heap)
  BY StateFields DEF Good, ListsGood, ListOf, HeapGood
<1>4. p \in 1 .. Len(s.heap[c]) /\ p + 1 \in 1 .. Len(s.heap[c])
  <2>1. Len(s.heap[c]) \in Nat
    BY <1>2, <1>3
  <2> QED BY <1>2, <2>1, SMTT(20)
<1>5. k \in Entries /\ k # n
  <2>1. k \in Entries
    <3>1. PICK q \in 1 .. Len(s.heap[c]) : s.heap[c][q].num = k
      BY <1>2, <1>4
    <3>2. s.heap[c][q].num \in Entries
      BY <1>2, PlaceHeader
    <3> QED BY <3>1, <3>2
  <2>2. k # n
    BY <1>2, <1>3 DEF EntryGood, Has
  <2> QED BY <2>1, <2>2
<1>6. PICK z : z = s.ent[n].siz + s.ent[k].siz
  OBVIOUS
<1>7. z \in 0 .. Chunk
  <2>1. /\ s.ent[n].siz \in 0 .. Chunk /\ s.ent[k].siz \in 0 .. Chunk
        /\ s.ent[n].at[2] \in 0 .. Chunk /\ s.ent[k].at[2] \in 0 .. Chunk
    BY <1>3, <1>5, EntryFields
  <2>2. s.ent[k].at[2] = s.ent[n].at[2] + s.ent[n].siz
    <3>1. PICK old : old = s.heap[c]
      OBVIOUS
    <3>2. Chained(s.ent, old, c) /\ p \in 1 .. Len(old) - 1 /\ old[p].num = n /\ old[p + 1].num = k
      BY <1>2, <1>3, <3>1 DEF HeapGood
    <3> QED BY <3>2 DEF Chained, EndOf
  <2>3. s.ent[k].at[2] + s.ent[k].siz <= Chunk
    <3>1. PICK q \in 1 .. Len(s.heap[c]) : s.heap[c][q].num = k
      BY <1>2, <1>4
    <3>2. s.ent[s.heap[c][q].num].at[2] + s.ent[s.heap[c][q].num].siz <= Chunk
      BY <1>2, EndFits
    <3> QED BY <3>1, <3>2
  <2> QED BY <1>6, <2>1, <2>2, <2>3, ConstFacts
<1>8. PICK u : u = Annexed(s, n, k, c, p, z)
  OBVIOUS
<1>9. Fields(u, [[s.ent EXCEPT ![n] = [s.ent[n] EXCEPT !.siz = z]] EXCEPT ![k] = UnusedEntry],
             [s.heap EXCEPT ![c] = RemoveAt(s.heap[c], p + 1)],
             RemoveFirst(s.free, k), s.unused \union {k}, s.lru, s.segs, s.room)
  BY <1>2, <1>3, <1>4, <1>5, <1>7, <1>8, AnnexFields
<1>10. AnnexOf(s, u, n, k, c, p)
  <2>1. /\ u.ent[n] = [s.ent[n] EXCEPT !.siz = z] /\ u.ent[k] = UnusedEntry
        /\ \A j \in Entries : j # n /\ j # k => u.ent[j] = s.ent[j]
    <3>1. u.ent = [[s.ent EXCEPT ![n] = [s.ent[n] EXCEPT !.siz = z]] EXCEPT ![k] = UnusedEntry]
      BY <1>9 DEF Fields
    <3> QED BY <1>3, <1>5, <3>1
  <2> QED BY <1>6, <1>9, <2>1, Zenon DEF Fields, AnnexOf
<1>11. Good(u) /\ KeepsOthers(s, u, n) /\ KeptSized(s, u, n)
  <2>1. u \in StateType
    BY <1>9 DEF Fields
  <2> QED BY <1>1, <1>10, <2>1, AnnexGood
<1>12. t = mcmsplt(u, n, siz)
  <2>1. PlaceOf(s, n)[1] = c /\ PlaceOf(s, n)[2] = p
    BY <1>2
  <2>2. Annex(s, n, k, siz) = mcmsplt(Annexed(s, n, k, c, p, z), n, siz)
    BY <1>6, <2>1, Zenon DEF Annex, Annexed
  <2> QED BY <1>8, <2>2
<1>13. Good(t) /\ KeepsOthers(u, t, n) /\ KeptSized(u, t, n)
  <2>1. Has(u, n, "PRES")
    BY <1>11 DEF KeptSized, Has
  <2> QED BY <1>11, <1>12, <2>1, mcmspltGood
<1>14. KeepsOthers(s, t, n)
  <2>1. ASSUME NEW j, Owned(s, j), j # n PROVE Kept(s, t, j)
    <3>1. Kept(s, u, j) /\ Owned(u, j)
      BY <1>11, <2>1 DEF KeepsOthers, Kept
    <3>2. Kept(u, t, j)
      BY <1>13, <2>1, <3>1 DEF KeepsOthers
    <3> QED BY <1>11, <2>1, <3>1, <3>2, KeptTwice
  <2>2. Modest(s, t)
    BY <1>11, <1>13 DEF KeepsOthers, Modest
  <2> QED BY <2>1, <2>2 DEF KeepsOthers
<1>15. KeptSized(s, t, n)
  BY <1>11, <1>13, Zenon DEF KeptSized
<1> QED BY <1>13, <1>14, <1>15

-----------------------------------------------------------------------------
\* Moving an object to another block.

\* Block i of chunk c is b now, the other blocks are what they were.
PutIn(heap, new, c, i, b) ==
  /\ new \in Seq(Seq(BlockType)) /\ Len(new) = Len(heap)
  /\ \A d \in 1 .. Len(heap) : Len(new[d]) = Len(heap[d])
  /\ new[c][i] = b
  /\ \A d \in 1 .. Len(heap) : \A j \in 1 .. Len(heap[d]) : d # c \/ j # i => new[d][j] = heap[d][j]

\* The headers of two blocks have changed places: a is at the place of b's
\* header, b at that of a's.
Exchanged(heap, new, c, i, d, j, a, b) ==
  /\ new \in Seq(Seq(BlockType)) /\ Len(new) = Len(heap) /\ Separate(new)
  /\ \A e \in 1 .. Len(heap) : Len(new[e]) = Len(heap[e])
  /\ new[c][i] = b /\ new[d][j] = a
  /\ \A e \in 1 .. Len(heap) : \A l \in 1 .. Len(heap[e]) :
       (e # c \/ l # i) /\ (e # d \/ l # j) => new[e][l] = heap[e][l]
  /\ \A x : x \in BlocksOf(new) <=>
              x = a \/ x = b \/ (x \in BlocksOf(heap) /\ x.num # a.num /\ x.num # b.num)

\* Lemma: one block of the heap changes.
LEMMA PutBlock ==
  ASSUME NEW heap \in Seq(Seq(BlockType)), NEW c \in 1 .. Len(heap), NEW i \in 1 .. Len(heap[c]),
         NEW b \in BlockType, NEW new, new = [heap EXCEPT ![c][i] = b]
  PROVE  PutIn(heap, new, c, i, b)
<1>1. heap[c] \in Seq(BlockType)
  OBVIOUS
<1>2. PICK blocks : blocks = [heap[c] EXCEPT ![i] = b]
  OBVIOUS
<1>3. /\ blocks \in Seq(BlockType) /\ Len(blocks) = Len(heap[c]) /\ blocks[i] = b
      /\ \A j \in 1 .. Len(heap[c]) : j # i => blocks[j] = heap[c][j]
  BY <1>1, <1>2
<1>4. new = [heap EXCEPT ![c] = blocks]
  BY <1>2
<1>5. /\ new \in Seq(Seq(BlockType)) /\ Len(new) = Len(heap) /\ new[c] = blocks
      /\ \A d \in 1 .. Len(heap) : d # c => new[d] = heap[d]
  BY <1>3, <1>4
<1>6. \A d \in 1 .. Len(heap) : Len(new[d]) = Len(heap[d])
  BY <1>3, <1>5
<1>7. \A d \in 1 .. Len(heap) : \A j \in 1 .. Len(heap[d]) : d # c \/ j # i => new[d][j] = heap[d][j]
  BY <1>3, <1>5
<1> QED BY <1>3, <1>5, <1>6, <1>7 DEF PutIn

\* Lemma: two headers change places.
LEMMA ExchangeBlocks ==
  ASSUME NEW heap \in Seq(Seq(BlockType)), Separate(heap),
         NEW c \in 1 .. Len(heap), NEW i \in 1 .. Len(heap[c]),
         NEW d \in 1 .. Len(heap), NEW j \in 1 .. Len(heap[d]),
         NEW a \in BlockType, NEW b \in BlockType, a.num = heap[c][i].num, b.num = heap[d][j].num,
         a.num # b.num, NEW mid, PutIn(heap, mid, d, j, a), NEW new, PutIn(mid, new, c, i, b)
  PROVE  Exchanged(heap, new, c, i, d, j, a, b)
<1>1. /\ mid \in Seq(Seq(BlockType)) /\ Len(mid) = Len(heap)
      /\ \A e \in 1 .. Len(heap) : Len(mid[e]) = Len(heap[e])
      /\ mid[d][j] = a
      /\ \A e \in 1 .. Len(heap) : \A l \in 1 .. Len(heap[e]) : e # d \/ l # j => mid[e][l] = heap[e][l]
  BY DEF PutIn
<1>2. /\ new \in Seq(Seq(BlockType)) /\ Len(new) = Len(mid)
      /\ \A e \in 1 .. Len(mid) : Len(new[e]) = Len(mid[e])
      /\ new[c][i] = b
      /\ \A e \in 1 .. Len(mid) : \A l \in 1 .. Len(mid[e]) : e # c \/ l # i => new[e][l] = mid[e][l]
  BY DEF PutIn
<1>3. d # c \/ j # i
  OBVIOUS
<1>4. new[d][j] = a
  BY <1>1, <1>2, <1>3
<1>5. Len(new) = Len(heap) /\ \A e \in 1 .. Len(heap) : Len(new[e]) = Len(heap[e])
  BY <1>1, <1>2
<1>6. ASSUME NEW e \in 1 .. Len(heap), NEW l \in 1 .. Len(heap[e]), e # c \/ l # i, e # d \/ l # j
      PROVE  /\ new[e][l] = heap[e][l] /\ heap[e][l].num # a.num /\ heap[e][l].num # b.num
  <2>1. mid[e][l] = heap[e][l]
    BY <1>1, <1>6
  <2>2. e \in 1 .. Len(mid) /\ l \in 1 .. Len(mid[e])
    BY <1>1
  <2>3. new[e][l] = heap[e][l]
    BY <1>2, <1>6, <2>1, <2>2
  <2>4. heap[e][l].num # a.num
    BY <1>6 DEF Separate
  <2>5. heap[e][l].num # b.num
    BY <1>6 DEF Separate
  <2> QED BY <2>3, <2>4, <2>5
<1>7. Separate(new)
  <2>0. SameShape(heap, new)
    BY <1>5, Zenon DEF SameShape
  <2> SUFFICES ASSUME NEW e \in 1 .. Len(heap), NEW f \in 1 .. Len(heap), NEW l \in 1 .. Len(heap[e]),
                      NEW g \in 1 .. Len(heap[f]), new[e][l].num = new[f][g].num
               PROVE  e = f /\ l = g
    BY <2>0, ApartIsSeparate, Zenon DEF ApartLike
  <2>t. new[c][i] = b /\ new[d][j] = a
    BY <1>2, <1>4, Zenon
  <2>u. (f = c /\ g = i) \/ (f = d /\ g = j) \/ ((f # c \/ g # i) /\ (f # d \/ g # j))
    OBVIOUS
  <2>v. (f # c \/ g # i) /\ (f # d \/ g # j) => new[f][g].num # a.num /\ new[f][g].num # b.num
    BY <1>6
  <2>1. CASE e = c /\ l = i
    <3>1. new[f][g].num = b.num
      BY <2>t, <2>1
    <3>2. f = c /\ g = i
      BY <2>t, <2>u, <2>v, <3>1
    <3> QED BY <2>1, <3>2, Zenon
  <2>2. CASE e = d /\ l = j
    <3>1. new[f][g].num = a.num
      BY <2>t, <2>2
    <3>2. f = d /\ g = j
      BY <2>t, <2>u, <2>v, <3>1
    <3> QED BY <2>2, <3>2, Zenon
  <2>3. CASE (e # c \/ l # i) /\ (e # d \/ l # j)
    <3>1. new[e][l] = heap[e][l] /\ heap[e][l].num # a.num /\ heap[e][l].num # b.num
      BY <1>6, <2>3
    <3>2. (f # c \/ g # i) /\ (f # d \/ g # j)
      BY <1>2, <1>4, <3>1
    <3>3. new[f][g] = heap[f][g]
      BY <1>6, <3>2
    <3>4. heap[e][l].num = heap[f][g].num
      BY <3>1, <3>3
    <3>5. Separate(heap)
      OBVIOUS
    <3>6. \A u \in 1 .. Len(heap[e]), v \in 1 .. Len(heap[f]) :
            heap[e][u].num = heap[f][v].num => e = f /\ u = v
      BY <3>5, Zenon DEF Separate
    <3> QED BY <3>4, <3>6, Zenon
  <2> QED BY <2>1, <2>2, <2>3
<1>8. ASSUME NEW x
      PROVE  x \in BlocksOf(new) <=>
               x = a \/ x = b \/ (x \in BlocksOf(heap) /\ x.num # a.num /\ x.num # b.num)
  <2>1. x \in BlocksOf(new) <=> \E e \in 1 .. Len(heap) : \E l \in 1 .. Len(heap[e]) : new[e][l] = x
    <3>1. new \in Seq(Seq(BlockType))
      BY <1>2
    <3>2. x \in BlocksOf(new) <=> \E e \in 1 .. Len(new) : \E l \in 1 .. Len(new[e]) : new[e][l] = x
      BY <3>1, BlocksFacts
    <3> QED BY <1>5, <3>2
  <2>2. x \in BlocksOf(heap) <=> \E e \in 1 .. Len(heap) : \E l \in 1 .. Len(heap[e]) : heap[e][l] = x
    BY BlocksFacts
  <2>3. ASSUME NEW e \in 1 .. Len(heap), NEW l \in 1 .. Len(heap[e]), new[e][l] = x
        PROVE  x = a \/ x = b \/ (x \in BlocksOf(heap) /\ x.num # a.num /\ x.num # b.num)
    <3>1. CASE e = c /\ l = i
      BY <1>2, <2>3, <3>1
    <3>2. CASE e = d /\ l = j
      BY <1>4, <2>3, <3>2
    <3>3. CASE (e # c \/ l # i) /\ (e # d \/ l # j)
      <4>1. heap[e][l] = x /\ heap[e][l].num # a.num /\ heap[e][l].num # b.num
        BY <1>6, <2>3, <3>3
      <4> QED BY <2>2, <4>1
    <3> QED BY <3>1, <3>2, <3>3
  <2>4. ASSUME NEW e \in 1 .. Len(heap), NEW l \in 1 .. Len(heap[e]), heap[e][l] = x,
               x.num # a.num, x.num # b.num
        PROVE  x \in BlocksOf(new)
    <3>1. (e # c \/ l # i) /\ (e # d \/ l # j)
      BY <2>4
    <3>2. new[e][l] = heap[e][l]
      BY <1>6, <3>1
    <3> QED BY <2>1, <2>4, <3>2
  <2>5. x = a \/ x = b => x \in BlocksOf(new)
    BY <1>2, <1>4, <2>1
  <2> QED BY <2>1, <2>2, <2>3, <2>4, <2>5
<1>9. /\ new[c][i] = b /\ new \in Seq(Seq(BlockType))
      /\ \A e \in 1 .. Len(heap) : \A l \in 1 .. Len(heap[e]) :
           (e # c \/ l # i) /\ (e # d \/ l # j) => new[e][l] = heap[e][l]
  BY <1>2, <1>6
<1> QED BY <1>4, <1>5, <1>7, <1>8, <1>9 DEF Exchanged

\* The entry of an object that has moved to the block of x, and all of the
\* state; the block of n is at i of chunk c, that of k at j of chunk d.
MovedEntry(e, x) == [e EXCEPT !.siz = x.siz, !.at = x.at]
LeftEntry(e) == Entry({"FREE"}, e.siz, e.at, 0)
MovedEnt(s, n, k) ==
  [[s.ent EXCEPT ![n] = MovedEntry(s.ent[n], s.ent[k])] EXCEPT ![k] = LeftEntry(s.ent[n])]
MovedHeap(s, n, k, c, i, d, j) ==
  [[s.heap EXCEPT ![d][j] = Block(n, DataOf(s, n))] EXCEPT ![c][i] = Block(k, Nothing)]
MovedState(s, n, k, c, i, d, j) ==
  [s EXCEPT !.ent = MovedEnt(s, n, k), !.heap = MovedHeap(s, n, k, c, i, d, j)]

\* The object n and the free header k have changed places.
MoveOf(s, t, n, k, c, i, d, j) ==
  /\ t.ent[n] = MovedEntry(s.ent[n], s.ent[k]) /\ t.ent[k] = LeftEntry(s.ent[n])
  /\ \A x \in Entries : x # n /\ x # k => t.ent[x] = s.ent[x]
  /\ Exchanged(s.heap, t.heap, c, i, d, j, Block(n, DataOf(s, n)), Block(k, Nothing))
  /\ t.free = <<k>> \o s.free /\ t.unused = s.unused
  /\ t.lru = s.lru /\ t.segs = s.segs /\ t.room = s.room
PlacesOf(s, n, k, c, i, d, j) ==
  /\ c \in 1 .. Len(s.heap) /\ i \in 1 .. Len(s.heap[c]) /\ s.heap[c][i].num = n /\ PlaceOf(s, n) = <<c, i>>
  /\ d \in 1 .. Len(s.heap) /\ j \in 1 .. Len(s.heap[d]) /\ s.heap[d][j].num = k /\ PlaceOf(s, k) = <<d, j>>

\* Lemma: the fields of those entries.
LEMMA MovedEntryFacts ==
  ASSUME NEW e \in EntryType, NEW x \in EntryType, NEW f, f = MovedEntry(e, x)
  PROVE  /\ f \in EntryType /\ f.flg = e.flg /\ f.siz = x.siz /\ f.at = x.at
         /\ f.locks = e.locks /\ f.seg = e.seg /\ (EntryGood(e) => EntryGood(f))
<1>1. PICK z \in 0 .. Chunk : z = x.siz
  BY DEF EntryType
<1>2. PICK a \in (0 .. MaxChunks) \X (0 .. Chunk) : a = x.at
  BY DEF EntryType
<1>3. f = [e EXCEPT !.siz = z, !.at = a]
  BY <1>1, <1>2 DEF MovedEntry
<1>4. /\ e = [flg |-> e.flg, siz |-> e.siz, at |-> e.at, locks |-> e.locks, seg |-> e.seg]
      /\ e.flg \in SUBSET Flags /\ e.locks \in Nat /\ e.seg \in Nat
  BY DEF EntryType
<1>5. f = [flg |-> e.flg, siz |-> z, at |-> a, locks |-> e.locks, seg |-> e.seg]
  BY <1>3, <1>4
<1>6. f \in EntryType
  BY <1>4, <1>5 DEF EntryType
<1>7. f.flg = e.flg /\ f.siz = z /\ f.at = a /\ f.locks = e.locks /\ f.seg = e.seg
  BY <1>5
<1>8. EntryGood(e) => EntryGood(f)
  BY <1>7, Zenon DEF EntryGood
<1> QED BY <1>1, <1>2, <1>6, <1>7, <1>8

\* Lemma: the state after the move, field by field.
LEMMA MoveState ==
  ASSUME NEW s \in StateType, NEW n \in Entries, NEW k \in Entries, n # k,
         NEW c, NEW i, NEW d, NEW j, PlaceOf(s, n) = <<c, i>>, PlaceOf(s, k) = <<d, j>>
  PROVE  MoveTo(s, n, k) = LinkFree(MovedState(s, n, k, c, i, d, j), k)
<1>1. PICK a : a = Block(n, DataOf(s, n))
  OBVIOUS
<1>2. PICK b : b = Block(k, Nothing)
  OBVIOUS
<1>3. PICK u : u = SetBlock(s, PlaceOf(s, k), a)
  OBVIOUS
<1>4. PICK h : h = [s.heap EXCEPT ![d][j] = a]
  OBVIOUS
<1>5. u = [s EXCEPT !.heap = h]
  <2>1. PlaceOf(s, k)[1] = d /\ PlaceOf(s, k)[2] = j
    OBVIOUS
  <2>2. u = [s EXCEPT !.heap[d][j] = a]
    BY <1>3, <2>1 DEF SetBlock
  <2> QED BY <1>4, <2>2 DEF StateType
<1>6. PICK v : v = SetBlock(u, PlaceOf(s, n), b)
  OBVIOUS
<1>7. PICK g : g = [h EXCEPT ![c][i] = b]
  OBVIOUS
<1>8. v = [s EXCEPT !.heap = g]
  <2>1. PlaceOf(s, n)[1] = c /\ PlaceOf(s, n)[2] = i
    OBVIOUS
  <2>2. v = [u EXCEPT !.heap[c][i] = b]
    BY <1>6, <2>1 DEF SetBlock
  <2>3. u.heap = h
    BY <1>5 DEF StateType
  <2>4. v = [u EXCEPT !.heap = g]
    BY <1>5, <1>7, <2>2, <2>3 DEF StateType
  <2> QED BY <1>5, <2>4 DEF StateType
<1>9. g = MovedHeap(s, n, k, c, i, d, j)
  BY <1>1, <1>2, <1>4, <1>7 DEF MovedHeap
<1>10. PICK f : f = MovedEntry(s.ent[n], s.ent[k])
  OBVIOUS
<1>11. PICK l : l = LeftEntry(s.ent[n])
  OBVIOUS
<1>12. PICK x : x = [[s.ent EXCEPT ![n] = f] EXCEPT ![k] = l]
  OBVIOUS
<1>13. x = MovedEnt(s, n, k)
  BY <1>10, <1>11, <1>12 DEF MovedEnt
<1>14. PICK w : w = [v EXCEPT !.ent[n].siz = s.ent[k].siz, !.ent[n].at = s.ent[k].at, !.ent[k] = l]
  OBVIOUS
<1>15. w = [v EXCEPT !.ent = x]
  <2>1. s.ent \in [Entries -> EntryType] /\ v.ent = s.ent
    BY <1>8 DEF StateType
  <2>2. PICK z : z = s.ent[k].siz
    OBVIOUS
  <2>3. PICK p : p = s.ent[k].at
    OBVIOUS
  <2>4. f = [s.ent[n] EXCEPT !.siz = z, !.at = p]
    BY <1>10, <2>2, <2>3 DEF MovedEntry
  <2>5. PICK y : y = [s.ent EXCEPT ![n].siz = z, ![n].at = p, ![k] = l]
    OBVIOUS
  <2>6. y = x
    BY <1>12, <2>1, <2>4, <2>5 DEF EntryType
  <2>7. w = [v EXCEPT !.ent = y]
    BY <1>8, <1>14, <2>1, <2>2, <2>3, <2>5 DEF StateType
  <2> QED BY <2>6, <2>7
<1>16. w = MovedState(s, n, k, c, i, d, j)
  <2>1. w = [s EXCEPT !.ent = x, !.heap = g]
    BY <1>8, <1>15 DEF StateType
  <2> QED BY <1>9, <1>13, <2>1 DEF MovedState
<1>17. MoveTo(s, n, k) = LinkFree(w, k)
  BY <1>1, <1>2, <1>3, <1>6, <1>11, <1>14, Zenon DEF MoveTo, LeftEntry
<1> QED BY <1>16, <1>17

\* Lemma: the entries and the heap after the move.
LEMMA MoveFields ==
  ASSUME NEW s, Good(s), NEW n \in Entries, Has(s, n, "PRES"), NEW k, Spare(s, k), k # n,
         NEW c, NEW i, NEW d, NEW j, PlacesOf(s, n, k, c, i, d, j), NEW t, t = MoveTo(s, n, k)
  PROVE  t \in StateType /\ MoveOf(s, t, n, k, c, i, d, j)
<1>1. /\ s \in StateType /\ s.ent \in [Entries -> EntryType] /\ s.heap \in Seq(Seq(BlockType))
      /\ Separate(s.heap) /\ k \in Entries /\ s.ent[n] \in EntryType /\ s.ent[k] \in EntryType
  BY StateFields, EntryFields DEF Good, HeapGood, Spare
<1>2. /\ c \in 1 .. Len(s.heap) /\ i \in 1 .. Len(s.heap[c]) /\ s.heap[c][i].num = n /\ PlaceOf(s, n) = <<c, i>>
      /\ d \in 1 .. Len(s.heap) /\ j \in 1 .. Len(s.heap[d]) /\ s.heap[d][j].num = k /\ PlaceOf(s, k) = <<d, j>>
  BY DEF PlacesOf
<1>3. PICK a : a = Block(n, DataOf(s, n))
  OBVIOUS
<1>4. PICK b : b = Block(k, Nothing)
  OBVIOUS
<1>5. a \in BlockType /\ b \in BlockType /\ a.num = n /\ b.num = k
  <2>1. PICK e \in 1 .. Len(s.heap) : \E l \in 1 .. Len(s.heap[e]) :
          s.heap[e][l].num = n /\ PlaceOf(s, n) = <<e, l>> /\ DataOf(s, n) = s.heap[e][l].data
    BY HeaderPlace
  <2>2. DataOf(s, n) \in Versions \union {Nothing}
    BY <1>1, <2>1, BlocksFacts
  <2> QED BY <1>1, <1>3, <1>4, <2>2 DEF Block, BlockType
<1>6. PICK mid : mid = [s.heap EXCEPT ![d][j] = a]
  OBVIOUS
<1>7. PutIn(s.heap, mid, d, j, a)
  <2>1. s.heap \in Seq(Seq(BlockType)) /\ d \in 1 .. Len(s.heap) /\ j \in 1 .. Len(s.heap[d])
    BY <1>1, <1>2
  <2> QED BY <1>5, <1>6, <2>1, PutBlock
<1>8. PICK h : h = [mid EXCEPT ![c][i] = b]
  OBVIOUS
<1>9. PutIn(mid, h, c, i, b)
  <2>1. mid \in Seq(Seq(BlockType)) /\ c \in 1 .. Len(mid) /\ i \in 1 .. Len(mid[c])
    BY <1>2, <1>7 DEF PutIn
  <2> QED BY <1>5, <1>8, <2>1, PutBlock
<1>10. Exchanged(s.heap, h, c, i, d, j, a, b)
  <2>1. s.heap \in Seq(Seq(BlockType)) /\ Separate(s.heap)
    BY <1>1
  <2>2. a.num = s.heap[c][i].num /\ b.num = s.heap[d][j].num /\ a.num # b.num
    BY <1>2, <1>5
  <2> QED BY <1>2, <1>5, <1>7, <1>9, <2>1, <2>2, ExchangeBlocks
<1>11. h = MovedHeap(s, n, k, c, i, d, j)
  BY <1>3, <1>4, <1>6, <1>8 DEF MovedHeap
<1>12. PICK x : x = MovedEnt(s, n, k)
  OBVIOUS
<1>13. PICK f : f = MovedEntry(s.ent[n], s.ent[k])
  OBVIOUS
<1>14. PICK l : l = LeftEntry(s.ent[n])
  OBVIOUS
<1>15. f \in EntryType
  BY <1>1, <1>13, MovedEntryFacts
<1>16. l \in EntryType
  <2>1. s.ent[n].siz \in 0 .. Chunk /\ s.ent[n].at \in (0 .. MaxChunks) \X (0 .. Chunk)
    BY <1>1, EntryFields
  <2>2. l = Entry({"FREE"}, s.ent[n].siz, s.ent[n].at, 0)
    BY <1>14 DEF LeftEntry
  <2> QED BY <2>1, <2>2, FreeEntry
<1>17. x = [[s.ent EXCEPT ![n] = f] EXCEPT ![k] = l]
  BY <1>12, <1>13, <1>14 DEF MovedEnt
<1>18. /\ x \in [Entries -> EntryType] /\ x[n] = f /\ x[k] = l
       /\ \A y \in Entries : y # n /\ y # k => x[y] = s.ent[y]
  BY <1>1, <1>15, <1>16, <1>17
<1>19. PICK w : w = MovedState(s, n, k, c, i, d, j)
  OBVIOUS
<1>20. Fields(w, x, h, s.free, s.unused, s.lru, s.segs, s.room)
  <2>1. h \in Seq(Seq(BlockType))
    BY <1>9 DEF PutIn
  <2>2. w = [s EXCEPT !.ent = x, !.heap = h]
    BY <1>11, <1>12, <1>19 DEF MovedState
  <2>3. s \in StateType /\ x \in [Entries -> EntryType]
    BY <1>1, <1>18
  <2> QED BY <2>1, <2>2, <2>3, WithEntHeap
<1>21. t = LinkFree(w, k)
  <2>1. s \in StateType /\ k \in Entries
    BY <1>1
  <2>2. PlaceOf(s, n) = <<c, i>> /\ PlaceOf(s, k) = <<d, j>>
    BY <1>2
  <2>3. MoveTo(s, n, k) = LinkFree(MovedState(s, n, k, c, i, d, j), k)
    BY <2>1, <2>2, MoveState
  <2> QED BY <1>19, <2>3
<1>22. /\ t \in StateType /\ t.free = <<k>> \o w.free /\ t.ent = w.ent /\ t.unused = w.unused
       /\ t.heap = w.heap /\ t.lru = w.lru /\ t.segs = w.segs /\ t.room = w.room
  <2>1. w \in StateType
    BY <1>20 DEF Fields
  <2> QED BY <1>1, <1>21, <2>1, LinkFreeFacts
<1>23. /\ t.free = <<k>> \o s.free /\ t.ent = x /\ t.unused = s.unused
       /\ t.heap = h /\ t.lru = s.lru /\ t.segs = s.segs /\ t.room = s.room
  BY <1>20, <1>22, Zenon DEF Fields
<1>24. Exchanged(s.heap, t.heap, c, i, d, j, Block(n, DataOf(s, n)), Block(k, Nothing))
  BY <1>3, <1>4, <1>10, <1>23
<1>25. MoveOf(s, t, n, k, c, i, d, j)
  BY <1>13, <1>14, <1>18, <1>23, <1>24, Zenon DEF MoveOf
<1> QED BY <1>22, <1>25

\* Lemma: after the move the heap has the chunks it had.
LEMMA MovedHeapGood ==
  ASSUME NEW s, Good(s), NEW n \in Entries, NEW k \in Entries, k # n, NEW c, NEW i, NEW d, NEW j,
         PlacesOf(s, n, k, c, i, d, j), NEW t, t \in StateType, MoveOf(s, t, n, k, c, i, d, j)
  PROVE  HeapGood(t.ent, t.heap) /\ Len(t.heap) = Len(s.heap)
<1>1. /\ s \in StateType /\ s.heap \in Seq(Seq(BlockType)) /\ HeapGood(s.ent, s.heap) /\ Separate(s.heap)
      /\ s.ent[n] \in EntryType /\ s.ent[k] \in EntryType
  BY StateFields, EntryFields DEF Good, HeapGood
<1>2. /\ s.heap[c][i].num = n /\ s.heap[d][j].num = k
      /\ c \in 1 .. Len(s.heap) /\ i \in 1 .. Len(s.heap[c])
      /\ d \in 1 .. Len(s.heap) /\ j \in 1 .. Len(s.heap[d])
  BY DEF PlacesOf
<1>3. PICK a : a = Block(n, DataOf(s, n))
  OBVIOUS
<1>4. PICK b : b = Block(k, Nothing)
  OBVIOUS
<1>5. a.num = n /\ b.num = k
  BY <1>3, <1>4 DEF Block
<1>6. Exchanged(s.heap, t.heap, c, i, d, j, a, b)
  BY <1>3, <1>4 DEF MoveOf
<1>7. /\ t.heap \in Seq(Seq(BlockType)) /\ Len(t.heap) = Len(s.heap) /\ Separate(t.heap)
      /\ \A e \in 1 .. Len(s.heap) : Len(t.heap[e]) = Len(s.heap[e])
      /\ t.heap[c][i] = b /\ t.heap[d][j] = a
      /\ \A e \in 1 .. Len(s.heap) : \A l \in 1 .. Len(s.heap[e]) :
           (e # c \/ l # i) /\ (e # d \/ l # j) => t.heap[e][l] = s.heap[e][l]
  BY <1>6, Zenon DEF Exchanged
<1>8. t.ent[n].siz = s.ent[k].siz /\ t.ent[n].at = s.ent[k].at
  <2>1. PICK f : f = MovedEntry(s.ent[n], s.ent[k])
    OBVIOUS
  <2>2. f.siz = s.ent[k].siz /\ f.at = s.ent[k].at
    BY <1>1, <2>1, MovedEntryFacts
  <2>3. t.ent[n] = f
    BY <2>1 DEF MoveOf
  <2> QED BY <2>2, <2>3
<1>9. t.ent[k].siz = s.ent[n].siz /\ t.ent[k].at = s.ent[n].at
  BY DEF MoveOf, LeftEntry, Entry
<1>10. \A x \in Entries : x # n /\ x # k => t.ent[x] = s.ent[x]
  BY DEF MoveOf
<1>11. ASSUME NEW e \in 1 .. Len(s.heap), NEW l \in 1 .. Len(s.heap[e])
       PROVE  SamePlace(s.ent, t.ent, t.heap[e][l].num, s.heap[e][l].num)
  <2>1. CASE e = c /\ l = i
    <3>1. t.heap[e][l].num = k /\ s.heap[e][l].num = n
      BY <1>2, <1>5, <1>7, <2>1
    <3> QED BY <1>9, <3>1 DEF SamePlace
  <2>2. CASE e = d /\ l = j
    <3>1. t.heap[e][l].num = n /\ s.heap[e][l].num = k
      BY <1>2, <1>5, <1>7, <2>2
    <3> QED BY <1>8, <3>1 DEF SamePlace
  <2>3. CASE (e # c \/ l # i) /\ (e # d \/ l # j)
    <3>1. t.heap[e][l].num = s.heap[e][l].num
      BY <1>7, <2>3
    <3>2. s.heap[e][l].num # n
      BY <1>1, <1>2, <2>3 DEF Separate
    <3>3. s.heap[e][l].num # k
      BY <1>1, <1>2, <2>3 DEF Separate
    <3>4. s.heap[e][l].num \in Entries
      BY <1>1, BlocksFacts
    <3> QED BY <1>10, <3>1, <3>2, <3>3, <3>4 DEF SamePlace
  <2> QED BY <2>1, <2>2, <2>3
<1>12. HeapGood(t.ent, t.heap)
  <2>1. PICK heap : heap = s.heap
    OBVIOUS
  <2>2. PICK new : new = t.heap
    OBVIOUS
  <2>3. /\ heap \in Seq(Seq(BlockType)) /\ HeapGood(s.ent, heap) /\ new \in Seq(Seq(BlockType))
        /\ Len(new) = Len(heap) /\ Separate(new) /\ \A e \in 1 .. Len(heap) : Len(new[e]) = Len(heap[e])
    BY <1>1, <1>7, <2>1, <2>2
  <2>4. \A e \in 1 .. Len(heap) : \A l \in 1 .. Len(heap[e]) :
          SamePlace(s.ent, t.ent, new[e][l].num, heap[e][l].num)
    BY <1>11, <2>1, <2>2
  <2>5. HeapGood(t.ent, new)
    BY <2>3, <2>4, RelabelHeap
  <2> QED BY <2>2, <2>5
<1> QED BY <1>7, <1>12

-----------------------------------------------------------------------------
\* Resizing an object.

\* An object that was resized holds what it did and has the locks it had; it
\* has moved only if nobody else holds one.
Sized(s, t, n) ==
  /\ Owned(t, n) /\ Has(t, n, "PRES") /\ Stored(t, n) = Stored(s, n)
  /\ t.ent[n].locks = s.ent[n].locks
OthersBut(s, t, n, k) ==
  /\ \A j : Owned(s, j) /\ j # n /\ j # k => Kept(s, t, j)
  /\ \A j \in Entries : t.ent[j].locks = s.ent[j].locks \/ t.ent[j].locks \in {0, 1}

\* Lemma: the move to the block of a spare header leaves a good state.
LEMMA MoveGood ==
  ASSUME NEW s, Good(s), NEW n \in Entries, Has(s, n, "PRES"), NEW k, Spare(s, k), k # n,
         NEW t, t = MoveTo(s, n, k)
  PROVE  Good(t) /\ OthersBut(s, t, n, k) /\ Sized(s, t, n)
<1>1. /\ s \in StateType /\ s.ent \in [Entries -> EntryType] /\ s.heap \in Seq(Seq(BlockType))
      /\ k \in Entries /\ k \notin s.unused /\ s.ent[k].flg = {"NODISC", "LOCK", "PRES"} /\ Has(s, k, "PRES")
      /\ s.ent[n] \in EntryType /\ s.ent[k] \in EntryType /\ EntryGood(s.ent[n])
  BY StateFields, EntryFields DEF Good, Spare, Has
<1>2. PICK c \in 1 .. Len(s.heap) : \E i \in 1 .. Len(s.heap[c]) :
        s.heap[c][i].num = n /\ PlaceOf(s, n) = <<c, i>> /\ DataOf(s, n) = s.heap[c][i].data
  BY HeaderPlace
<1>3. PICK i \in 1 .. Len(s.heap[c]) : s.heap[c][i].num = n /\ PlaceOf(s, n) = <<c, i>>
  BY <1>2
<1>4. PICK d \in 1 .. Len(s.heap) : \E j \in 1 .. Len(s.heap[d]) :
        s.heap[d][j].num = k /\ PlaceOf(s, k) = <<d, j>> /\ DataOf(s, k) = s.heap[d][j].data
  BY <1>1, HeaderPlace
<1>5. PICK j \in 1 .. Len(s.heap[d]) : s.heap[d][j].num = k /\ PlaceOf(s, k) = <<d, j>>
  BY <1>4
<1>6. PlacesOf(s, n, k, c, i, d, j)
  BY <1>3, <1>5 DEF PlacesOf
<1>7. t \in StateType /\ MoveOf(s, t, n, k, c, i, d, j)
  BY <1>6, MoveFields
<1>8. HeapGood(t.ent, t.heap) /\ Len(t.heap) = Len(s.heap) /\ Separate(t.heap)
  <2>1. HeapGood(t.ent, t.heap) /\ Len(t.heap) = Len(s.heap)
    BY <1>1, <1>6, <1>7, MovedHeapGood
  <2> QED BY <2>1 DEF HeapGood
<1>9. PICK a : a = Block(n, DataOf(s, n))
  OBVIOUS
<1>10. PICK b : b = Block(k, Nothing)
  OBVIOUS
<1>11. a.num = n /\ b.num = k /\ a.data = DataOf(s, n)
  BY <1>9, <1>10 DEF Block
<1>12. \A x : x \in BlocksOf(t.heap) <=> x = a \/ x = b \/ (x \in BlocksOf(s.heap) /\ x.num # n /\ x.num # k)
  <2>1. Exchanged(s.heap, t.heap, c, i, d, j, a, b)
    BY <1>7, <1>9, <1>10 DEF MoveOf
  <2>2. \A x : x \in BlocksOf(t.heap) <=>
                 x = a \/ x = b \/ (x \in BlocksOf(s.heap) /\ x.num # a.num /\ x.num # b.num)
    BY <2>1, Zenon DEF Exchanged
  <2> QED BY <1>11, <2>2
<1>13. /\ \A x \in Entries : x # n /\ x # k => t.ent[x] = s.ent[x]
       /\ t.free = <<k>> \o s.free /\ t.unused = s.unused
       /\ t.lru = s.lru /\ t.segs = s.segs /\ t.room = s.room
  BY <1>7, Zenon DEF MoveOf
<1>14. /\ t.ent[n].flg = s.ent[n].flg /\ t.ent[n].locks = s.ent[n].locks
       /\ t.ent[n].seg = s.ent[n].seg /\ EntryGood(t.ent[n])
  <2>1. PICK f : f = MovedEntry(s.ent[n], s.ent[k])
    OBVIOUS
  <2>2. f.flg = s.ent[n].flg /\ f.locks = s.ent[n].locks /\ f.seg = s.ent[n].seg /\ EntryGood(f)
    BY <1>1, <2>1, MovedEntryFacts
  <2>3. t.ent[n] = f
    BY <1>7, <2>1 DEF MoveOf
  <2> QED BY <2>2, <2>3
<1>15. t.ent[k].flg = {"FREE"} /\ t.ent[k].locks = 0 /\ t.ent[k].seg = NoSeg /\ EntryGood(t.ent[k])
  <2>1. PICK l : l = LeftEntry(s.ent[n])
    OBVIOUS
  <2>2. s.ent[n].siz \in 0 .. Chunk /\ s.ent[n].at \in (0 .. MaxChunks) \X (0 .. Chunk)
    BY <1>1, EntryFields
  <2>3. l = Entry({"FREE"}, s.ent[n].siz, s.ent[n].at, 0)
    BY <2>1 DEF LeftEntry
  <2>4. l.flg = {"FREE"} /\ l.locks = 0 /\ l.seg = NoSeg /\ EntryGood(l)
    BY <2>2, <2>3, FreeEntry
  <2>5. t.ent[k] = l
    BY <1>7, <2>1 DEF MoveOf
  <2> QED BY <2>4, <2>5
<1>16. \A x \in Entries : EntryGood(t.ent[x])
  BY <1>13, <1>14, <1>15 DEF Good
<1>17. HeadersGood(t.ent, t.heap)
  <2> SUFFICES ASSUME NEW y \in Entries
               PROVE  InMemory(t.ent[y]) <=> \E x \in BlocksOf(t.heap) : x.num = y
    BY DEF HeadersGood
  <2>1. InMemory(s.ent[y]) <=> \E x \in BlocksOf(s.heap) : x.num = y
    BY DEF Good, HeadersGood
  <2>2. CASE y = k
    BY <1>11, <1>12, <1>15, <2>2 DEF InMemory
  <2>3. CASE y = n
    <3>1. InMemory(t.ent[n])
      BY <1>14 DEF InMemory, Has
    <3> QED BY <1>11, <1>12, <2>3, <3>1
  <2>4. CASE y # n /\ y # k
    BY <1>11, <1>12, <1>13, <2>1, <2>4
  <2> QED BY <2>2, <2>3, <2>4
<1>18. ListsGood(t.ent, t.free, t.lru)
  <2>1. ListOf(s.ent, s.free, "FREE") /\ ListOf(s.ent, s.lru, "LRU") /\ s.free \in Seq(Entries)
    BY <1>1, StateFields DEF Good, ListsGood
  <2>2. FlagStays(s.ent, t.ent, "FREE", k) /\ FlagStays(s.ent, t.ent, "LRU", k)
    BY <1>13, <1>14 DEF FlagStays
  <2>3. "FREE" \notin s.ent[k].flg /\ "FREE" \in t.ent[k].flg
        /\ "LRU" \notin s.ent[k].flg /\ "LRU" \notin t.ent[k].flg
    BY <1>1, <1>15
  <2>4. ListOf(t.ent, t.free, "FREE")
    <3>1. t.free = <<k>> \o s.free
      BY <1>13
    <3>2. ListOf(s.ent, s.free, "FREE") /\ s.free \in Seq(Entries) /\ k \in Entries
          /\ FlagStays(s.ent, t.ent, "FREE", k)
      BY <1>1, <2>1, <2>2
    <3>3. ListOf(t.ent, <<k>> \o s.free, "FREE")
      BY <2>3, <3>2, ListCons
    <3> QED BY <3>1, <3>3
  <2>5. ListOf(t.ent, t.lru, "LRU")
    BY <1>13, <2>1, <2>2, <2>3, ListSame
  <2> QED BY <2>4, <2>5 DEF ListsGood
<1>19. n \notin s.unused /\ "FREE" \notin s.ent[n].flg
  <2>1. n \notin s.unused
    BY <1>3, PlaceHeader
  <2> QED BY <1>1, <2>1 DEF EntryGood, Has
<1>20. \A x \in t.unused : t.ent[x] = UnusedEntry
  BY <1>1, <1>13, <1>19, StateFields DEF Good
<1>21. SegsGood(t.ent, t.segs)
  <2>1. SegsGood(s.ent, s.segs)
    BY DEF Good
  <2>2. SegsKept(s.ent, t.ent)
    BY <1>13, <1>14, <1>15 DEF SegsKept
  <2> QED BY <1>13, <2>1, <2>2, SegsStay
<1>22. FileSize(t) <= SwapSize
  BY <1>13, FileStays DEF Good
<1>23. t.room >= 0 /\ t.heap # << >> /\ t.room + Len(t.heap) <= MaxChunks
  <2>1. s.room >= 0 /\ s.room + Len(s.heap) <= MaxChunks
    BY DEF Good
  <2>2. t.heap # << >>
    BY <1>3, <1>8
  <2> QED BY <1>8, <1>13, <2>1, <2>2
<1>24. Good(t)
  BY <1>7, <1>8, <1>16, <1>17, <1>18, <1>20, <1>21, <1>22, <1>23, GoodParts
<1>25. ASSUME NEW x, Owned(s, x), x # n, x # k PROVE Kept(s, t, x)
  <2>1. x \in Entries /\ t.ent[x] = s.ent[x]
    BY <1>13, <1>25 DEF Owned
  <2>2. x \notin t.unused /\ SameEntry(s, t, x) /\ BlockStays(s, t, x)
    BY <1>12, <1>13, <1>25, <2>1 DEF Owned, SameEntry, BlockStays
  <2>3. t.segs = s.segs
    BY <1>13
  <2> QED BY <1>7, <1>8, <1>25, <2>2, <2>3, KeptIf
<1>26. Sized(s, t, n)
  <2>1. Owned(t, n) /\ Has(t, n, "PRES")
    BY <1>13, <1>14, <1>19 DEF Owned, Has
  <2>2. a \in BlocksOf(t.heap)
    BY <1>12
  <2>3. DataOf(t, a.num) = a.data
    BY <1>7, <1>8, <2>2, DataFacts
  <2>4. Stored(t, n) = Stored(s, n)
    <3>1. DataOf(t, n) = DataOf(s, n)
      BY <1>11, <2>3
    <3> QED BY <2>1, <3>1 DEF Stored
  <2> QED BY <1>14, <2>1, <2>4 DEF Sized
<1>27. \A x \in Entries : t.ent[x].locks = s.ent[x].locks \/ t.ent[x].locks \in {0, 1}
  BY <1>13, <1>14, <1>15
<1> QED BY <1>24, <1>25, <1>26, <1>27 DEF OthersBut

Resized(s, r, n) ==
  /\ Good(r.m) /\ Others(s, r.m, n) /\ r.ok \in BOOLEAN /\ Sized(s, r.m, n)
  /\ r.m.ent[n].at # s.ent[n].at => s.ent[n].locks = 1

\* Lemma: splitting and annexing keep the other objects, and the locks of this.
LEMMA SizedIf ==
  ASSUME NEW s, Good(s), NEW n \in Entries, Has(s, n, "PRES"), NEW t, Good(t),
         KeepsOthers(s, t, n), KeptSized(s, t, n)
  PROVE  Others(s, t, n) /\ Sized(s, t, n) /\ t.ent[n].at = s.ent[n].at
BY DEF KeepsOthers, KeptSized, Others, Sized, Modest, Has

\* Lemma: making room changes nothing of a locked object.
LEMMA SizedKept ==
  ASSUME NEW s, Good(s), NEW n, Owned(s, n), Has(s, n, "LOCK"), NEW t, Good(t), Keeps(s, t)
  PROVE  Others(s, t, n) /\ Sized(s, t, n) /\ t.ent[n].at = s.ent[n].at /\ Has(t, n, "LOCK")
<1>1. Kept(s, t, n) /\ Others(s, t, n) /\ n \in Entries
  BY KeepsOther DEF Keeps, Owned
<1>2. /\ Owned(t, n) /\ Stored(t, n) = Stored(s, n) /\ t.ent[n].locks = s.ent[n].locks
      /\ t.ent[n].at = s.ent[n].at
  BY <1>1 DEF Kept
<1>3. EntryGood(s.ent[n]) /\ EntryGood(t.ent[n])
  BY <1>1 DEF Good
<1>4. Has(t, n, "LOCK") /\ Has(t, n, "PRES")
  BY <1>2, <1>3 DEF EntryGood, Has
<1> QED BY <1>1, <1>2, <1>4 DEF Sized

\* Lemma: a locked object moves to the block that was allocated for it.
LEMMA MovedGood ==
  ASSUME NEW s, Good(s), NEW n, Owned(s, n), Has(s, n, "LOCK"), s.ent[n].locks = 1,
         NEW g, AloOutcome(s, g), NEW r, r = Moved(n, g)
  PROVE  Resized(s, r, n)
<1>1. Good(g.m) /\ Keeps(s, g.m) /\ n \in Entries
  BY DEF AloOutcome, Owned
<1>2. Others(s, g.m, n) /\ Sized(s, g.m, n) /\ g.m.ent[n].at = s.ent[n].at /\ Has(g.m, n, "LOCK")
  BY <1>1, SizedKept
<1>3. CASE g.n = NoEntry
  <2>1. r = [m |-> g.m, ok |-> FALSE]
    BY <1>3, Zenon DEF Moved
  <2>2. r.m = g.m /\ r.ok = FALSE
    BY <2>1
  <2> QED BY <1>1, <1>2, <2>2 DEF Resized
<1>4. CASE g.n # NoEntry
  <2>1. PICK u : u = g.m
    OBVIOUS
  <2>2. PICK k : k = g.n
    OBVIOUS
  <2>3. Good(u) /\ Keeps(s, u) /\ Fresh(s, u, k) /\ Modest(s, u) /\ Sized(s, u, n)
    BY <1>1, <1>2, <1>4, <2>1, <2>2 DEF AloOutcome, Keeps
  <2>4. Spare(u, k) /\ k # n /\ ~Owned(s, k) /\ Has(u, n, "PRES")
    BY <2>3 DEF Fresh, Spare, Sized
  <2>5. PICK t : t = MoveTo(u, n, k)
    OBVIOUS
  <2>6. Good(t) /\ OthersBut(u, t, n, k) /\ Sized(u, t, n)
    BY <1>1, <2>3, <2>4, <2>5, MoveGood
  <2>7. r = [m |-> t, ok |-> TRUE]
    BY <1>4, <2>1, <2>2, <2>5, Zenon DEF Moved
  <2>8. r.m = t /\ r.ok = TRUE
    BY <2>7
  <2>9. ASSUME NEW j, Owned(s, j), j # n PROVE Kept(s, t, j)
    <3>1. Kept(s, u, j) /\ Owned(u, j) /\ j # k
      BY <2>3, <2>4, <2>9 DEF Keeps, Kept
    <3>2. Kept(u, t, j)
      BY <2>6, <2>9, <3>1 DEF OthersBut
    <3> QED BY <2>3, <2>9, <3>1, <3>2, KeptTwice
  <2>10. Others(s, t, n)
    BY <2>3, <2>6, <2>9 DEF Others, OthersBut, Modest
  <2>11. Sized(s, t, n)
    BY <2>3, <2>6 DEF Sized
  <2> QED BY <2>6, <2>8, <2>10, <2>11 DEF Resized
<1> QED BY <1>3, <1>4

\* Lemma: mcmrealo, once the object is locked.
LEMMA ResizeGood ==
  ASSUME NEW s, Good(s), NEW n, Owned(s, n), Has(s, n, "LOCK"), NEW siz \in Nat, siz > 0,
         NEW r, r = Resize(s, n, siz)
  PROVE  Resized(s, r, n)
<1>1. n \in Entries /\ Has(s, n, "PRES")
  <2>1. n \in Entries /\ EntryGood(s.ent[n])
    BY DEF Owned, Good
  <2> QED BY <2>1 DEF EntryGood, Has
<1>2. CASE siz < s.ent[n].siz
  <2>1. PICK t : t = mcmsplt(s, n, siz)
    OBVIOUS
  <2>2. Good(t) /\ KeepsOthers(s, t, n) /\ KeptSized(s, t, n)
    BY <1>1, <2>1, mcmspltGood
  <2>3. Others(s, t, n) /\ Sized(s, t, n) /\ t.ent[n].at = s.ent[n].at
    BY <1>1, <2>2, SizedIf
  <2>4. r = [m |-> t, ok |-> TRUE]
    BY <1>2, <2>1, Zenon DEF Resize
  <2>5. r.m = t /\ r.ok = TRUE
    BY <2>4
  <2> QED BY <2>2, <2>3, <2>5 DEF Resized
<1>3. PICK k : k = NextFree(s, n)
  OBVIOUS
<1>4. PICK fits : fits = (k # NoEntry /\ s.ent[n].siz + s.ent[k].siz >= siz)
  OBVIOUS
<1>5. CASE ~(siz < s.ent[n].siz) /\ fits
  <2>1. PICK t : t = Annex(s, n, k, siz)
    OBVIOUS
  <2>2. Good(t) /\ KeepsOthers(s, t, n) /\ KeptSized(s, t, n)
    BY <1>1, <1>3, <1>4, <1>5, <2>1, AnnexAllGood
  <2>3. Others(s, t, n) /\ Sized(s, t, n) /\ t.ent[n].at = s.ent[n].at
    BY <1>1, <2>2, SizedIf
  <2>4. r = [m |-> t, ok |-> TRUE]
    BY <1>3, <1>4, <1>5, <2>1, Zenon DEF Resize
  <2>5. r.m = t /\ r.ok = TRUE
    BY <2>4
  <2> QED BY <2>2, <2>3, <2>5 DEF Resized
<1>6. CASE ~(siz < s.ent[n].siz) /\ ~fits /\ s.ent[n].locks # 1
  <2>1. r = [m |-> s, ok |-> FALSE]
    BY <1>3, <1>4, <1>6, Zenon DEF Resize
  <2>2. r.m = s /\ r.ok = FALSE
    BY <2>1
  <2>3. Keeps(s, s)
    BY KeepsSame
  <2>4. Others(s, s, n) /\ Sized(s, s, n) /\ s.ent[n].at = s.ent[n].at
    BY <2>3, SizedKept
  <2> QED BY <2>2, <2>4 DEF Resized
<1>7. CASE ~(siz < s.ent[n].siz) /\ ~fits /\ s.ent[n].locks = 1
  <2>1. PICK g : g = mcmalo0(s, siz)
    OBVIOUS
  <2>2. Good(g.m) /\ Keeps(s, g.m) /\ (g.n # NoEntry => Fresh(s, g.m, g.n))
    BY <2>1, mcmalo0Good
  <2>3. AloOutcome(s, g)
    BY <2>2 DEF AloOutcome
  <2>4. r = Moved(n, g)
    BY <1>3, <1>4, <1>7, <2>1, Zenon DEF Resize
  <2> QED BY <1>7, <2>3, <2>4, MovedGood
<1> QED BY <1>2, <1>4, <1>5, <1>6, <1>7

-----------------------------------------------------------------------------
\* The clients and their objects.

\* The invariant: the clients' objects are different entries, each holding what
\* the game last gave it.
ClientGood(s, n, data) == Owned(s, n) /\ s.ent[n].siz > 0 /\ Stored(s, n) = data
LocksFew(s) == \A n \in Entries : s.ent[n].locks <= MaxLocks
CacheGood(s, g, w) ==
  /\ Good(s) /\ LocksFew(s)
  /\ g \in [Clients -> Entries \union {NoEntry}] /\ w \in [Clients -> Versions]
  /\ \A c \in Clients : g[c] # NoEntry => ClientGood(s, g[c], w[c])
  /\ \A c, d \in Clients : g[c] # NoEntry /\ g[c] = g[d] => c = d
CacheInv == CacheGood(m, c2g, content)

\* What an operation on the object of client c leaves alone.
ClientsKept(s, t, g, c) == \A d \in Clients : d # c /\ g[d] # NoEntry => Kept(s, t, g[d])

\* Lemma: NoEntry is no entry.
LEMMA NoEntryApart == NoEntry \notin Entries
BY DEF NoEntry, Entries

\* Lemma: a client's entry.
LEMMA ClientFacts ==
  ASSUME NEW s, NEW g, NEW w, CacheGood(s, g, w), NEW c \in Clients, g[c] # NoEntry
  PROVE  /\ Good(s) /\ g[c] \in Entries /\ Owned(s, g[c]) /\ s.ent[g[c]].siz > 0
         /\ Stored(s, g[c]) = w[c] /\ w[c] \in Versions /\ Stored(s, g[c]) \in Versions
         /\ s.ent[g[c]].locks <= MaxLocks /\ s.ent[g[c]].locks \in Nat
<1>1. Good(s) /\ LocksFew(s) /\ g[c] \in Entries /\ w[c] \in Versions /\ ClientGood(s, g[c], w[c])
  BY DEF CacheGood
<1>2. s \in StateType
  BY <1>1 DEF Good
<1>3. s.ent[g[c]].locks \in Nat
  BY <1>1, <1>2, EntryFields
<1> QED BY <1>1, <1>3 DEF ClientGood, LocksFew

\* Lemma: what is kept serves its client as before.
LEMMA KeptClient ==
  ASSUME NEW s, NEW t, NEW n, NEW data, ClientGood(s, n, data), Kept(s, t, n)
  PROVE  ClientGood(t, n, data)
BY DEF ClientGood, Kept

\* Lemma: the locks of other entries stay few.
LEMMA LocksStayFew ==
  ASSUME NEW s, NEW t, LocksFew(s), NEW n, Others(s, t, n), n \in Entries => t.ent[n].locks <= MaxLocks
  PROVE  LocksFew(t)
<1>1. MaxLocks \in Nat /\ MaxLocks > 0
  BY ConstFacts
<1>2. \A j \in Entries : j # n => t.ent[j].locks = s.ent[j].locks \/ t.ent[j].locks \in {0, 1}
  BY DEF Others
<1>3. ASSUME NEW j \in Entries PROVE t.ent[j].locks <= MaxLocks
  <2>1. CASE j = n
    BY <2>1
  <2>2. CASE j # n /\ t.ent[j].locks = s.ent[j].locks
    BY <2>2 DEF LocksFew
  <2>3. CASE j # n /\ t.ent[j].locks \in {0, 1}
    <3>1. \A x \in {0, 1} : x <= MaxLocks
      BY <1>1
    <3> QED BY <2>3, <3>1
  <2> QED BY <1>2, <2>1, <2>2, <2>3
<1> QED BY <1>3 DEF LocksFew

\* Lemma: an operation that keeps all objects.
LEMMA AllServed ==
  ASSUME NEW s, NEW g, NEW w, CacheGood(s, g, w), NEW t, Good(t), Keeps(s, t)
  PROVE  CacheGood(t, g, w) /\ \A c : ClientsKept(s, t, g, c)
<1>1. /\ Good(s) /\ LocksFew(s)
      /\ g \in [Clients -> Entries \union {NoEntry}] /\ w \in [Clients -> Versions]
      /\ \A c \in Clients : g[c] # NoEntry => ClientGood(s, g[c], w[c])
      /\ \A c, d \in Clients : g[c] # NoEntry /\ g[c] = g[d] => c = d
  BY DEF CacheGood
<1>2. ASSUME NEW c \in Clients, g[c] # NoEntry PROVE Kept(s, t, g[c]) /\ ClientGood(t, g[c], w[c])
  <2>1. ClientGood(s, g[c], w[c])
    BY <1>1, <1>2
  <2>2. Kept(s, t, g[c])
    BY <2>1 DEF ClientGood, Keeps
  <2> QED BY <2>1, <2>2, KeptClient
<1>3. LocksFew(t)
  <2>1. Others(s, t, NoEntry)
    BY KeepsOther
  <2> QED BY <1>1, <2>1, LocksStayFew, NoEntryApart
<1>4. CacheGood(t, g, w)
  BY <1>1, <1>2, <1>3 DEF CacheGood
<1> QED BY <1>2, <1>4 DEF ClientsKept

\* Lemma: an operation on the object of one client.
LEMMA OneServed ==
  ASSUME NEW s, NEW g, NEW w, CacheGood(s, g, w), NEW c \in Clients, g[c] # NoEntry,
         NEW t, Good(t), Others(s, t, g[c]), NEW data \in Versions, ClientGood(t, g[c], data),
         t.ent[g[c]].locks <= MaxLocks
  PROVE  CacheGood(t, g, [w EXCEPT ![c] = data]) /\ ClientsKept(s, t, g, c)
<1>1. /\ Good(s) /\ LocksFew(s)
      /\ g \in [Clients -> Entries \union {NoEntry}] /\ w \in [Clients -> Versions]
      /\ \A d \in Clients : g[d] # NoEntry => ClientGood(s, g[d], w[d])
      /\ \A d, e \in Clients : g[d] # NoEntry /\ g[d] = g[e] => d = e
  BY DEF CacheGood
<1>2. PICK x : x = [w EXCEPT ![c] = data]
  OBVIOUS
<1>3. x \in [Clients -> Versions] /\ x[c] = data /\ \A d \in Clients : d # c => x[d] = w[d]
  BY <1>1, <1>2
<1>4. ASSUME NEW d \in Clients, d # c, g[d] # NoEntry
      PROVE  Kept(s, t, g[d]) /\ ClientGood(t, g[d], x[d])
  <2>1. ClientGood(s, g[d], w[d]) /\ g[d] # g[c]
    BY <1>1, <1>4
  <2>2. Kept(s, t, g[d])
    BY <2>1 DEF ClientGood, Others
  <2>3. ClientGood(t, g[d], w[d])
    BY <2>1, <2>2, KeptClient
  <2> QED BY <1>3, <1>4, <2>2, <2>3
<1>5. \A d \in Clients : g[d] # NoEntry => ClientGood(t, g[d], x[d])
  BY <1>3, <1>4
<1>6. LocksFew(t)
  BY <1>1, LocksStayFew
<1>7. CacheGood(t, g, x)
  BY <1>1, <1>3, <1>5, <1>6 DEF CacheGood
<1> QED BY <1>2, <1>4, <1>7 DEF ClientsKept

\* Lemma: and one that leaves the object as it was.
LEMMA SameServed ==
  ASSUME NEW s, NEW g, NEW w, CacheGood(s, g, w), NEW c \in Clients, g[c] # NoEntry,
         NEW t, Good(t), Others(s, t, g[c]), ClientGood(t, g[c], w[c]),
         t.ent[g[c]].locks <= MaxLocks
  PROVE  CacheGood(t, g, w) /\ ClientsKept(s, t, g, c)
<1>1. w \in [Clients -> Versions]
  BY DEF CacheGood
<1>2. PICK data \in Versions : data = w[c]
  BY <1>1
<1>3. [w EXCEPT ![c] = data] = w
  BY <1>1, <1>2
<1>4. ClientGood(t, g[c], data)
  BY <1>2
<1>5. CacheGood(t, g, [w EXCEPT ![c] = data]) /\ ClientsKept(s, t, g, c)
  BY <1>4, OneServed
<1> QED BY <1>3, <1>5

\* Lemma: when the game may take another lock, no object has all of them.
LEMMA LocksLeft ==
  ASSUME CacheInv, Locks < MaxLocks, NEW n \in Entries
  PROVE  m.ent[n].locks < MaxLocks
<1>1. Good(m) /\ LocksFew(m) /\ m \in StateType
  BY DEF CacheInv, CacheGood, Good
<1>2. PICK all : all = UNION {{k} \X (1 .. m.ent[k].locks) : k \in Entries}
  OBVIOUS
<1>3. \A k \in Entries : m.ent[k].locks \in Nat /\ m.ent[k].locks <= MaxLocks
  BY <1>1, EntryFields DEF LocksFew
<1>4. IsFiniteSet(all) /\ Cardinality(all) \in Nat
  <2>1. IsFiniteSet(Entries) /\ IsFiniteSet(1 .. MaxLocks)
    BY ConstFacts, FS_Interval DEF Entries
  <2>2. IsFiniteSet(Entries \X (1 .. MaxLocks))
    BY <2>1, FS_Product
  <2>3. all \subseteq Entries \X (1 .. MaxLocks)
    <3>1. ASSUME NEW k \in Entries PROVE {k} \X (1 .. m.ent[k].locks) \subseteq Entries \X (1 .. MaxLocks)
      <4>1. 1 .. m.ent[k].locks \subseteq 1 .. MaxLocks
        BY <1>3, ConstFacts
      <4> QED BY <4>1
    <3> QED BY <1>2, <3>1
  <2> QED BY <2>2, <2>3, FS_Subset, FS_CardinalityType
<1>5. PICK mine : mine = {n} \X (1 .. m.ent[n].locks)
  OBVIOUS
<1>6. IsFiniteSet(mine) /\ Cardinality(mine) = m.ent[n].locks
  <2>1. PICK l \in Nat : l = m.ent[n].locks
    BY <1>3
  <2>2. IsFiniteSet(1 .. l) /\ Cardinality(1 .. l) = l
    BY FS_Interval
  <2>3. IsFiniteSet({n}) /\ Cardinality({n}) = 1
    BY FS_Singleton
  <2>4. Cardinality({n} \X (1 .. l)) = 1 * l /\ IsFiniteSet({n} \X (1 .. l))
    BY <2>2, <2>3, FS_Product, ZenonT(40)
  <2>5. mine = {n} \X (1 .. l)
    BY <1>5, <2>1
  <2>6. 1 * l = l
    OBVIOUS
  <2> QED BY <2>1, <2>4, <2>5, <2>6
<1>7. mine \subseteq all
  BY <1>2, <1>5
<1>8. Cardinality(mine) <= Cardinality(all)
  BY <1>4, <1>7, FS_Subset
<1>9. Locks = Cardinality(all)
  BY <1>2, Zenon DEF Locks
<1> QED BY <1>3, <1>4, <1>6, <1>8, <1>9, ConstFacts

-----------------------------------------------------------------------------
\* The actions.

\* What a step on the object of client c does.
Fixed(s, t, n) == Has(s, n, "LOCK") => t.ent[n].at = s.ent[n].at
ServedAt(s, t, g, h, w, x, c) == CacheGood(t, h, x) /\ ClientsKept(s, t, g, c)
Served(c) == ServedAt(m, m', c2g, c2g', content, content', c)

\* Lemma: what is claimed or kept still has the data of its client.
LEMMA SameClient ==
  ASSUME NEW s, NEW g, NEW w, CacheGood(s, g, w), NEW c \in Clients, g[c] # NoEntry,
         NEW t, Good(t), Others(s, t, g[c]), Owned(t, g[c]), Has(t, g[c], "PRES"),
         Stored(t, g[c]) = Stored(s, g[c]), t.ent[g[c]].locks <= MaxLocks
  PROVE  CacheGood(t, g, w) /\ ClientsKept(s, t, g, c)
<1>1. g[c] \in Entries /\ Stored(s, g[c]) = w[c]
  BY ClientFacts
<1>2. t.ent[g[c]].siz > 0
  BY <1>1, PresentSize
<1>3. ClientGood(t, g[c], w[c])
  BY <1>1, <1>2 DEF ClientGood
<1> QED BY <1>3, SameServed

\* Lemma: locking the object of client c, which has not all the locks yet.
LEMMA LockServes ==
  ASSUME NEW s, NEW g, NEW w, CacheGood(s, g, w), NEW c \in Clients, g[c] # NoEntry,
         s.ent[g[c]].locks < MaxLocks, NEW r, r = mcmlck(s, g[c])
  PROVE  /\ CacheGood(r.m, g, w) /\ ClientsKept(s, r.m, g, c) /\ Fixed(s, r.m, g[c])
         /\ LockOutcome(s, r, g[c])
<1>1. /\ Good(s) /\ g[c] \in Entries /\ Owned(s, g[c]) /\ s.ent[g[c]].siz > 0
      /\ Stored(s, g[c]) \in Versions /\ s.ent[g[c]].locks \in Nat
  BY ClientFacts
<1>2. LockOutcome(s, r, g[c])
  BY <1>1, mcmlckGood
<1>3. EntryGood(s.ent[g[c]])
  BY <1>1 DEF Good
<1>4. CASE r.ok
  <2>1. /\ Good(r.m) /\ Others(s, r.m, g[c]) /\ Claimed(s, r.m, g[c])
    BY <1>2, <1>4 DEF LockOutcome
  <2>2. /\ Owned(r.m, g[c]) /\ Has(r.m, g[c], "PRES") /\ Stored(r.m, g[c]) = Stored(s, g[c])
        /\ r.m.ent[g[c]].locks = s.ent[g[c]].locks + 1
        /\ Has(s, g[c], "PRES") => r.m.ent[g[c]].at = s.ent[g[c]].at
    BY <2>1 DEF Claimed
  <2>3. \A x, y, z \in Int : x < z /\ y = x + 1 => y <= z
    OBVIOUS
  <2>4. r.m.ent[g[c]].locks <= MaxLocks
    BY <1>1, <2>2, ConstFacts
  <2>5. CacheGood(r.m, g, w) /\ ClientsKept(s, r.m, g, c)
    BY <2>1, <2>2, <2>4, SameClient
  <2>6. Fixed(s, r.m, g[c])
    BY <1>3, <2>2 DEF EntryGood, Fixed, Has
  <2> QED BY <1>2, <2>5, <2>6
<1>5. CASE ~r.ok
  <2>1. Good(r.m) /\ Keeps(s, r.m)
    BY <1>2, <1>5 DEF LockOutcome
  <2>2. CacheGood(r.m, g, w) /\ ClientsKept(s, r.m, g, c)
    BY <2>1, AllServed
  <2>3. Kept(s, r.m, g[c])
    BY <1>1, <2>1 DEF Keeps
  <2> QED BY <1>2, <2>2, <2>3 DEF Kept, Fixed
<1> QED BY <1>4, <1>5

\* Lemma: unlocking it.
LEMMA UnlockServes ==
  ASSUME NEW s, NEW g, NEW w, CacheGood(s, g, w), NEW c \in Clients, g[c] # NoEntry,
         Has(s, g[c], "LOCK"), NEW t, t = mcmunlck(s, g[c])
  PROVE  CacheGood(t, g, w) /\ ClientsKept(s, t, g, c) /\ Fixed(s, t, g[c])
<1>1. Good(s) /\ g[c] \in Entries /\ s.ent[g[c]].locks \in Nat /\ s.ent[g[c]].locks <= MaxLocks
  BY ClientFacts
<1>2. /\ Good(t) /\ Others(s, t, g[c]) /\ StaysIn(s, t, g[c]) /\ t.ent[g[c]].locks = s.ent[g[c]].locks - 1
  BY <1>1, mcmunlckGood
<1>3. \A x, y, z \in Int : x <= z /\ y = x - 1 => y <= z
  OBVIOUS
<1>4. t.ent[g[c]].locks <= MaxLocks
  BY <1>1, <1>2, ConstFacts
<1>5. /\ Owned(t, g[c]) /\ Has(t, g[c], "PRES") /\ Stored(t, g[c]) = Stored(s, g[c])
      /\ t.ent[g[c]].at = s.ent[g[c]].at
  BY <1>2 DEF StaysIn
<1>6. CacheGood(t, g, w) /\ ClientsKept(s, t, g, c)
  BY <1>2, <1>4, <1>5, SameClient
<1> QED BY <1>5, <1>6 DEF Fixed

\* Lemma: a locked object is in memory.
LEMMA LockedPresent ==
  ASSUME NEW s, Good(s), NEW n \in Entries, Has(s, n, "LOCK")
  PROVE  Has(s, n, "PRES")
<1>1. EntryGood(s.ent[n])
  BY DEF Good
<1> QED BY <1>1 DEF EntryGood, Has

\* Lemma: the action Lock.
LEMMA LockStep ==
  ASSUME CacheInv, NEW c \in Clients, Lock(c)
  PROVE  /\ Served(c) /\ c2g' = c2g /\ Fixed(m, m', c2g[c])
<1>1. CacheGood(m, c2g, content) /\ c2g[c] # NoEntry /\ Locks < MaxLocks /\ c2g' = c2g /\ content' = content
  BY DEF CacheInv, Lock
<1>2. PICK r : r = mcmlck(m, c2g[c])
  OBVIOUS
<1>3. m' = r.m
  BY <1>2 DEF Lock
<1>4. c2g[c] \in Entries
  BY <1>1, ClientFacts
<1>5. m.ent[c2g[c]].locks < MaxLocks
  BY <1>1, <1>4, LocksLeft
<1>6. CacheGood(r.m, c2g, content) /\ ClientsKept(m, r.m, c2g, c) /\ Fixed(m, r.m, c2g[c])
  BY <1>1, <1>2, <1>5, LockServes
<1> QED BY <1>1, <1>3, <1>6 DEF Served, ServedAt

\* Lemma: the action Unlock.
LEMMA UnlockStep ==
  ASSUME CacheInv, NEW c \in Clients, Unlock(c)
  PROVE  /\ Served(c) /\ c2g' = c2g /\ Fixed(m, m', c2g[c])
<1>1. /\ CacheGood(m, c2g, content) /\ c2g[c] # NoEntry /\ Has(m, c2g[c], "LOCK")
      /\ c2g' = c2g /\ content' = content /\ m' = mcmunlck(m, c2g[c])
  BY DEF CacheInv, Unlock, Locked
<1>2. PICK t : t = mcmunlck(m, c2g[c])
  OBVIOUS
<1>3. CacheGood(t, c2g, content) /\ ClientsKept(m, t, c2g, c) /\ Fixed(m, t, c2g[c])
  BY <1>1, <1>2, UnlockServes
<1>4. m' = t
  BY <1>1, <1>2
<1> QED BY <1>1, <1>3, <1>4 DEF Served, ServedAt

\* Lemma: the action Write.
LEMMA WriteStep ==
  ASSUME CacheInv, NEW c \in Clients, Write(c)
  PROVE  /\ Served(c) /\ c2g' = c2g /\ Fixed(m, m', c2g[c])
<1>1. PICK data : data = 1 - content[c]
  OBVIOUS
<1>2. /\ CacheGood(m, c2g, content) /\ c2g[c] # NoEntry /\ Has(m, c2g[c], "LOCK")
      /\ c2g' = c2g /\ content' = [content EXCEPT ![c] = data] /\ m' = SetData(m, c2g[c], data)
  BY <1>1 DEF CacheInv, Write, Locked
<1>3. /\ Good(m) /\ c2g[c] \in Entries /\ content[c] \in Versions
      /\ m.ent[c2g[c]].locks <= MaxLocks /\ m.ent[c2g[c]].siz > 0
  BY <1>2, ClientFacts
<1>4. data \in Versions
  <2>1. content[c] = 0 \/ content[c] = 1
    BY <1>3 DEF Versions
  <2>2. data = 0 \/ data = 1
    BY <1>1, <2>1
  <2> QED BY <2>2 DEF Versions
<1>5. Has(m, c2g[c], "PRES")
  BY <1>2, <1>3, LockedPresent
<1>6. PICK t : t = SetData(m, c2g[c], data)
  OBVIOUS
<1>7. Good(t) /\ Others(m, t, c2g[c]) /\ Owned(t, c2g[c]) /\ Stored(t, c2g[c]) = data /\ t.ent = m.ent
  BY <1>3, <1>4, <1>5, <1>6, SetDataGood
<1>8. ClientGood(t, c2g[c], data) /\ t.ent[c2g[c]].locks <= MaxLocks /\ Fixed(m, t, c2g[c])
  BY <1>3, <1>7 DEF ClientGood, Fixed
<1>9. CacheGood(t, c2g, [content EXCEPT ![c] = data]) /\ ClientsKept(m, t, c2g, c)
  BY <1>2, <1>4, <1>7, <1>8, OneServed
<1>10. m' = t
  BY <1>2, <1>6
<1> QED BY <1>2, <1>8, <1>9, <1>10 DEF Served, ServedAt

\* Lemma: one operation after another leaves the other clients' objects alone.
LEMMA ClientsKeptTwice ==
  ASSUME NEW s, NEW g, NEW w, CacheGood(s, g, w), NEW t, Good(t), NEW u, NEW c \in Clients,
         ClientsKept(s, t, g, c), ClientsKept(t, u, g, c)
  PROVE  ClientsKept(s, u, g, c)
<1>1. ASSUME NEW d \in Clients, d # c, g[d] # NoEntry PROVE Kept(s, u, g[d])
  <2>1. Good(s) /\ Owned(s, g[d])
    BY <1>1, ClientFacts
  <2>2. Kept(s, t, g[d]) /\ Kept(t, u, g[d])
    BY <1>1 DEF ClientsKept
  <2> QED BY <2>1, <2>2, KeptTwice
<1> QED BY <1>1 DEF ClientsKept

\* Lemma: the object of client c, locked, is given another size.
LEMMA ResizeServes ==
  ASSUME NEW s, NEW g, NEW w, CacheGood(s, g, w), NEW c \in Clients, g[c] # NoEntry,
         Has(s, g[c], "LOCK"), NEW siz \in Sizes, NEW r, r = Resize(s, g[c], siz)
  PROVE  /\ CacheGood(r.m, g, w) /\ ClientsKept(s, r.m, g, c) /\ Has(r.m, g[c], "LOCK")
         /\ r.m.ent[g[c]].at # s.ent[g[c]].at => s.ent[g[c]].locks = 1
<1>1. /\ Good(s) /\ g[c] \in Entries /\ Owned(s, g[c])
      /\ s.ent[g[c]].locks <= MaxLocks
  BY ClientFacts
<1>2. siz \in Nat /\ siz > 0
  BY ConstFacts
<1>3. Resized(s, r, g[c])
  BY <1>1, <1>2, ResizeGood
<1>4. /\ Good(r.m) /\ Others(s, r.m, g[c]) /\ Owned(r.m, g[c]) /\ Has(r.m, g[c], "PRES")
      /\ Stored(r.m, g[c]) = Stored(s, g[c]) /\ r.m.ent[g[c]].locks = s.ent[g[c]].locks
      /\ r.m.ent[g[c]].at # s.ent[g[c]].at => s.ent[g[c]].locks = 1
  BY <1>3 DEF Resized, Sized
<1>5. CacheGood(r.m, g, w) /\ ClientsKept(s, r.m, g, c)
  <2>1. r.m.ent[g[c]].locks <= MaxLocks
    BY <1>1, <1>4
  <2> QED BY <1>4, <2>1, SameClient
<1>6. Has(r.m, g[c], "LOCK")
  <2>1. EntryGood(s.ent[g[c]]) /\ EntryGood(r.m.ent[g[c]])
    BY <1>1, <1>4 DEF Good
  <2>2. s.ent[g[c]].locks > 0
    BY <2>1 DEF EntryGood, Has
  <2>3. r.m.ent[g[c]].locks > 0
    BY <1>4, <2>2
  <2> QED BY <2>1, <2>3 DEF EntryGood, Has
<1> QED BY <1>4, <1>5, <1>6

\* Lemma: and unlocked again, if mcmrealo locked it itself and failed.
EndOfRealloc(local, r, n) == IF r.ok \/ ~local THEN r.m ELSE mcmunlck(r.m, n)

\* Lemma: with the lock held all along.
LEMMA ReallocLocked ==
  ASSUME NEW s, NEW g, NEW w, CacheGood(s, g, w), NEW c \in Clients, g[c] # NoEntry,
         Has(s, g[c], "LOCK"), NEW siz \in Sizes, NEW local \in BOOLEAN,
         NEW t, t = EndOfRealloc(local, Resize(s, g[c], siz), g[c])
  PROVE  /\ CacheGood(t, g, w) /\ ClientsKept(s, t, g, c)
         /\ ~local /\ t.ent[g[c]].at # s.ent[g[c]].at => s.ent[g[c]].locks = 1
<1>1. PICK r : r = Resize(s, g[c], siz)
  OBVIOUS
<1>2. /\ CacheGood(r.m, g, w) /\ ClientsKept(s, r.m, g, c) /\ Has(r.m, g[c], "LOCK")
      /\ r.m.ent[g[c]].at # s.ent[g[c]].at => s.ent[g[c]].locks = 1
  BY <1>1, ResizeServes
<1>3. t = EndOfRealloc(local, r, g[c])
  BY <1>1
<1>4. CASE r.ok \/ ~local
  <2>1. t = r.m
    BY <1>3, <1>4 DEF EndOfRealloc
  <2> QED BY <1>2, <2>1
<1>5. CASE ~(r.ok \/ ~local)
  <2>1. t = mcmunlck(r.m, g[c]) /\ local
    BY <1>3, <1>5 DEF EndOfRealloc
  <2>2. CacheGood(t, g, w) /\ ClientsKept(r.m, t, g, c)
    BY <1>2, <2>1, UnlockServes
  <2>3. Good(r.m)
    BY <1>2 DEF CacheGood
  <2>4. ClientsKept(s, t, g, c)
    BY <1>2, <2>2, <2>3, ClientsKeptTwice
  <2> QED BY <2>1, <2>2, <2>4
<1> QED BY <1>4, <1>5

\* Lemma: the action Realloc.
LEMMA ReallocStep ==
  ASSUME CacheInv, NEW c \in Clients, NEW siz \in Sizes, Realloc(c, siz)
  PROVE  /\ Served(c) /\ c2g' = c2g
         /\ Has(m, c2g[c], "LOCK") /\ m'.ent[c2g[c]].at # m.ent[c2g[c]].at => m.ent[c2g[c]].locks = 1
<1>1. CacheGood(m, c2g, content) /\ c2g[c] # NoEntry /\ c2g' = c2g /\ content' = content
  BY DEF CacheInv, Realloc
<1>2. PICK local \in BOOLEAN : local = ~Has(m, c2g[c], "LOCK")
  OBVIOUS
<1>3. PICK l : l = IF local THEN mcmlck(m, c2g[c]) ELSE [m |-> m, ok |-> TRUE]
  OBVIOUS
<1>4. m' = IF l.ok THEN EndOfRealloc(local, Resize(l.m, c2g[c], siz), c2g[c]) ELSE l.m
  BY <1>2, <1>3, Zenon DEF Realloc, EndOfRealloc
<1>5. /\ CacheGood(l.m, c2g, content) /\ ClientsKept(m, l.m, c2g, c)
      /\ l.ok => Has(l.m, c2g[c], "LOCK")
      /\ ~local => l.m = m /\ l.ok
  <2>1. CASE local
    <3>1. Locks < MaxLocks
      BY <1>2, <2>1 DEF Realloc
    <3>2. c2g[c] \in Entries
      BY <1>1, ClientFacts
    <3>3. m.ent[c2g[c]].locks < MaxLocks
      BY <3>1, <3>2, LocksLeft
    <3>4. l = mcmlck(m, c2g[c])
      BY <1>3, <2>1
    <3>5. CacheGood(l.m, c2g, content) /\ ClientsKept(m, l.m, c2g, c) /\ LockOutcome(m, l, c2g[c])
      BY <1>1, <3>3, <3>4, LockServes
    <3> QED BY <2>1, <3>5 DEF LockOutcome, Claimed
  <2>2. CASE ~local
    <3>1. l.m = m /\ l.ok /\ Has(m, c2g[c], "LOCK")
      BY <1>2, <1>3, <2>2
    <3>2. Good(m) /\ Keeps(m, m)
      BY <1>1, KeepsSame DEF CacheGood
    <3>3. ClientsKept(m, m, c2g, c)
      BY <1>1, <3>2, AllServed
    <3> QED BY <1>1, <3>1, <3>3
  <2> QED BY <2>1, <2>2
<1>6. CASE l.ok
  <2>1. PICK t : t = EndOfRealloc(local, Resize(l.m, c2g[c], siz), c2g[c])
    OBVIOUS
  <2>2. /\ CacheGood(t, c2g, content) /\ ClientsKept(l.m, t, c2g, c)
        /\ ~local /\ t.ent[c2g[c]].at # l.m.ent[c2g[c]].at => l.m.ent[c2g[c]].locks = 1
    BY <1>1, <1>5, <1>6, <2>1, ReallocLocked
  <2>3. Good(l.m)
    BY <1>5 DEF CacheGood
  <2>4. ClientsKept(m, t, c2g, c)
    BY <1>1, <1>5, <2>2, <2>3, ClientsKeptTwice
  <2>5. m' = t
    BY <1>4, <1>6, <2>1
  <2> QED BY <1>1, <1>2, <1>5, <2>2, <2>4, <2>5 DEF Served, ServedAt
<1>7. CASE ~l.ok
  <2>1. m' = l.m /\ local
    BY <1>4, <1>5, <1>7
  <2> QED BY <1>1, <1>2, <1>5, <2>1 DEF Served, ServedAt
<1> QED BY <1>6, <1>7

\* Lemma: the action Revert.
LEMMA RevertStep ==
  ASSUME CacheInv, NEW c \in Clients, c2g[c] # NoEntry, Revert(c)
  PROVE  /\ Served(c) /\ c2g' = c2g /\ Fixed(m, m', c2g[c])
<1>1. /\ CacheGood(m, c2g, content) /\ c2g' = c2g /\ content' = [content EXCEPT ![c] = 0]
  BY DEF CacheInv, Revert
<1>2. /\ Good(m) /\ c2g[c] \in Entries /\ Owned(m, c2g[c]) /\ 0 \in Versions
      /\ m.ent[c2g[c]].locks <= MaxLocks /\ m.ent[c2g[c]].siz > 0
  BY <1>1, ClientFacts DEF Versions
<1>3. EntryGood(m.ent[c2g[c]])
  BY <1>2 DEF Good
<1>4. CASE Has(m, c2g[c], "PRES")
  <2>1. PICK t : t = SetData(m, c2g[c], 0)
    OBVIOUS
  <2>2. Good(t) /\ Others(m, t, c2g[c]) /\ Owned(t, c2g[c]) /\ Stored(t, c2g[c]) = 0 /\ t.ent = m.ent
    BY <1>2, <1>4, <2>1, SetDataGood
  <2>3. ClientGood(t, c2g[c], 0) /\ t.ent[c2g[c]].locks <= MaxLocks /\ Fixed(m, t, c2g[c])
    BY <1>2, <2>2 DEF ClientGood, Fixed
  <2>4. PICK x : x = [content EXCEPT ![c] = 0]
    OBVIOUS
  <2>5. CacheGood(t, c2g, [content EXCEPT ![c] = 0]) /\ ClientsKept(m, t, c2g, c)
    BY <1>1, <1>2, <2>2, <2>3, OneServed
  <2>6. CacheGood(t, c2g, x)
    BY <2>4, <2>5
  <2>7. CASE m.ent[c2g[c]].locks # 0
    <3>1. m' = t
      BY <1>4, <2>1, <2>7 DEF Revert
    <3> QED BY <1>1, <2>3, <2>5, <3>1 DEF Served, ServedAt
  <2>8. CASE m.ent[c2g[c]].locks = 0
    <3>1. PICK u : u = mcmuse(t, c2g[c])
      OBVIOUS
    <3>2. m' = u
      BY <1>4, <2>1, <2>8, <3>1 DEF Revert
    <3>3. Has(t, c2g[c], "PRES")
      BY <1>4, <2>2 DEF Has
    <3>4. /\ Good(u) /\ Others(t, u, c2g[c]) /\ StaysIn(t, u, c2g[c])
          /\ u.ent[c2g[c]].locks = t.ent[c2g[c]].locks
      BY <1>2, <2>2, <3>1, <3>3, mcmuseGood
    <3>5. /\ Owned(u, c2g[c]) /\ Has(u, c2g[c], "PRES") /\ Stored(u, c2g[c]) = Stored(t, c2g[c])
          /\ u.ent[c2g[c]].at = t.ent[c2g[c]].at
      BY <3>4 DEF StaysIn
    <3>6. u.ent[c2g[c]].locks <= MaxLocks
      BY <2>3, <3>4
    <3>7. CacheGood(u, c2g, x) /\ ClientsKept(t, u, c2g, c)
      BY <2>6, <3>4, <3>5, <3>6, SameClient
    <3>8. ClientsKept(m, u, c2g, c)
      BY <1>1, <2>2, <2>5, <3>7, ClientsKeptTwice
    <3>9. Fixed(m, u, c2g[c])
      BY <2>3, <3>5 DEF Fixed
    <3> QED BY <1>1, <2>4, <3>2, <3>7, <3>8, <3>9 DEF Served, ServedAt
  <2> QED BY <2>7, <2>8
<1>5. CASE ~Has(m, c2g[c], "PRES")
  <2>1. PICK t : t = RevertLater(m, c2g[c])
    OBVIOUS
  <2>2. m' = t
    BY <1>5, <2>1, Zenon DEF Revert, RevertLater
  <2>3. /\ Good(t) /\ Others(m, t, c2g[c]) /\ Owned(t, c2g[c]) /\ Stored(t, c2g[c]) = 0
        /\ t.ent[c2g[c]].locks = m.ent[c2g[c]].locks /\ t.ent[c2g[c]].siz = m.ent[c2g[c]].siz
    BY <1>2, <1>5, <2>1, RevertLaterGood
  <2>4. ClientGood(t, c2g[c], 0) /\ t.ent[c2g[c]].locks <= MaxLocks
    <3>1. t.ent[c2g[c]].siz > 0 /\ t.ent[c2g[c]].locks <= MaxLocks
      BY <1>2, <2>3
    <3> QED BY <2>3, <3>1 DEF ClientGood
  <2>5. CacheGood(t, c2g, [content EXCEPT ![c] = 0]) /\ ClientsKept(m, t, c2g, c)
    BY <1>1, <1>2, <2>3, <2>4, OneServed
  <2>6. Fixed(m, t, c2g[c])
    BY <1>3, <1>5 DEF Fixed, EntryGood, Has
  <2> QED BY <1>1, <2>2, <2>5, <2>6 DEF Served, ServedAt
<1> QED BY <1>4, <1>5

\* Only client c is given another entry, one that no other client has.
Regiven(g, h, w, x, c) ==
  /\ h \in [Clients -> Entries \union {NoEntry}] /\ x \in [Clients -> Versions]
  /\ \A d \in Clients : d # c => h[d] = g[d] /\ x[d] = w[d] /\ (h[c] # NoEntry => h[c] # g[d])

\* Lemma: one client gets or loses its object.
LEMMA RegivenServed ==
  ASSUME NEW s, NEW g, NEW w, CacheGood(s, g, w), NEW t, Good(t), LocksFew(t), NEW c \in Clients,
         ClientsKept(s, t, g, c), NEW h, NEW x, Regiven(g, h, w, x, c),
         h[c] # NoEntry => ClientGood(t, h[c], x[c])
  PROVE  CacheGood(t, h, x)
<1>1. /\ \A d \in Clients : g[d] # NoEntry => ClientGood(s, g[d], w[d])
      /\ \A d, e \in Clients : g[d] # NoEntry /\ g[d] = g[e] => d = e
  BY DEF CacheGood
<1>2. /\ h \in [Clients -> Entries \union {NoEntry}] /\ x \in [Clients -> Versions]
      /\ \A d \in Clients : d # c => h[d] = g[d] /\ x[d] = w[d] /\ (h[c] # NoEntry => h[c] # g[d])
  BY DEF Regiven
<1>3. ASSUME NEW d \in Clients, h[d] # NoEntry PROVE ClientGood(t, h[d], x[d])
  <2>1. CASE d = c
    BY <1>3, <2>1
  <2>2. CASE d # c
    <3>1. h[d] = g[d] /\ x[d] = w[d] /\ g[d] # NoEntry
      BY <1>2, <1>3, <2>2
    <3>2. ClientGood(s, g[d], w[d]) /\ Kept(s, t, g[d])
      BY <1>1, <2>2, <3>1 DEF ClientsKept
    <3>3. ClientGood(t, g[d], w[d])
      BY <3>2, KeptClient
    <3> QED BY <3>1, <3>3
  <2> QED BY <2>1, <2>2
<1>4. ASSUME NEW d \in Clients, NEW e \in Clients, h[d] # NoEntry, h[d] = h[e] PROVE d = e
  BY <1>1, <1>2, <1>4
<1> QED BY <1>2, <1>3, <1>4 DEF CacheGood

\* Lemma: the action Free, on an object in memory.
LEMMA FreeStep ==
  ASSUME ~FreeAbsent, CacheInv, NEW c \in Clients, Free(c)
  PROVE  Served(c) /\ c2g'[c] = NoEntry /\ \A d \in Clients : d # c => c2g'[d] = c2g[d]
<1>1. PICK h, x : h = [c2g EXCEPT ![c] = NoEntry] /\ x = [content EXCEPT ![c] = 0]
  OBVIOUS
<1>2. PICK t : t = mcmgfre(m, c2g[c])
  OBVIOUS
<1>3. /\ CacheGood(m, c2g, content) /\ c2g[c] # NoEntry /\ m.ent[c2g[c]].locks = 0
      /\ Has(m, c2g[c], "PRES") /\ m' = t /\ c2g' = h /\ content' = x
  BY <1>1, <1>2 DEF CacheInv, Free
<1>4. Good(m) /\ LocksFew(m) /\ c2g[c] \in Entries
  BY <1>3, ClientFacts DEF CacheGood
<1>5. Good(t) /\ Others(m, t, c2g[c]) /\ t.ent[c2g[c]].locks = 0
  BY <1>2, <1>3, <1>4, mcmgfreGood
<1>6. LocksFew(t)
  <2>1. 0 <= MaxLocks
    BY ConstFacts
  <2>2. t.ent[c2g[c]].locks <= MaxLocks
    BY <1>5, <2>1
  <2> QED BY <1>4, <1>5, <2>2, LocksStayFew
<1>7. ClientsKept(m, t, c2g, c)
  <2>1. ASSUME NEW d \in Clients, d # c, c2g[d] # NoEntry PROVE Kept(m, t, c2g[d])
    <3>1. c2g[d] # c2g[c]
      BY <1>3, <2>1 DEF CacheGood
    <3>2. Owned(m, c2g[d])
      BY <1>3, <2>1, ClientFacts
    <3> QED BY <1>5, <3>1, <3>2 DEF Others
  <2> QED BY <2>1 DEF ClientsKept
<1>8. c2g \in [Clients -> Entries \union {NoEntry}] /\ content \in [Clients -> Versions]
  BY <1>3 DEF CacheGood
<1>9. Regiven(c2g, h, content, x, c) /\ h[c] = NoEntry
  BY <1>1, <1>8 DEF Regiven, Versions
<1>10. CacheGood(t, h, x)
  BY <1>3, <1>5, <1>6, <1>7, <1>9, RegivenServed
<1>11. c2g'[c] = NoEntry /\ \A d \in Clients : d # c => c2g'[d] = c2g[d]
  BY <1>1, <1>3, <1>8
<1> QED BY <1>3, <1>7, <1>10, <1>11 DEF Served, ServedAt

\* Lemma: an allocation that failed kept every object.
LEMMA AllocFailed ==
  ASSUME CacheInv, NEW c \in Clients, NEW siz \in Sizes, NEW g, g = mcmalo0(m, siz), m' = g.m,
         UNCHANGED <<c2g, content>>
  PROVE  Served(c)
<1>1. CacheGood(m, c2g, content) /\ Good(m)
  BY DEF CacheInv, CacheGood
<1>2. siz \in Nat /\ siz > 0
  BY ConstFacts
<1>3. Good(g.m) /\ Keeps(m, g.m)
  BY <1>1, <1>2, mcmalo0Good
<1>4. CacheGood(g.m, c2g, content) /\ ClientsKept(m, g.m, c2g, c)
  BY <1>1, <1>3, AllServed
<1> QED BY <1>4 DEF Served, ServedAt

\* Lemma: one that succeeded gives its client an entry that was nobody's.
LEMMA AllocDone ==
  ASSUME CacheInv, NEW c \in Clients, c2g[c] = NoEntry, NEW siz \in Sizes, NEW g, g = mcmalo0(m, siz),
         g.n # NoEntry, NEW t, t = SetData(g.m, g.n, 0), NEW h, h = [c2g EXCEPT ![c] = g.n],
         NEW x, x = [content EXCEPT ![c] = 0]
  PROVE  CacheGood(t, h, x) /\ ClientsKept(m, t, c2g, c) /\ h[c] # NoEntry
<1>1. /\ CacheGood(m, c2g, content) /\ Good(m) /\ LocksFew(m)
      /\ c2g \in [Clients -> Entries \union {NoEntry}] /\ content \in [Clients -> Versions]
  BY DEF CacheInv, CacheGood
<1>2. siz \in Nat /\ siz > 0
  BY ConstFacts
<1>3. Good(g.m) /\ Keeps(m, g.m) /\ Fresh(m, g.m, g.n)
  BY <1>1, <1>2, mcmalo0Good
<1>4. PICK n, u : n = g.n /\ u = g.m
  OBVIOUS
<1>5. /\ Good(u) /\ Keeps(m, u) /\ n \in Entries /\ ~Owned(m, n) /\ Has(u, n, "PRES")
      /\ u.ent[n].locks = 1 /\ t = SetData(u, n, 0)
  BY <1>3, <1>4 DEF Fresh, Has
<1>6. 0 \in Versions
  BY DEF Versions
<1>7. Good(t) /\ Others(u, t, n) /\ Owned(t, n) /\ Stored(t, n) = 0 /\ t.ent = u.ent
  BY <1>5, <1>6, SetDataGood
<1>8. LocksFew(t)
  <2>1. CacheGood(u, c2g, content)
    BY <1>1, <1>5, AllServed
  <2> QED BY <1>7, <2>1 DEF CacheGood, LocksFew
<1>9. ASSUME NEW d \in Clients, d # c, c2g[d] # NoEntry PROVE Kept(m, t, c2g[d]) /\ c2g[d] # n
  <2>1. Owned(m, c2g[d])
    BY <1>1, <1>9, ClientFacts
  <2>2. c2g[d] # n /\ Kept(m, u, c2g[d])
    BY <1>5, <2>1 DEF Keeps
  <2>3. Owned(u, c2g[d])
    BY <2>2 DEF Kept
  <2>4. Kept(u, t, c2g[d])
    BY <1>7, <2>2, <2>3 DEF Others
  <2>5. Kept(m, t, c2g[d])
    BY <1>1, <1>5, <2>1, <2>2, <2>4, KeptTwice
  <2> QED BY <2>2, <2>5
<1>10. ClientsKept(m, t, c2g, c)
  BY <1>9 DEF ClientsKept
<1>11. n # NoEntry
  BY <1>5, NoEntryApart
<1>12. Regiven(c2g, h, content, x, c) /\ h[c] = n /\ x[c] = 0
  <2>1. h[c] = n /\ x[c] = 0 /\ \A d \in Clients : d # c => h[d] = c2g[d] /\ x[d] = content[d]
    BY <1>1, <1>4
  <2>2. h \in [Clients -> Entries \union {NoEntry}] /\ x \in [Clients -> Versions]
    BY <1>1, <1>4, <1>5, <1>6
  <2>3. \A d \in Clients : d # c => n # c2g[d]
    BY <1>9, <1>11
  <2> QED BY <2>1, <2>2, <2>3 DEF Regiven
<1>13. ClientGood(t, n, 0)
  <2>1. t.ent[n].siz > 0
    BY <1>5, <1>7, PresentSize DEF Has
  <2> QED BY <1>7, <2>1 DEF ClientGood
<1>14. CacheGood(t, h, x)
  BY <1>1, <1>7, <1>8, <1>10, <1>12, <1>13, RegivenServed
<1> QED BY <1>10, <1>11, <1>12, <1>14

\* Lemma: the action Alloc.
LEMMA AllocStep ==
  ASSUME CacheInv, NEW c \in Clients, NEW siz \in Sizes, Alloc(c, siz)
  PROVE  Served(c) /\ c2g[c] = NoEntry /\ \A d \in Clients : d # c => c2g'[d] = c2g[d]
<1>1. PICK g : g = mcmalo0(m, siz)
  OBVIOUS
<1>2. /\ c2g[c] = NoEntry
      /\ \/ g.n = NoEntry /\ m' = g.m /\ UNCHANGED <<c2g, content>>
         \/ /\ g.n # NoEntry /\ m' = SetData(g.m, g.n, 0)
            /\ c2g' = [c2g EXCEPT ![c] = g.n] /\ content' = [content EXCEPT ![c] = 0]
  BY <1>1 DEF Alloc
<1>3. CASE g.n = NoEntry /\ m' = g.m /\ UNCHANGED <<c2g, content>>
  <2>1. Served(c)
    BY <1>1, <1>3, AllocFailed
  <2> QED BY <1>2, <1>3, <2>1
<1>4. CASE /\ g.n # NoEntry /\ m' = SetData(g.m, g.n, 0)
           /\ c2g' = [c2g EXCEPT ![c] = g.n] /\ content' = [content EXCEPT ![c] = 0]
  <2>1. PICK t, h, x : t = SetData(g.m, g.n, 0) /\ h = [c2g EXCEPT ![c] = g.n]
                       /\ x = [content EXCEPT ![c] = 0]
    OBVIOUS
  <2>2. CacheGood(t, h, x) /\ ClientsKept(m, t, c2g, c)
    BY <1>1, <1>2, <1>4, <2>1, AllocDone
  <2>3. c2g \in [Clients -> Entries \union {NoEntry}]
    BY DEF CacheInv, CacheGood
  <2>4. \A d \in Clients : d # c => c2g'[d] = c2g[d]
    BY <1>4, <2>3
  <2> QED BY <1>2, <1>4, <2>1, <2>2, <2>4 DEF Served, ServedAt
<1> QED BY <1>2, <1>3, <1>4

-----------------------------------------------------------------------------
\* The initial state.

\* The initial state, for any choice of the statics' entries.
FirstPlaces == {f \in [Statics -> 2 .. Cardinality(Statics) + 1] : IsInjective(f)}
FirstEntries(place) ==
  [n \in Entries |-> IF n = 1 THEN Entry({"FREE"}, Chunk, <<1, 0>>, 0)
                     ELSE IF n \in Range(place) THEN Entry({}, StaticSize, Nowhere, 0)
                     ELSE UnusedEntry]
FirstState(place) ==
  [ent |-> FirstEntries(place), heap |-> <<<<Block(1, Nothing)>>>>, free |-> <<1>>,
   unused |-> Entries \ ({1} \union Range(place)), lru |-> << >>, segs |-> << >>,
   room |-> MaxChunks - 1]
ChosenPlace == CHOOSE f \in [Statics -> 2 .. Cardinality(Statics) + 1] : IsInjective(f)
FirstPlaced(place) == [c \in Clients |-> IF c \in Statics THEN place[c] ELSE NoEntry]

\* Lemma: there are entries enough for the statics.
LEMMA PlacesExist == \E place \in FirstPlaces : mcmini = [m |-> FirstState(place), c2g |-> FirstPlaced(place)]
<1>1. PICK k : k = Cardinality(Statics)
  OBVIOUS
<1>2. IsFiniteSet(Statics) /\ k \in Nat
  BY <1>1, CacheAssumption, FS_CardinalityType
<1>3. ExistsBijection(1 .. k, Statics) /\ ExistsBijection(Statics, 2 .. k + 1)
  <2>1. IsFiniteSet(2 .. k + 1) /\ Cardinality(2 .. k + 1) = k
    <3>1. 2 \in Int /\ k + 1 \in Int /\ (2 > k + 1 => k = 0) /\ (k + 1) - 2 + 1 = k
      BY <1>2
    <3> QED BY <3>1, FS_Interval
  <2>2. ExistsBijection(1 .. k, Statics)
    BY <1>1, <1>2, FS_CardinalityType
  <2> QED BY <1>1, <1>2, <2>1, <2>2, FS_SameCardinalityBij
<1>4. FirstPlaces # {}
  BY <1>1, <1>3 DEF FirstPlaces, ExistsBijection, Bijection, Injection
<1>5. ChosenPlace \in FirstPlaces
  BY <1>4 DEF FirstPlaces, ChosenPlace
<1>6. mcmini = [m |-> FirstState(ChosenPlace), c2g |-> FirstPlaced(ChosenPlace)]
  BY Zenon DEF mcmini, FirstState, FirstPlaced, FirstEntries, ChosenPlace
<1> QED BY <1>5, <1>6

\* Lemma: the statics' entries are entries, and none is the first chunk's header.
LEMMA PlacesFacts ==
  ASSUME NEW place \in FirstPlaces
  PROVE  /\ 1 \in Entries
         /\ \A c \in Statics : place[c] \in Entries /\ place[c] # 1 /\ place[c] \in Range(place)
         /\ \A c, d \in Statics : place[c] = place[d] => c = d
         /\ \A n \in Range(place) : \E c \in Statics : n = place[c]
<1>1. PICK k : k = Cardinality(Statics)
  OBVIOUS
<1>2. k \in Nat /\ NumEntries \in Nat /\ NumEntries > k
  BY <1>1, CacheAssumption, FS_CardinalityType
<1>3. place \in [Statics -> 2 .. k + 1] /\ IsInjective(place)
  BY <1>1 DEF FirstPlaces
<1>4. \A x \in 2 .. k + 1 : x \in Entries /\ x # 1
  BY <1>2 DEF Entries
<1>5. 1 \in Entries
  BY <1>2 DEF Entries
<1>6. \A c \in Statics : place[c] \in Entries /\ place[c] # 1 /\ place[c] \in Range(place)
  BY <1>3, <1>4 DEF Range
<1>7. \A c, d \in Statics : place[c] = place[d] => c = d
  BY <1>3 DEF IsInjective
<1>8. \A n \in Range(place) : \E c \in Statics : n = place[c]
  BY <1>3 DEF Range
<1> QED BY <1>5, <1>6, <1>7, <1>8

\* Lemma: the entries at the start.
LEMMA FirstEntriesFacts ==
  ASSUME NEW place \in FirstPlaces, NEW ent, ent = FirstEntries(place)
  PROVE  /\ ent \in [Entries -> EntryType]
         /\ ent[1] = Entry({"FREE"}, Chunk, <<1, 0>>, 0)
         /\ \A n \in Entries : n # 1 => ent[n].flg = {} /\ ent[n].locks = 0 /\ ent[n].seg = NoSeg
         /\ \A n \in Entries : n # 1 /\ n \in Range(place) => ent[n].siz = StaticSize
         /\ \A n \in Entries : n # 1 /\ n \notin Range(place) => ent[n] = UnusedEntry
<1>1. \A n \in Entries : ent[n] = IF n = 1 THEN Entry({"FREE"}, Chunk, <<1, 0>>, 0)
                                  ELSE IF n \in Range(place) THEN Entry({}, StaticSize, Nowhere, 0)
                                  ELSE UnusedEntry
  BY Zenon DEF FirstEntries
<1>2. 1 \in Entries
  BY PlacesFacts
<1>3. Entry({"FREE"}, Chunk, <<1, 0>>, 0) \in EntryType
  <2>1. {"FREE"} \in SUBSET Flags /\ Chunk \in 0 .. Chunk /\ <<1, 0>> \in (0 .. MaxChunks) \X (0 .. Chunk) /\ 0 \in Nat
    BY ConstFacts DEF Flags
  <2> QED BY <2>1, EntryTyped
<1>4. PICK e : e = Entry({}, StaticSize, Nowhere, 0)
  OBVIOUS
<1>5. e \in EntryType /\ e.flg = {} /\ e.siz = StaticSize /\ e.locks = 0 /\ e.seg = NoSeg
  <2>1. {} \in SUBSET Flags /\ StaticSize \in 0 .. Chunk /\ Nowhere \in (0 .. MaxChunks) \X (0 .. Chunk) /\ 0 \in Nat
    BY ConstFacts DEF Nowhere
  <2> QED BY <1>4, <2>1, EntryTyped
<1>6. UnusedEntry \in EntryType /\ UnusedEntry.flg = {} /\ UnusedEntry.locks = 0 /\ UnusedEntry.seg = NoSeg
  BY UnusedEntryFacts
<1>7. \A n \in Entries : ent[n] \in EntryType
  BY <1>1, <1>3, <1>4, <1>5, <1>6
<1>8. ent \in [Entries -> EntryType]
  <2>1. ent = [n \in Entries |-> ent[n]]
    BY DEF FirstEntries
  <2> QED BY <1>7, <2>1
<1>9. \A n \in Entries : n # 1 => ent[n] = e \/ ent[n] = UnusedEntry
  BY <1>1, <1>4
<1>10. \A n \in Entries : n # 1 => ent[n].flg = {} /\ ent[n].locks = 0 /\ ent[n].seg = NoSeg
  BY <1>5, <1>6, <1>9
<1>11. \A n \in Entries : n # 1 /\ n \in Range(place) => ent[n].siz = StaticSize
  BY <1>1, <1>4, <1>5
<1>12. \A n \in Entries : n # 1 /\ n \notin Range(place) => ent[n] = UnusedEntry
  BY <1>1
<1>13. ent[1] = Entry({"FREE"}, Chunk, <<1, 0>>, 0)
  BY <1>1, <1>2
<1> QED BY <1>8, <1>10, <1>11, <1>12, <1>13

\* Lemma: the state at the start is well-formed.
LEMMA FirstFields ==
  ASSUME NEW place \in FirstPlaces, NEW s, s = FirstState(place)
  PROVE  Fields(s, FirstEntries(place), <<<<Block(1, Nothing)>>>>, <<1>>,
                Entries \ ({1} \union Range(place)), << >>, << >>, MaxChunks - 1)
<1>1. PICK ent : ent = FirstEntries(place)
  OBVIOUS
<1>2. ent \in [Entries -> EntryType] /\ 1 \in Entries
  BY <1>1, FirstEntriesFacts, PlacesFacts
<1>3. Block(1, Nothing) \in BlockType
  BY <1>2 DEF Block, BlockType
<1>4. PICK b \in BlockType : b = Block(1, Nothing)
  BY <1>3
<1>5. <<<<b>>>> \in Seq(Seq(BlockType)) /\ <<1>> \in Seq(Entries) /\ << >> \in Seq(Entries) /\ << >> \in Seq(SegType)
  BY <1>2
<1>6. PICK room \in Int : room = MaxChunks - 1
  BY ConstFacts
<1>7. PICK unused \in SUBSET Entries : unused = Entries \ ({1} \union Range(place))
  OBVIOUS
<1>8. s = [ent |-> ent, heap |-> <<<<b>>>>, free |-> <<1>>, unused |-> unused, lru |-> << >>, segs |-> << >>,
           room |-> room]
  BY <1>1, <1>4, <1>6, <1>7, Zenon DEF FirstState
<1>9. s \in StateType
  BY <1>2, <1>5, <1>8 DEF StateType
<1>10. /\ s.ent = ent /\ s.heap = <<<<b>>>> /\ s.free = <<1>> /\ s.unused = unused /\ s.lru = << >>
       /\ s.segs = << >> /\ s.room = room
  BY <1>8
<1> QED BY <1>1, <1>4, <1>6, <1>7, <1>9, <1>10 DEF Fields

\* Lemma: and good.
LEMMA FirstGood ==
  ASSUME NEW place \in FirstPlaces, NEW s, s = FirstState(place)
  PROVE  /\ Good(s) /\ LocksFew(s)
         /\ \A c \in Statics : ClientGood(s, place[c], 0)
<1>1. PICK ent : ent = FirstEntries(place)
  OBVIOUS
<1>2. /\ s \in StateType /\ s.ent = ent /\ s.heap = <<<<Block(1, Nothing)>>>> /\ s.free = <<1>>
      /\ s.unused = Entries \ ({1} \union Range(place)) /\ s.lru = << >> /\ s.segs = << >>
      /\ s.room = MaxChunks - 1
  BY <1>1, FirstFields DEF Fields
<1>3. PICK first : first = Entry({"FREE"}, Chunk, <<1, 0>>, 0)
  OBVIOUS
<1>4. /\ first.flg = {"FREE"} /\ first.siz = Chunk /\ first.at = <<1, 0>> /\ first.locks = 0
      /\ first.seg = NoSeg /\ EntryGood(first)
  <2>1. Chunk \in 0 .. Chunk /\ <<1, 0>> \in (0 .. MaxChunks) \X (0 .. Chunk)
    BY ConstFacts
  <2> QED BY <1>3, <2>1, FreeEntry
<1>5. /\ 1 \in Entries /\ ent[1] = first
      /\ \A n \in Entries : n # 1 => ent[n].flg = {} /\ ent[n].locks = 0 /\ ent[n].seg = NoSeg
      /\ \A n \in Entries : n # 1 /\ n \in Range(place) => ent[n].siz = StaticSize
      /\ \A n \in Entries : n # 1 /\ n \notin Range(place) => ent[n] = UnusedEntry
  BY <1>1, <1>3, FirstEntriesFacts, PlacesFacts
<1>6. \A n \in Entries : ent[n].locks = 0 /\ ent[n].seg = NoSeg
  BY <1>4, <1>5
<1>7. ASSUME NEW n \in Entries PROVE EntryGood(s.ent[n])
  <2>1. CASE n = 1
    BY <1>2, <1>4, <1>5, <2>1
  <2>2. CASE n # 1
    <3>1. s.ent[n].flg = {} /\ s.ent[n].locks = 0 /\ s.ent[n].seg = NoSeg
      BY <1>2, <1>5, <2>2
    <3> QED BY <3>1 DEF EntryGood
  <2> QED BY <2>1, <2>2
<1>8. PICK b : b = Block(1, Nothing)
  OBVIOUS
<1>9. b.num = 1
  BY <1>8 DEF Block
<1>10. PICK heap : heap = <<<<b>>>>
  OBVIOUS
<1>11. /\ s.heap = heap /\ Len(heap) = 1 /\ heap[1] = <<b>> /\ Len(heap[1]) = 1 /\ heap[1][1] = b
       /\ DOMAIN heap = 1 .. 1 /\ DOMAIN heap[1] = 1 .. 1
  BY <1>2, <1>8, <1>10
<1>12. HeapGood(s.ent, s.heap)
  <2>1. Chained(ent, heap[1], 1)
    <3>1. PICK blocks : blocks = heap[1]
      OBVIOUS
    <3>2. blocks # << >> /\ Len(blocks) = 1 /\ blocks[1] = b
      BY <1>11, <3>1
    <3>3. ent[b.num].at[1] = 1 /\ ent[b.num].at[2] = 0 /\ ent[b.num].siz = Chunk
      BY <1>4, <1>5, <1>9
    <3>4. EndOf(ent, b) = Chunk
      BY <3>3, ConstFacts DEF EndOf
    <3>5. Chunk > 0
      BY ConstFacts
    <3>6. \A i \in 1 .. Len(blocks) : i = 1
      BY <3>2
    <3>7. \A i \in 1 .. Len(blocks) - 1 : FALSE
      BY <3>2
    <3>8. blocks[Len(blocks)] = b
      BY <3>2
    <3>9. Chained(ent, blocks, 1)
      BY <3>2, <3>3, <3>4, <3>5, <3>6, <3>7, <3>8, Zenon DEF Chained
    <3> QED BY <3>1, <3>9
  <2>2. \A c \in 1 .. Len(heap) : c = 1
    BY <1>11
  <2>3. \A i \in 1 .. Len(heap[1]) : i = 1
    BY <1>11
  <2>4. Separate(heap)
    BY <2>2, <2>3, Zenon DEF Separate
  <2> QED BY <1>2, <1>11, <2>1, <2>2, <2>4, Zenon DEF HeapGood
<1>13. HeadersGood(s.ent, s.heap)
  <2>1. \A x : x \in BlocksOf(heap) <=> x = b
    <3>1. DOMAIN heap = {1} /\ ToSet(heap[1]) = {b}
      <4>1. 1 .. 1 = {1}
        OBVIOUS
      <4>2. ToSet(heap[1]) = {b}
        BY <1>11, <4>1 DEF ToSet
      <4> QED BY <1>11, <4>1, <4>2
    <3> QED BY <3>1, Zenon DEF BlocksOf
  <2>2. ASSUME NEW n \in Entries PROVE InMemory(s.ent[n]) <=> n = 1
    <3>1. CASE n = 1
      BY <1>2, <1>4, <1>5, <3>1 DEF InMemory
    <3>2. CASE n # 1
      BY <1>2, <1>5, <3>2 DEF InMemory
    <3> QED BY <3>1, <3>2
  <2> QED BY <1>9, <1>11, <2>1, <2>2, Zenon DEF HeadersGood
<1>14. ListsGood(s.ent, s.free, s.lru)
  <2>1. IsInjective(<<1>>) /\ IsInjective(<< >>) /\ ToSet(<<1>>) = {1} /\ ToSet(<< >>) = {}
    <3>1. PICK one : one = <<1>>
      OBVIOUS
    <3>2. DOMAIN one = {1} /\ one[1] = 1
      BY <3>1
    <3>3. IsInjective(one) /\ ToSet(one) = {1}
      BY <3>2 DEF IsInjective, ToSet
    <3>4. PICK none : none = << >>
      OBVIOUS
    <3>5. DOMAIN none = {}
      BY <3>4
    <3>6. IsInjective(none) /\ ToSet(none) = {}
      BY <3>5 DEF IsInjective, ToSet
    <3> QED BY <3>1, <3>3, <3>4, <3>6
  <2>2. \A n \in Entries : ("FREE" \in ent[n].flg <=> n = 1) /\ "LRU" \notin ent[n].flg
    <3>1. "LRU" \notin {"FREE"} /\ "FREE" \in {"FREE"}
      OBVIOUS
    <3> QED BY <1>4, <1>5, <3>1
  <2>3. ListOf(ent, <<1>>, "FREE") /\ ListOf(ent, << >>, "LRU")
    BY <2>1, <2>2, Zenon DEF ListOf
  <2> QED BY <1>2, <2>3 DEF ListsGood
<1>15. \A n \in s.unused : s.ent[n] = UnusedEntry
  BY <1>2, <1>5
<1>16. SegsGood(s.ent, s.segs)
  <2>1. Len(s.segs) = 0
    BY <1>2
  <2>2. \A g \in 1 .. Len(s.segs) : FALSE
    BY <2>1
  <2> QED BY <1>2, <1>6, <2>2, Zenon DEF SegsGood
<1>17. FileSize(s) <= SwapSize
  <2>1. [i \in DOMAIN s.segs |-> s.segs[i].siz] = << >>
    BY <1>2
  <2>2. FileSize(s) = 0
    BY <2>1, TotalEmpty DEF FileSize
  <2> QED BY <2>2, ConstFacts
<1>18. s.room >= 0 /\ s.heap # << >> /\ s.room + Len(s.heap) <= MaxChunks
  BY <1>2, <1>11, ConstFacts
<1>19. Good(s)
  BY <1>2, <1>7, <1>12, <1>13, <1>14, <1>15, <1>16, <1>17, <1>18 DEF Good
<1>20. LocksFew(s)
  <2>1. 0 <= MaxLocks
    BY ConstFacts
  <2> QED BY <1>2, <1>6, <2>1 DEF LocksFew
<1>21. ASSUME NEW c \in Statics PROVE ClientGood(s, place[c], 0)
  <2>1. PICK n : n = place[c]
    OBVIOUS
  <2>2. n \in Entries /\ n # 1 /\ n \in Range(place)
    BY <2>1, PlacesFacts
  <2>3. s.ent[n].flg = {} /\ s.ent[n].siz = StaticSize /\ n \notin s.unused
    BY <1>2, <1>5, <2>2
  <2>4. Owned(s, n)
    BY <2>2, <2>3 DEF Owned, Has
  <2>5. Stored(s, n) = 0
    BY <2>3, Zenon DEF Stored, Has
  <2>6. s.ent[n].siz > 0
    BY <2>3, ConstFacts
  <2> QED BY <2>1, <2>4, <2>5, <2>6 DEF ClientGood
<1> QED BY <1>19, <1>20, <1>21

\* Lemma: the invariant holds at the start.
LEMMA InitGood ==
  ASSUME Init
  PROVE  CacheInv /\ \A c \in Statics : c2g[c] # NoEntry
<1>1. PICK place \in FirstPlaces : mcmini = [m |-> FirstState(place), c2g |-> FirstPlaced(place)]
  BY PlacesExist
<1>2. PICK s, g, w : s = FirstState(place) /\ g = FirstPlaced(place) /\ w = [c \in Clients |-> 0]
  OBVIOUS
<1>3. m = s /\ c2g = g /\ content = w
  BY <1>1, <1>2 DEF Init
<1>4. Good(s) /\ LocksFew(s) /\ \A c \in Statics : ClientGood(s, place[c], 0)
  BY <1>2, FirstGood
<1>5. /\ \A c \in Statics : place[c] \in Entries
      /\ \A c, d \in Statics : place[c] = place[d] => c = d
  BY PlacesFacts
<1>6. \A c \in Clients : g[c] = IF c \in Statics THEN place[c] ELSE NoEntry
  BY <1>2 DEF FirstPlaced
<1>7. g \in [Clients -> Entries \union {NoEntry}]
  BY <1>2, <1>5 DEF FirstPlaced
<1>8. w \in [Clients -> Versions] /\ \A c \in Clients : w[c] = 0
  BY <1>2 DEF Versions
<1>9. \A c \in Clients : g[c] # NoEntry => c \in Statics /\ g[c] = place[c]
  BY <1>6
<1>10. \A c \in Clients : g[c] # NoEntry => ClientGood(s, g[c], w[c])
  BY <1>4, <1>8, <1>9
<1>11. \A c, d \in Clients : g[c] # NoEntry /\ g[c] = g[d] => c = d
  BY <1>5, <1>9
<1>12. CacheGood(s, g, w)
  BY <1>4, <1>7, <1>8, <1>10, <1>11 DEF CacheGood
<1>13. \A c \in Statics : g[c] # NoEntry
  BY <1>5, <1>6, NoEntryApart DEF Clients
<1> QED BY <1>3, <1>12, <1>13 DEF CacheInv

-----------------------------------------------------------------------------
\* The theorems.

\* The invariant, and what a step does to every client's object: the inductive
\* invariant of the cache manager.
CacheIInv == CacheInv /\ \A c \in Statics : c2g[c] # NoEntry

\* What is the same before and after a step that is no reallocation by its only
\* holder: the place of every locked object.
StepStays ==
  \A c \in Clients :
    LET n == c2g[c]
    IN  n # NoEntry /\ n = c2g'[c] /\ Has(m, n, "LOCK") /\ m'.ent[n].at # m.ent[n].at
        => m.ent[n].locks = 1 /\ \E siz \in Sizes : Realloc(c, siz)

\* Lemma: a step that fixes its own client's object fixes all of them.
LEMMA FixedStays ==
  ASSUME CacheInv, NEW c \in Clients, Served(c),
         c2g[c] # NoEntry /\ c2g'[c] = c2g[c] => Fixed(m, m', c2g[c])
  PROVE  StepStays
<1>1. ASSUME NEW d \in Clients, c2g[d] # NoEntry, c2g[d] = c2g'[d], Has(m, c2g[d], "LOCK")
      PROVE  m'.ent[c2g[d]].at = m.ent[c2g[d]].at
  <2>1. CASE d = c
    BY <1>1, <2>1 DEF Fixed
  <2>2. CASE d # c
    <3>1. Kept(m, m', c2g[d])
      BY <1>1, <2>2 DEF Served, ServedAt, ClientsKept
    <3> QED BY <1>1, <3>1 DEF Kept
  <2> QED BY <2>1, <2>2
<1> QED BY <1>1, Zenon DEF StepStays

\* Lemma: a reallocation moves a locked object only if nobody else has it locked.
LEMMA ReallocStays ==
  ASSUME CacheInv, NEW c \in Clients, NEW siz \in Sizes, Realloc(c, siz)
  PROVE  StepStays
<1>1. /\ Served(c) /\ c2g' = c2g
      /\ Has(m, c2g[c], "LOCK") /\ m'.ent[c2g[c]].at # m.ent[c2g[c]].at => m.ent[c2g[c]].locks = 1
  BY ReallocStep
<1>2. ASSUME NEW d \in Clients, c2g[d] # NoEntry, c2g[d] = c2g'[d], Has(m, c2g[d], "LOCK"),
             m'.ent[c2g[d]].at # m.ent[c2g[d]].at
      PROVE  m.ent[c2g[d]].locks = 1 /\ \E size \in Sizes : Realloc(d, size)
  <2>1. CASE d = c
    BY <1>1, <1>2, <2>1
  <2>2. CASE d # c
    <3>1. Kept(m, m', c2g[d])
      BY <1>1, <1>2, <2>2 DEF Served, ServedAt, ClientsKept
    <3> QED BY <1>2, <3>1 DEF Kept
  <2> QED BY <2>1, <2>2
<1> QED BY <1>2, Zenon DEF StepStays

\* Lemma: every step keeps the invariant and leaves locked objects where they are.
LEMMA CacheStep ==
  ASSUME ~FreeAbsent, CacheIInv, [Next]_vars
  PROVE  CacheIInv' /\ StepStays
<1>1. CacheInv /\ \A c \in Statics : c2g[c] # NoEntry
  BY DEF CacheIInv
<1>2. ASSUME NEW c \in Clients, Served(c) PROVE CacheInv'
  BY <1>2 DEF Served, ServedAt, CacheInv
<1>3. ASSUME NEW c \in Clients, Served(c), c2g' = c2g, Fixed(m, m', c2g[c])
      PROVE  CacheIInv' /\ StepStays
  <2>1. CacheInv' /\ StepStays
    BY <1>1, <1>2, <1>3, FixedStays
  <2> QED BY <1>1, <1>3, <2>1 DEF CacheIInv
<1>4. ASSUME NEW c \in Clients, Lock(c) PROVE CacheIInv' /\ StepStays
  BY <1>1, <1>3, <1>4, LockStep
<1>5. ASSUME NEW c \in Clients, Unlock(c) PROVE CacheIInv' /\ StepStays
  BY <1>1, <1>3, <1>5, UnlockStep
<1>6. ASSUME NEW c \in Clients, Write(c) PROVE CacheIInv' /\ StepStays
  BY <1>1, <1>3, <1>6, WriteStep
<1>7. ASSUME NEW c \in Clients, NEW siz \in Sizes, Realloc(c, siz) PROVE CacheIInv' /\ StepStays
  <2>1. Served(c) /\ c2g' = c2g
    BY <1>1, <1>7, ReallocStep
  <2>2. StepStays
    BY <1>1, <1>7, ReallocStays
  <2>3. CacheInv'
    BY <1>2, <2>1
  <2> QED BY <1>1, <2>1, <2>2, <2>3 DEF CacheIInv
<1>8. ASSUME NEW c \in Dynamics, NEW siz \in Sizes, Alloc(c, siz) PROVE CacheIInv' /\ StepStays
  <2>1. c \in Clients /\ c \notin Statics
    BY CacheAssumption DEF Clients
  <2>2. Served(c) /\ c2g[c] = NoEntry /\ \A d \in Clients : d # c => c2g'[d] = c2g[d]
    BY <1>1, <1>8, <2>1, AllocStep
  <2>3. CacheInv' /\ StepStays
    BY <1>1, <1>2, <2>1, <2>2, FixedStays
  <2> QED BY <1>1, <2>1, <2>2, <2>3 DEF CacheIInv, Clients
<1>9. ASSUME NEW c \in Dynamics, Free(c) PROVE CacheIInv' /\ StepStays
  <2>1. c \in Clients /\ c \notin Statics
    BY CacheAssumption DEF Clients
  <2>2. Served(c) /\ c2g'[c] = NoEntry /\ \A d \in Clients : d # c => c2g'[d] = c2g[d]
    BY <1>1, <1>9, <2>1, FreeStep
  <2>3. CacheInv'
    BY <1>2, <2>1, <2>2
  <2>4. StepStays
    BY <1>1, <2>1, <2>2, FixedStays
  <2> QED BY <1>1, <2>1, <2>2, <2>3, <2>4 DEF CacheIInv, Clients
<1>10. ASSUME NEW c \in Statics, Revert(c) PROVE CacheIInv' /\ StepStays
  <2>1. c \in Clients /\ c2g[c] # NoEntry
    BY <1>1 DEF Clients
  <2> QED BY <1>1, <1>3, <1>10, <2>1, RevertStep
<1>11. CASE UNCHANGED vars
  <2>1. m' = m /\ c2g' = c2g /\ content' = content
    BY <1>11 DEF vars
  <2>2. CacheIInv'
    BY <1>1, <2>1 DEF CacheIInv, CacheInv
  <2>3. StepStays
    BY <2>1, Zenon DEF StepStays
  <2> QED BY <2>2, <2>3
<1>12. CASE Next
  <2>1. \/ \E c \in Clients : Lock(c) \/ Unlock(c) \/ Write(c) \/ \E siz \in Sizes : Realloc(c, siz)
        \/ \E c \in Dynamics : (\E siz \in Sizes : Alloc(c, siz)) \/ Free(c)
        \/ \E c \in Statics : Revert(c)
    BY <1>12, Zenon DEF Next
  <2> QED BY <1>4, <1>5, <1>6, <1>7, <1>8, <1>9, <1>10, <2>1, Zenon
<1> QED BY <1>11, <1>12

\* The cache's structure, the contents of all objects and the game's view of
\* them stay as the invariant says, through every sequence of calls that frees
\* only objects in memory.
THEOREM CacheInvariant ==
  ASSUME ~FreeAbsent
  PROVE  Spec => []CacheIInv
<1>1. Init => CacheIInv
  BY InitGood DEF CacheIInv
<1>2. CacheIInv /\ [Next]_vars => CacheIInv'
  BY CacheStep
<1> QED BY <1>1, <1>2, PTL DEF Spec

\* Lemma: the types.
LEMMA CacheTypes ==
  ASSUME CacheInv
  PROVE  TypeOK
<1>1. /\ Good(m) /\ LocksFew(m) /\ c2g \in [Clients -> Entries \union {NoEntry}]
      /\ content \in [Clients -> Versions]
  BY DEF CacheInv, CacheGood
<1>2. /\ m \in StateType /\ SegsGood(m.ent, m.segs) /\ FileSize(m) <= SwapSize
      /\ m.room >= 0 /\ m.heap # << >> /\ m.room + Len(m.heap) <= MaxChunks
  BY <1>1 DEF Good
<1>3. /\ m.ent \in [Entries -> EntryType] /\ m.heap \in Seq(Seq(BlockType))
      /\ m.free \in Seq(Entries) /\ m.unused \in SUBSET Entries /\ m.lru \in Seq(Entries)
      /\ m.segs \in Seq(SegType) /\ m.room \in Int
  BY <1>2, StateFields
<1>4. PICK few : few = [flg : SUBSET Flags, siz : 0 .. Chunk, at : (0 .. MaxChunks) \X (0 .. Chunk),
                        locks : 0 .. MaxLocks, seg : 0 .. Len(m.segs)]
  OBVIOUS
<1>5. ASSUME NEW n \in Entries PROVE m.ent[n] \in few
  <2>1. PICK e \in EntryType : e = m.ent[n]
    BY <1>3
  <2>2. e.locks <= MaxLocks /\ e.locks \in Nat /\ e.seg \in Nat
    BY <1>1, <2>1 DEF LocksFew, EntryType
  <2>3. Len(m.segs) \in Nat
    BY <1>3
  <2>4. e.seg <= Len(m.segs)
    <3>1. e.seg # NoSeg => e.seg <= Len(m.segs)
      BY <1>2, <2>1 DEF SegsGood
    <3> QED BY <2>2, <2>3, <3>1 DEF NoSeg
  <2>5. PICK len \in Nat : len = Len(m.segs)
    BY <2>3
  <2>6. e.locks \in 0 .. MaxLocks /\ e.seg \in 0 .. len
    BY <2>2, <2>4, <2>5, ConstFacts
  <2>7. e \in [flg : SUBSET Flags, siz : 0 .. Chunk, at : (0 .. MaxChunks) \X (0 .. Chunk),
               locks : 0 .. MaxLocks, seg : 0 .. len]
    BY <2>6 DEF EntryType
  <2> QED BY <1>4, <2>1, <2>5, <2>7
<1>6. m.ent \in [Entries -> few]
  BY <1>3, <1>5
<1>7. Len(m.heap) <= MaxChunks /\ m.room \in 0 .. MaxChunks - 1
  <2>1. Len(m.heap) \in Nat /\ Len(m.heap) # 0
    BY <1>2, <1>3
  <2>2. \A r, l, c \in Int : r >= 0 /\ l >= 1 /\ r + l <= c => l <= c /\ r \in 0 .. c - 1
    OBVIOUS
  <2> QED BY <1>2, <1>3, <2>1, <2>2, ConstFacts
<1> QED BY <1>1, <1>2, <1>3, <1>4, <1>6, <1>7, Zenon DEF TypeOK, BlockType, SegType

\* Lemma: heap and entries agree.
LEMMA CacheHeap ==
  ASSUME CacheInv
  PROVE  HeapAgrees
<1>1. Good(m)
  BY DEF CacheInv, CacheGood
<1>2. /\ m \in StateType /\ HeapGood(m.ent, m.heap) /\ HeadersGood(m.ent, m.heap) /\ m.heap \in Seq(Seq(BlockType))
  BY <1>1, StateFields DEF Good
<1>3. DOMAIN m.heap = 1 .. Len(m.heap)
  BY <1>2, BlocksFacts
<1>4. \A c \in 1 .. Len(m.heap) : DOMAIN m.heap[c] = 1 .. Len(m.heap[c])
  BY <1>2, BlocksFacts
<1>5. ASSUME NEW c \in 1 .. Len(m.heap)
      PROVE  /\ SizeOfBlocks(m, m.heap[c]) = Chunk
             /\ \A i \in 1 .. Len(m.heap[c]) : m.ent[m.heap[c][i].num].at = Address(m, c, i)
  <2>1. Chained(m.ent, m.heap[c], c)
    BY <1>2 DEF HeapGood
  <2> QED BY <1>2, <2>1, ChainSums
<1>6. ASSUME NEW p \in Places(m)
      PROVE  LET n == m.heap[p[1]][p[2]].num
             IN  m.ent[n].at = Address(m, p[1], p[2]) /\ PlaceOf(m, n) = p
  <2>1. PICK c \in 1 .. Len(m.heap) : p \in {c} \X DOMAIN m.heap[c]
    BY <1>3 DEF Places
  <2>2. PICK i \in 1 .. Len(m.heap[c]) : p = <<c, i>>
    BY <1>4, <2>1
  <2>3. p[1] = c /\ p[2] = i
    BY <2>2
  <2>4. m.ent[m.heap[c][i].num].at = Address(m, c, i)
    BY <1>5
  <2>5. Separate(m.heap)
    BY <1>2 DEF HeapGood
  <2>6. PlaceOf(m, m.heap[c][i].num) = <<c, i>>
    BY <1>2, <2>5, PlaceFacts
  <2> QED BY <2>2, <2>3, <2>4, <2>6, Zenon
<1>7. {n \in Entries : Has(m, n, "PRES") \/ Has(m, n, "FREE")}
        = UNION {ToSet(NumsIn(m.heap[c])) : c \in DOMAIN m.heap}
  <2>1. ASSUME NEW n, NEW c \in 1 .. Len(m.heap)
        PROVE  n \in ToSet(NumsIn(m.heap[c])) <=> \E i \in 1 .. Len(m.heap[c]) : m.heap[c][i].num = n
    <3>1. PICK q : q = NumsIn(m.heap[c])
      OBVIOUS
    <3>2. DOMAIN q = 1 .. Len(m.heap[c]) /\ \A i \in 1 .. Len(m.heap[c]) : q[i] = m.heap[c][i].num
      BY <1>4, <3>1 DEF NumsIn
    <3>3. ToSet(q) = {q[i] : i \in DOMAIN q}
      BY DEF ToSet
    <3> QED BY <3>1, <3>2, <3>3
  <2>2. ASSUME NEW n \in Entries, Has(m, n, "PRES") \/ Has(m, n, "FREE")
        PROVE  \E c \in DOMAIN m.heap : n \in ToSet(NumsIn(m.heap[c]))
    <3>1. PICK c \in 1 .. Len(m.heap) : \E i \in 1 .. Len(m.heap[c]) : m.heap[c][i].num = n
      BY <1>1, <2>2, HeaderPlace
    <3>2. n \in ToSet(NumsIn(m.heap[c]))
      BY <2>1, <3>1
    <3> QED BY <1>3, <3>2
  <2>3. ASSUME NEW c \in DOMAIN m.heap, NEW n \in ToSet(NumsIn(m.heap[c]))
        PROVE  n \in Entries /\ (Has(m, n, "PRES") \/ Has(m, n, "FREE"))
    <3>1. c \in 1 .. Len(m.heap)
      BY <1>3
    <3>2. PICK i \in 1 .. Len(m.heap[c]) : m.heap[c][i].num = n
      BY <2>1, <3>1
    <3>3. /\ m.heap[c][i].num \in Entries
          /\ Has(m, m.heap[c][i].num, "PRES") \/ Has(m, m.heap[c][i].num, "FREE")
      BY <1>1, <3>1, PlaceHeader
    <3> QED BY <3>2, <3>3
  <2> QED BY <2>2, <2>3
<1> QED BY <1>3, <1>5, <1>6, <1>7, Zenon DEF HeapAgrees

\* Lemma: the lists are exact.
LEMMA CacheLists ==
  ASSUME CacheInv
  PROVE  ListsExact
<1>1. Good(m)
  BY DEF CacheInv, CacheGood
<1>2. /\ m \in StateType /\ ListsGood(m.ent, m.free, m.lru)
      /\ m.free \in Seq(Entries) /\ m.lru \in Seq(Entries)
  BY <1>1, StateFields DEF Good
<1>3. /\ IsInjective(m.free) /\ IsInjective(m.lru)
      /\ \A n \in Entries : (n \in ToSet(m.free) <=> Has(m, n, "FREE")) /\ (n \in ToSet(m.lru) <=> Has(m, n, "LRU"))
  BY <1>2 DEF ListsGood, ListOf, Has
<1>4. \A q \in Seq(Entries) : ToSet(q) \subseteq Entries
  BY DEF ToSet
<1>5. ToSet(m.free) = {n \in Entries : Has(m, n, "FREE")} /\ ToSet(m.lru) = {n \in Entries : Has(m, n, "LRU")}
  BY <1>2, <1>3, <1>4
<1>6. ASSUME NEW n \in Entries
      PROVE  /\ Has(m, n, "PRES") /\ ~Has(m, n, "LOCK") => Has(m, n, "LRU")
             /\ Has(m, n, "LRU") => Has(m, n, "PRES")
             /\ Has(m, n, "LOCK") <=> m.ent[n].locks > 0
  <2>1. EntryGood(m.ent[n])
    BY <1>1 DEF Good
  <2> QED BY <2>1, Zenon DEF EntryGood, Has
<1>7. ASSUME NEW n \in Entries, n \in m.unused
      PROVE  m.ent[n].flg = {} /\ n \notin Range(c2g)
  <2>1. m.ent[n].flg = {}
    BY <1>1, <1>7, UnusedApart
  <2>2. c2g \in [Clients -> Entries \union {NoEntry}]
    BY DEF CacheInv, CacheGood
  <2>3. ASSUME NEW c \in Clients, c2g[c] = n PROVE FALSE
    <3>1. c2g[c] # NoEntry
      BY <2>3, NoEntryApart
    <3>2. Owned(m, c2g[c])
      BY <3>1, ClientFacts DEF CacheInv
    <3> QED BY <1>7, <2>3, <3>2 DEF Owned
  <2>4. n \notin Range(c2g)
    BY <2>2, <2>3 DEF Range
  <2> QED BY <2>1, <2>4
<1> QED BY <1>3, <1>5, <1>6, <1>7, Zenon DEF ListsExact

\* The types, for any number of objects, chunks and headers.
THEOREM CacheTypeOK ==
  ASSUME ~FreeAbsent
  PROVE  Spec => []TypeOK
<1>1. CacheIInv => TypeOK
  BY CacheTypes DEF CacheIInv
<1> QED BY <1>1, CacheInvariant, PTL

\* Heap, entries and lists agree whatever is split, moved, annexed, tossed out,
\* loaded and collected, if the game frees only objects in memory.
THEOREM CacheStructureKept ==
  ASSUME ~FreeAbsent
  PROVE  Spec => []CacheStructure
<1>1. CacheIInv => CacheStructure
  BY CacheHeap, CacheLists DEF CacheIInv, CacheStructure
<1> QED BY <1>1, CacheInvariant, PTL

\* Every object holds what the game last gave it.
THEOREM CacheContentsKept ==
  ASSUME ~FreeAbsent
  PROVE  Spec => []ContentsKept
<1>1. ASSUME CacheIInv PROVE ContentsKept
  <2>1. ASSUME NEW c \in Clients, c2g[c] # NoEntry PROVE Stored(m, c2g[c]) = content[c]
    BY <1>1, <2>1, ClientFacts DEF CacheIInv, CacheInv
  <2> QED BY <2>1 DEF ContentsKept
<1> QED BY <1>1, CacheInvariant, PTL

\* A locked object is moved only by its own reallocation, and only if nobody
\* else has it locked.
THEOREM CacheLockedStay ==
  ASSUME ~FreeAbsent
  PROVE  Spec => LockedStay
<1>1. CacheIInv /\ [Next]_vars => [StepStays]_vars
  BY CacheStep
<1>2. Spec => [][StepStays]_vars
  BY <1>1, CacheInvariant, PTL DEF Spec
<1> QED BY <1>2 DEF LockedStay, StepStays

\* A request fails only when nothing can be done: when headers have run out, the
\* swap file is full, or no gap between locked blocks would hold the object,
\* however the blocks between them were moved and tossed out.
THEOREM CacheAllocComplete ==
  ASSUME ~FreeAbsent
  PROVE  Spec => []AllocComplete
<1>1. ASSUME CacheIInv PROVE AllocComplete
  <2>1. Good(m)
    BY <1>1 DEF CacheIInv, CacheInv, CacheGood
  <2>2. ASSUME NEW siz \in Sizes, NEW g, g = mcmalo0(m, siz), g.n = NoEntry,
               g.m.unused # {}, ~SwapFull(g.m), NEW c \in DOMAIN g.m.heap, NEW w \in Gaps(g.m, c)
        PROVE  SizeOfBlocks(g.m, SubSeq(g.m.heap[c], w[1], w[2])) < siz
    <3>1. siz \in 1 .. Chunk
      BY ConstFacts
    <3>2. siz \in Nat /\ siz > 0
      BY <3>1, ConstFacts
    <3>3. Good(g.m)
      BY <2>1, <2>2, <3>2, mcmalo0Good
    <3>4. Excuse(g.m, siz)
      BY <2>1, <2>2, <3>1, mcmalo0Complete
    <3>5. Stuck(g.m, siz)
      BY <2>2, <3>4, Zenon DEF Excuse
    <3> QED BY <2>2, <3>1, <3>3, <3>5, StuckHopeless
  <2> QED BY <2>2, Zenon DEF AllocComplete
<1> QED BY <1>1, CacheInvariant, PTL
=============================================================================
