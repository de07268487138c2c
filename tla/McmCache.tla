------------------------------ MODULE McmCache ------------------------------
(***************************************************************************)
(* The virtual memory of the TADS 2 run time: the cache manager            *)
(* (tads2/mcm.c), which keeps objects in chunks of memory, moves them to   *)
(* close gaps and tosses them out when it needs room, and the swapper      *)
(* (tads2/mcs.c), which keeps those that were tossed out in a file.        *)
(*                                                                         *)
(* m is all of the two managers' state.  A chunk is the sequence of its    *)
(* blocks, each with the number in its header and the object's data; the   *)
(* address of a block follows from the sizes of those before it, and is    *)
(* compared with the one its cache entry holds.  The headers' own size is  *)
(* left out, and so is MCMOFDIRTY: every object in memory has MCMOFNODISC, *)
(* which alone makes mcmtoss write it.  The unused list is a set: which    *)
(* header it hands out is of no importance.                                *)
(***************************************************************************)
EXTENDS Integers, SequencesExt, FiniteSetsExt

CONSTANTS
  Statics,      \* client objects of the game file
  Dynamics,     \* client objects the game allocates and frees
  StaticSize,   \* the size of the statics
  Sizes,        \* sizes the game asks for
  Chunk,        \* MCMCHUNK
  MaxChunks,    \* chunks within mcmcxmax
  Split,        \* MCMSPLIT
  SwapSize,     \* mcscxmax of an empty swap file
  NumEntries,   \* cache entries (pages of them)
  MaxLocks,     \* bound: locks the game holds at a time
  FreeAbsent    \* the game may lose objects that are swapped out

Clients == Statics \union Dynamics
Entries == 1 .. NumEntries
NoEntry == 0
NoSeg   == 0

ASSUME CacheAssumption ==
  /\ IsFiniteSet(Statics) /\ Statics \intersect Dynamics = {}
  /\ Sizes \subseteq 1 .. Chunk /\ StaticSize \in 1 .. Chunk
  /\ {Chunk, MaxChunks, Split, MaxLocks} \subseteq Nat \ {0} /\ SwapSize \in Nat
  /\ NumEntries \in Nat /\ NumEntries > Cardinality(Statics)

VARIABLES
  m,        \* the cache manager and the swapper
  c2g,      \* mcmcxmtb: the cache entry of each client object
  content   \* history: what each object holds for the game

vars == <<m, c2g, content>>

\* What an object holds: 0 at first (in the game file), then what the game writes.
Versions == 0 .. 1
Nothing  == -1
Flags    == {"NODISC", "LOCK", "PRES", "LRU", "FREE", "REVRT"}

Entry(flg, siz, at, locks) ==
  [flg |-> flg, siz |-> siz, at |-> at, locks |-> locks, seg |-> NoSeg]
Nowhere     == <<0, 0>>
UnusedEntry == Entry({}, 0, Nowhere, 0)
Has(s, n, f) == f \in s.ent[n].flg
Block(n, data) == [num |-> n, data |-> data]

-----------------------------------------------------------------------------
\* Addresses.
Total(sizes) == FoldLeft(LAMBDA sum, siz : sum + siz, 0, sizes)
SizesOf(s, blocks) == [i \in DOMAIN blocks |-> s.ent[blocks[i].num].siz]
SizeOfBlocks(s, blocks) == Total(SizesOf(s, blocks))
Address(s, c, i) == <<c, SizeOfBlocks(s, SubSeq(s.heap[c], 1, i - 1))>>

Places(s) == UNION {{c} \X DOMAIN s.heap[c] : c \in DOMAIN s.heap}
PlaceOf(s, n) == CHOOSE p \in Places(s) : s.heap[p[1]][p[2]].num = n
DataOf(s, n) == LET p == PlaceOf(s, n) IN s.heap[p[1]][p[2]].data

\* The block at place p becomes b.
SetBlock(s, p, b) == [s EXCEPT !.heap[p[1]][p[2]] = b]
SetData(s, n, data) == SetBlock(s, PlaceOf(s, n), Block(n, data))

\* mcmoal and its callers: an entry of the unused list is put to use.
Unused(s)   == CHOOSE n \in s.unused : \A k \in s.unused : n <= k
Use(s, n, e) == [s EXCEPT !.unused = @ \ {n}, !.ent[n] = e]
Disuse(s, n) == [s EXCEPT !.unused = @ \union {n}, !.ent[n] = UnusedEntry]

\* A block becomes free: head of the free list.
LinkFree(s, n) == [s EXCEPT !.free = <<n>> \o @]

-----------------------------------------------------------------------------
\* What a block has beyond siz becomes a free block, if it is enough for one
\* and there is a header for it.
mcmsplt(s, n, siz) ==
  LET rest == s.ent[n].siz - siz
      k  == Unused(s)
      p  == PlaceOf(s, n)
      at == <<s.ent[n].at[1], s.ent[n].at[2] + siz>>
      t  == [s EXCEPT !.ent[n].siz = siz,
                      !.heap[p[1]] = InsertAt(@, p[2] + 1, Block(k, Nothing))]
  IN  IF rest < Split \/ s.unused = {} THEN s
      ELSE LinkFree(Use(t, k, Entry({"FREE"}, rest, at, 0)), k)

\* mcmffb: the smallest free blocks that suffice; the first of them is taken.
Fits(s, siz) == {i \in DOMAIN s.free : s.ent[s.free[i]].siz >= siz}
BestFit(s, siz) ==
  s.free[CHOOSE i \in Fits(s, siz) : \A j \in Fits(s, siz) :
           \/ s.ent[s.free[i]].siz < s.ent[s.free[j]].siz
           \/ s.ent[s.free[i]].siz = s.ent[s.free[j]].siz /\ i <= j]

Grab(s, n, siz) ==
  [m |-> [mcmsplt([s EXCEPT !.free = RemoveFirst(@, n)], n, siz)
            EXCEPT !.ent[n].flg = {"NODISC", "LOCK", "PRES"},
                   !.ent[n].locks = 1, !.ent[n].seg = NoSeg],
   n |-> n]

\* Mutant: the chunk is not taken out of the quota.
NewChunk_free(s) ==
  LET k == Unused(s)
      c == Len(s.heap) + 1
  IN  IF s.unused = {} THEN s
      ELSE LinkFree(Use([s EXCEPT !.heap = Append(@, <<Block(k, Nothing)>>)], k,
                        Entry({"FREE"}, Chunk, <<c, 0>>, 0)), k)

\* mcmhalo; without a header for it the chunk is given back, but not the quota.
NewChunk(s) ==
  LET k == Unused(s)
      c == Len(s.heap) + 1
      t == [s EXCEPT !.room = @ - 1]
  IN  IF s.unused = {} THEN t
      ELSE LinkFree(Use([t EXCEPT !.heap = Append(@, <<Block(k, Nothing)>>)], k,
                        Entry({"FREE"}, Chunk, <<c, 0>>, 0)), k)

\* One attempt to allocate; n is NoEntry if there is no room.
mcmalo1(s, siz) ==
  LET t == NewChunk(s)
  IN  IF Fits(s, siz) # {} THEN Grab(s, BestFit(s, siz), siz)
      ELSE IF s.room > 0 /\ Fits(t, siz) # {} THEN Grab(t, BestFit(t, siz), siz)
      ELSE [m |-> IF s.room > 0 THEN t ELSE s, n |-> NoEntry]

-----------------------------------------------------------------------------
\* mcmreloc and mcmconsol on one chunk.  Between locked blocks, what lies above
\* the first free block moves down to it, as far as the last free block goes;
\* the free blocks become one, under the first one's header.
Flush(a) ==
  a.done \o a.moved \o (IF a.hole = NoEntry THEN << >> ELSE <<Block(a.hole, Nothing)>>) \o a.above

\* Mutant: locked blocks are moved like others.
Gather_locked(a, b) ==
  CASE a.m.ent[b.num].flg = {"FREE"} /\ a.hole = NoEntry -> [a EXCEPT !.hole = b.num]
    [] a.m.ent[b.num].flg = {"FREE"} /\ a.hole # NoEntry ->
         [a EXCEPT !.m = Disuse([a.m EXCEPT !.ent[a.hole].siz = @ + a.m.ent[b.num].siz,
                                            !.free = RemoveFirst(@, b.num)], b.num),
                   !.moved = @ \o a.above, !.above = << >>]
    [] OTHER -> IF a.hole = NoEntry THEN [a EXCEPT !.done = Append(@, b)]
                ELSE [a EXCEPT !.above = Append(@, b)]

Gather(a, b) ==
  CASE Has(a.m, b.num, "LOCK") ->
         [m |-> a.m, done |-> Append(Flush(a), b), moved |-> << >>,
          hole |-> NoEntry, above |-> << >>]
    [] Has(a.m, b.num, "FREE") /\ a.hole = NoEntry -> [a EXCEPT !.hole = b.num]
    [] Has(a.m, b.num, "FREE") /\ a.hole # NoEntry ->
         [a EXCEPT !.m = Disuse([a.m EXCEPT !.ent[a.hole].siz = @ + a.m.ent[b.num].siz,
                                            !.free = RemoveFirst(@, b.num)], b.num),
                   !.moved = @ \o a.above, !.above = << >>]
    [] OTHER -> IF a.hole = NoEntry THEN [a EXCEPT !.done = Append(@, b)]
                ELSE [a EXCEPT !.above = Append(@, b)]

\* mcmmove for every block of chunk c.
Readdress(s, c) ==
  [s EXCEPT !.ent =
     [n \in Entries |->
        IF \E b \in ToSet(s.heap[c]) : b.num = n
        THEN [s.ent[n] EXCEPT !.at = Address(s, c, PlaceOf(s, n)[2])] ELSE s.ent[n]]]

Ungathered(s) == [m |-> s, done |-> << >>, moved |-> << >>, hole |-> NoEntry, above |-> << >>]
Collect(s, c) ==
  LET a == FoldLeft(Gather, Ungathered(s), s.heap[c])
  IN  Readdress([a.m EXCEPT !.heap[c] = Flush(a)], c)

UpTo(k) == [i \in 1 .. k |-> i]
mcmgarb(s) == FoldLeft(Collect, s, UpTo(Len(s.heap)))

-----------------------------------------------------------------------------
\* The swap file: segments in the order of their places in the file.
Segment(siz, osz, data) == [siz |-> siz, osz |-> osz, inuse |-> TRUE, data |-> data]
FileSize(s) == Total([i \in DOMAIN s.segs |-> s.segs[i].siz])

\* Segments that are not in use are dropped, the others pack and their objects
\* are told of their new numbers (mcmcswf).
InUse(s) ==
  FoldLeft(LAMBDA kept, i : IF s.segs[i].inuse THEN Append(kept, i) ELSE kept,
           << >>, UpTo(Len(s.segs)))

\* Mutant: the objects keep the old numbers.
mcscompact_silent(s) ==
  LET kept == InUse(s)
  IN  [s EXCEPT !.segs = [j \in 1 .. Len(kept) |->
                            [s.segs[kept[j]] EXCEPT !.siz = s.segs[kept[j]].osz]]]

mcscompact(s) ==
  LET kept == InUse(s)
  IN  [s EXCEPT
        !.segs = [j \in 1 .. Len(kept) |->
                    [s.segs[kept[j]] EXCEPT !.siz = s.segs[kept[j]].osz]],
        !.ent = [n \in Entries |->
                   IF \E j \in DOMAIN kept : kept[j] = s.ent[n].seg
                   THEN [s.ent[n] EXCEPT !.seg = CHOOSE j \in DOMAIN kept : kept[j] = s.ent[n].seg]
                   ELSE s.ent[n]]]

\* mcsout: the smallest segment that will do, or a new one; the file is
\* compacted before the swapper gives up.
mcsout(s, n, siz, data) ==
  LET fits == {i \in DOMAIN s.segs : ~s.segs[i].inuse /\ s.segs[i].siz >= siz}
      best == CHOOSE i \in fits : \A j \in fits :
                \/ s.segs[i].siz < s.segs[j].siz
                \/ s.segs[i].siz = s.segs[j].siz /\ i <= j
      t == IF FileSize(s) + siz > SwapSize THEN mcscompact(s) ELSE s
  IN  IF fits # {}
      THEN [m |-> [s EXCEPT !.segs[best] = Segment(s.segs[best].siz, siz, data),
                            !.ent[n].seg = best],
            ok |-> TRUE]
      ELSE IF FileSize(t) + siz > SwapSize THEN [m |-> t, ok |-> FALSE]
      ELSE [m |-> [t EXCEPT !.segs = Append(@, Segment(siz, siz, data)),
                            !.ent[n].seg = Len(t.segs) + 1],
            ok |-> TRUE]

\* mcsin; the segment may be used for others from then on.
SwapIn(s, n) ==
  LET g == s.ent[n].seg
  IN  [s EXCEPT !.ent[n].seg = NoSeg,
                !.segs[g] = [@ EXCEPT !.inuse = FALSE, !.osz = s.segs[g].siz, !.data = Nothing]]

\* An object is written to the swap file and its block given to a new header k;
\* if the file is full, k is lost.
Tossed(s, n, k, out) ==
  IF ~out.ok THEN [m |-> out.m, tossed |-> FALSE, ok |-> FALSE]
  ELSE [m |-> LinkFree([SetBlock(out.m, PlaceOf(s, n), Block(k, Nothing)) EXCEPT
                          !.ent[k] = Entry({"FREE"}, s.ent[n].siz, s.ent[n].at, 0),
                          !.ent[n].flg = @ \ {"PRES", "LRU"}, !.ent[n].at = Nowhere,
                          !.lru = RemoveFirst(@, n)], k),
        tossed |-> TRUE, ok |-> TRUE]

mcmtoss(s, n) ==
  LET k == Unused(s)
  IN  IF s.unused = {} THEN [m |-> s, tossed |-> FALSE, ok |-> TRUE]
      ELSE Tossed(s, n, k, mcsout(Use(s, k, UnusedEntry), n, s.ent[n].siz, DataOf(s, n)))

\* One turn of the loops of mcmswap.
Visit(a, n, siz, min) ==
  LET add(t) == [m |-> t.m, ok |-> t.ok,
                 tot |-> a.tot + (IF t.tossed THEN a.m.ent[n].siz ELSE 0)]
  IN  IF ~a.ok \/ a.tot >= siz \/ Has(a.m, n, "LOCK") \/ a.m.ent[n].siz < min THEN a
      ELSE add(mcmtoss(a.m, n))

\* First one object that is large enough, the least recently used; then as many
\* as add up to the size.
Pass(a, siz, min) == FoldLeft(LAMBDA b, n : Visit(b, n, siz, min), a, a.m.lru)
mcmswap(s, siz) == Pass(Pass([m |-> s, ok |-> TRUE, tot |-> 0], siz, siz), siz, 0)

\* mcmalo0: try; collect garbage and try; swap and try, until there is nothing
\* to swap.  Every turn tosses something out, so there are at most NumEntries.
Got(g) == [m |-> g.m, n |-> g.n, done |-> TRUE]

\* Mutant: what was tossed out is not collected.
AfterSwap_no_garbage(h) == [m |-> h.m, n |-> h.n, done |-> h.n # NoEntry]

AfterSwap(h) ==
  IF h.n # NoEntry THEN Got(h) ELSE [m |-> mcmgarb(h.m), n |-> NoEntry, done |-> FALSE]

Swapped(sw, siz) ==
  IF ~sw.ok THEN [m |-> sw.m, n |-> NoEntry, done |-> TRUE]
  ELSE IF sw.tot = 0 THEN Got(mcmalo1(sw.m, siz))
  ELSE AfterSwap(mcmalo1(sw.m, siz))

Turn(g, siz) == IF g.n # NoEntry THEN Got(g) ELSE Swapped(mcmswap(g.m, siz), siz)

mcmalo0(s, siz) ==
  FoldLeft(LAMBDA a, k : IF a.done THEN a ELSE Turn(mcmalo1(a.m, siz), siz),
           AfterSwap(mcmalo1(s, siz)), UpTo(NumEntries))

-----------------------------------------------------------------------------
\* mcmuse: to the end of the list, the most recently used.
mcmuse(s, n) == [s EXCEPT !.lru = Append(RemoveFirst(@, n), n), !.ent[n].flg = @ \union {"LRU"}]

\* mcmload: the object takes over the block of the header it was allocated with.
LoadInto(s, n, g) ==
  LET k == g.n
      swapped == Has(g.m, n, "NODISC")
      stored  == IF swapped THEN g.m.segs[g.m.ent[n].seg].data ELSE 0
      data    == IF Has(s, n, "REVRT") THEN 0 ELSE stored
      t == IF swapped THEN SwapIn(g.m, n) ELSE g.m
      e == [t.ent[n] EXCEPT !.flg = (@ \ {"REVRT"}) \union {"PRES", "LOCK", "NODISC"},
                            !.siz = t.ent[k].siz, !.at = t.ent[k].at, !.locks = 1]
  IN  IF k = NoEntry THEN [m |-> g.m, ok |-> FALSE]
      ELSE [m |-> Disuse([SetBlock(t, PlaceOf(t, k), Block(n, data)) EXCEPT !.ent[n] = e], k),
            ok |-> TRUE]

mcmload(s, n) == LoadInto(s, n, mcmalo0(s, s.ent[n].siz))

mcmlck(s, n) ==
  IF Has(s, n, "PRES")
  THEN [m |-> [s EXCEPT !.ent[n].flg = @ \union {"LOCK"}, !.ent[n].locks = @ + 1], ok |-> TRUE]
  ELSE mcmload(s, n)

mcmunlck(s, n) ==
  IF s.ent[n].locks > 1 THEN [s EXCEPT !.ent[n].locks = @ - 1]
  ELSE mcmuse([s EXCEPT !.ent[n].locks = 0, !.ent[n].flg = @ \ {"LOCK"}], n)

\* Mutant: the object is not taken out of the list of those in memory.
mcmgfre_listed(s, n) == LinkFree([s EXCEPT !.ent[n].flg = {"FREE"}], n)

\* The block is put in the free list, whether the object is in memory or not.
mcmgfre(s, n) ==
  LinkFree([s EXCEPT !.ent[n].flg = {"FREE"}, !.lru = RemoveFirst(@, n), !.ent[n].seg = NoSeg], n)

\* mcmrealo of a locked object: give up the end of its block, annex the free
\* block behind it, or move, which only one holder of a lock may cause.
NextFree(s, n) ==
  LET p == PlaceOf(s, n)
      k == s.heap[p[1]][p[2] + 1].num
  IN  IF p[2] < Len(s.heap[p[1]]) /\ Has(s, k, "FREE") THEN k ELSE NoEntry

Annex(s, n, k, siz) ==
  LET p == PlaceOf(s, n)
      t == [s EXCEPT !.ent[n].siz = @ + s.ent[k].siz, !.free = RemoveFirst(@, k),
                     !.heap[p[1]] = RemoveAt(@, p[2] + 1)]
  IN  mcmsplt(Disuse(t, k), n, siz)

\* The new block gets the object's header, the old one the header k.
MoveTo(s, n, k) ==
  LET old == PlaceOf(s, n)
      new == PlaceOf(s, k)
      t == SetBlock(SetBlock(s, new, Block(n, DataOf(s, n))), old, Block(k, Nothing))
  IN  LinkFree([t EXCEPT !.ent[n].siz = s.ent[k].siz, !.ent[n].at = s.ent[k].at,
                         !.ent[k] = Entry({"FREE"}, s.ent[n].siz, s.ent[n].at, 0)], k)

Moved(n, g) ==
  IF g.n = NoEntry THEN [m |-> g.m, ok |-> FALSE] ELSE [m |-> MoveTo(g.m, n, g.n), ok |-> TRUE]

Resize(s, n, siz) ==
  LET k == NextFree(s, n)
      fits == k # NoEntry /\ s.ent[n].siz + s.ent[k].siz >= siz
  IN  IF siz < s.ent[n].siz THEN [m |-> mcmsplt(s, n, siz), ok |-> TRUE]
      ELSE IF fits THEN [m |-> Annex(s, n, k, siz), ok |-> TRUE]
      ELSE IF s.ent[n].locks # 1 THEN [m |-> s, ok |-> FALSE]
      ELSE Moved(n, mcmalo0(s, siz))

-----------------------------------------------------------------------------
\* mcmini, and mcmrsrv for the objects of the game file.
mcmini ==
  LET place == CHOOSE f \in [Statics -> 2 .. Cardinality(Statics) + 1] : IsInjective(f)
  IN  [m   |-> [ent |-> [n \in Entries |->
                           IF n = 1 THEN Entry({"FREE"}, Chunk, <<1, 0>>, 0)
                           ELSE IF n \in Range(place) THEN Entry({}, StaticSize, Nowhere, 0)
                           ELSE UnusedEntry],
                heap |-> <<<<Block(1, Nothing)>>>>, free |-> <<1>>,
                unused |-> Entries \ ({1} \union Range(place)),
                lru |-> << >>, segs |-> << >>, room |-> MaxChunks - 1],
       c2g |-> [c \in Clients |-> IF c \in Statics THEN place[c] ELSE NoEntry]]

Init ==
  /\ m = mcmini.m
  /\ c2g = mcmini.c2g
  /\ content = [c \in Clients |-> 0]

\* Locks the game holds; the bound stands for how deep its code nests.
Locks == Cardinality(UNION {{n} \X (1 .. m.ent[n].locks) : n \in Entries})

\* mcmalo: a new object, locked, which the game fills.
Alloc(c, siz) ==
  /\ c2g[c] = NoEntry /\ Locks < MaxLocks
  /\ \E g \in {mcmalo0(m, siz)} :
       \/ /\ g.n = NoEntry
          /\ m' = g.m
          /\ UNCHANGED <<c2g, content>>
       \/ /\ g.n # NoEntry
          /\ m' = SetData(g.m, g.n, 0)
          /\ c2g' = [c2g EXCEPT ![c] = g.n]
          /\ content' = [content EXCEPT ![c] = 0]

Lock(c) ==
  LET n == c2g[c]
      r == mcmlck(m, n)
  IN  /\ n # NoEntry /\ Locks < MaxLocks
      /\ m' = r.m
      /\ UNCHANGED <<c2g, content>>

Locked(c) == c2g[c] # NoEntry /\ Has(m, c2g[c], "LOCK")

Unlock(c) ==
  /\ Locked(c)
  /\ m' = mcmunlck(m, c2g[c])
  /\ UNCHANGED <<c2g, content>>

\* The game changes an object it has locked and says so (mcmtch).
Write(c) ==
  LET data == 1 - content[c]
  IN  /\ Locked(c)
      /\ m' = SetData(m, c2g[c], data)
      /\ content' = [content EXCEPT ![c] = data]
      /\ UNCHANGED c2g

\* mcmrealo; the lock it takes itself stays, unless it fails.
Realloc(c, siz) ==
  LET n == c2g[c]
      local == ~Has(m, n, "LOCK")
      end(r) == IF r.ok \/ ~local THEN r.m ELSE mcmunlck(r.m, n)
  IN  /\ n # NoEntry /\ (local => Locks < MaxLocks)
      /\ \E l \in {IF local THEN mcmlck(m, n) ELSE [m |-> m, ok |-> TRUE]} :
           m' = IF l.ok THEN end(Resize(l.m, n, siz)) ELSE l.m
      /\ UNCHANGED <<c2g, content>>

\* mcmfre; a locked object is refused (ERR_LCKFRE).  Nothing asks whether the
\* object is in memory, as run_delete has just made sure but vocrevert and
\* vocdundo have not.
Free(c) ==
  /\ c2g[c] # NoEntry
  /\ m.ent[c2g[c]].locks = 0
  /\ Has(m, c2g[c], "PRES") \/ FreeAbsent
  /\ m' = mcmgfre(m, c2g[c])
  /\ c2g' = [c2g EXCEPT ![c] = NoEntry]
  /\ content' = [content EXCEPT ![c] = 0]

\* mcmrevert: at once, or as soon as the object is loaded.  The call-back
\* (objrevert) locks the object and unlocks it again.
Revert(c) ==
  LET n == c2g[c]
      t == SetData(m, n, 0)
  IN  /\ IF Has(m, n, "PRES")
         THEN m' = IF m.ent[n].locks = 0 THEN mcmuse(t, n) ELSE t
         ELSE m' = [m EXCEPT !.ent[n].flg = @ \union {"REVRT"}]
      /\ content' = [content EXCEPT ![c] = 0]
      /\ UNCHANGED c2g

Next ==
  \/ \E c \in Clients :
       \/ Lock(c)
       \/ Unlock(c)
       \/ Write(c)
       \/ \E siz \in Sizes : Realloc(c, siz)
  \/ \E c \in Dynamics :
       \/ \E siz \in Sizes : Alloc(c, siz)
       \/ Free(c)
  \/ \E c \in Statics : Revert(c)

Spec == Init /\ [][Next]_vars

-----------------------------------------------------------------------------
TypeOK ==
  /\ m.ent \in [Entries -> [flg : SUBSET Flags, siz : 0 .. Chunk, at : (0 .. MaxChunks) \X (0 .. Chunk),
                            locks : 0 .. MaxLocks, seg : 0 .. Len(m.segs)]]
  /\ m.heap \in Seq(Seq([num : Entries, data : Versions \union {Nothing}]))
  /\ Len(m.heap) <= MaxChunks
  /\ m.free \in Seq(Entries) /\ m.lru \in Seq(Entries) /\ m.unused \subseteq Entries
  /\ m.segs \in Seq([siz : 1 .. Chunk, osz : 1 .. Chunk,
                     inuse : BOOLEAN, data : Versions \union {Nothing}])
  /\ FileSize(m) <= SwapSize
  /\ m.room \in 0 .. MaxChunks - 1
  /\ c2g \in [Clients -> Entries \union {NoEntry}]
  /\ content \in [Clients -> Versions]

\* Heap and cache entries agree (the assertions of mcmrealo, mcmffh, mcmreloc,
\* mcmconsol and mcmgarb): the blocks of a chunk fill it, each is where its
\* entry says, and what is present or free is in exactly one place.  Splitting,
\* annexing, tossing out and collecting garbage all rewrite both sides.
NumsIn(blocks) == [i \in DOMAIN blocks |-> blocks[i].num]
HeapAgrees ==
  /\ \A c \in DOMAIN m.heap : SizeOfBlocks(m, m.heap[c]) = Chunk
  /\ \A p \in Places(m) :
       LET n == m.heap[p[1]][p[2]].num
       IN  /\ m.ent[n].at = Address(m, p[1], p[2])
           /\ PlaceOf(m, n) = p
  /\ {n \in Entries : Has(m, n, "PRES") \/ Has(m, n, "FREE")}
       = UNION {ToSet(NumsIn(m.heap[c])) : c \in DOMAIN m.heap}

\* The lists of mcm.h: the free list has the free blocks, the LRU list objects
\* in memory and all of them that are not locked, and what is unused belongs to
\* no object and no block.  An object in none of them could never be tossed
\* out, one in two would be handed out twice.
ListsExact ==
  /\ IsInjective(m.free) /\ IsInjective(m.lru)
  /\ ToSet(m.free) = {n \in Entries : Has(m, n, "FREE")}
  /\ ToSet(m.lru) = {n \in Entries : Has(m, n, "LRU")}
  /\ \A n \in Entries :
       /\ Has(m, n, "PRES") /\ ~Has(m, n, "LOCK") => Has(m, n, "LRU")
       /\ Has(m, n, "LRU") => Has(m, n, "PRES")
       /\ Has(m, n, "LOCK") <=> m.ent[n].locks > 0
       /\ n \in m.unused => m.ent[n].flg = {} /\ n \notin Range(c2g)

\* Both at once: no step of the cache manager leaves the heap, the entries and
\* the lists with different opinions of a block.
CacheStructure == HeapAgrees /\ ListsExact

\* An object holds what the game last gave it, wherever it was moved, tossed
\* out and loaded from since.
Stored(s, n) ==
  IF Has(s, n, "PRES") THEN DataOf(s, n)
  ELSE IF Has(s, n, "REVRT") \/ ~Has(s, n, "NODISC") THEN 0
  ELSE IF s.ent[n].seg \in DOMAIN s.segs THEN s.segs[s.ent[n].seg].data ELSE Nothing
ContentsKept == \A c \in Clients : c2g[c] # NoEntry => Stored(m, c2g[c]) = content[c]

\* mcm.h on mcmlck: "The object remains fixed in memory at the returned
\* location until unlocked."  Only its own reallocation moves it, and only
\* when nobody else holds a lock.
LockedStay ==
  [][\A c \in Clients :
       LET n == c2g[c]
       IN  n # NoEntry /\ n = c2g'[c] /\ Has(m, n, "LOCK") /\ m'.ent[n].at # m.ent[n].at
           => m.ent[n].locks = 1 /\ \E siz \in Sizes : Realloc(c, siz)]_vars

\* A request fails only when nothing can be done: unless headers ran out or the
\* swap file is full, no gap between locked blocks would hold it.
SwapFull(s) == \E n \in ToSet(s.lru) : ~Has(s, n, "LOCK") /\ FileSize(s) + s.ent[n].siz > SwapSize
Gaps(s, c) == {w \in (1 .. Len(s.heap[c])) \X (1 .. Len(s.heap[c])) :
                 \A k \in w[1] .. w[2] : ~Has(s, s.heap[c][k].num, "LOCK")}
AllocComplete ==
  \A siz \in Sizes :
    LET hopeless(s) == \A c \in DOMAIN s.heap : \A w \in Gaps(s, c) :
                         SizeOfBlocks(s, SubSeq(s.heap[c], w[1], w[2])) < siz
    IN  \A g \in {mcmalo0(m, siz)} :
          g.n = NoEntry /\ g.m.unused # {} /\ ~SwapFull(g.m) => hopeless(g.m)

\* mcm.h on the free list: "These refer to blocks in the heap that are not used
\* by any client objects."  A free block without a header of its own in the heap
\* is memory that has become somebody else's.
FreeBlocksUnused ==
  \A i \in DOMAIN m.free : \E p \in Places(m) : m.heap[p[1]][p[2]].num = m.free[i]
=============================================================================
