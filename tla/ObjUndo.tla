------------------------------- MODULE ObjUndo -------------------------------
(***************************************************************************)
(* Undo in the TADS 2 run time (tads2/obj.c): records of different sizes   *)
(* in a circular buffer, each linked to the one before it.  The run time   *)
(* writes them for properties, and, as client records (tads2/execmd.c),    *)
(* for objects that are created or deleted and for fuses.                  *)
(*                                                                         *)
(* Sizes are in units of the record header.  The code never clears what it *)
(* releases; here a released unit is overwritten with Freed, so that a     *)
(* reader of stale data shows.  objundo is modelled record by record;      *)
(* nothing else runs until it has ended.  saved is a history variable:     *)
(* what the markers that are still in the buffer promise to bring back.    *)
(***************************************************************************)
EXTENDS Integers, SequencesExt

CONSTANTS
  BufSize,     \* objucxsiz
  Objects,
  Originals,   \* objects whose property is in the game file
  Dynamic,     \* objects the game creates and deletes
  Vals,        \* values of the property, one per object
  DataSize,    \* their sizes
  Fuses,       \* the slots of voccxfus, in their order
  People,      \* those that may be "Me"
  MaxTime,     \* bound: turns a fuse is set for
  None         \* no value, no time: the slot is free

Header  == 1
Times   == 0 .. MaxTime
Offsets == 0 .. (BufSize - 1)

ASSUME BufferAssumption ==
  /\ BufSize \in Nat /\ MaxTime \in Nat
  /\ DataSize \in [Vals -> Nat]
  /\ \A v \in Vals : 3 + DataSize[v] <= BufSize
  /\ BufSize >= 4
ASSUME ObjectAssumption ==
  /\ Originals \subseteq Objects /\ Dynamic \subseteq Objects \ Originals
  /\ People # {} /\ None \notin Vals /\ None \notin Times \union Offsets
  /\ Fuses \in Seq(ToSet(Fuses)) /\ IsInjective(Fuses)

VARIABLES
  undo,   \* the undo context
  game,   \* what undo brings back
  sav,    \* objundo: the marker to go back to; None outside its loop
  saved   \* history: marker and game of each savepoint, oldest first

vars == <<undo, game, sav, saved>>

Slots == ToSet(Fuses)

\* A unit of the buffer holds the header of a record and, for the model, all
\* of the record; or something inside a record; or nothing any more.
Unit(rec, prv) == [rec |-> rec, prv |-> prv]
Body  == Unit([cmd |-> "body"], 0)
Freed == Unit([cmd |-> "freed"], 0)

\* val: the mutable value; ignored: original values marked PRPFIGN.
NewGame ==
  [val |-> [o \in Objects |-> None], ignored |-> {},
   live |-> Objects \ Dynamic, fuse |-> [f \in Slots |-> None],
   me |-> CHOOSE p \in People : TRUE]

Games ==
  [val : [Objects -> Vals \union {None}], ignored : SUBSET Originals,
   live : SUBSET Objects, fuse : [Slots -> Times \union {None}], me : People]

NoUndo == [head |-> 0, tail |-> 0, prv |-> 0, top |-> 0,
           buf |-> [i \in Offsets |-> Freed]]

Empty(u) == u.prv = u.head

-----------------------------------------------------------------------------
\* Records, without their headers.
Property(cmd, o, val) == [cmd |-> cmd, obj |-> o, val |-> val]
Marker                == [cmd |-> "SAV"]
NewObject(o)          == [cmd |-> "NEWOBJ", obj |-> o]
DeletedObject(o, val) == [cmd |-> "DELOBJ", obj |-> o, val |-> val]
FuseSlot(f, time)     == [cmd |-> "FUSE", slot |-> f, time |-> time]
FormerMe(p)           == [cmd |-> "SETME", me |-> p]

DataOf(val) == IF val = None THEN 0 ELSE DataSize[val]

\* What the writers of the records reserve.
WrittenSize(rec) ==
  Header + CASE rec.cmd \in {"ADD", "OVR", "NEWOBJ", "SETME"} -> 1
             [] rec.cmd = "CHG"    -> 1 + DataOf(rec.val)
             [] rec.cmd = "DELOBJ" -> 2 + DataOf(rec.val)
             [] rec.cmd = "FUSE"   -> 2
             [] OTHER              -> 0

\* What objutadv and vocdusz find a record's size to be.  vocdusz does not know
\* a change of "Me"; and what follows such a record's header, taken for a
\* record, has no known command either.
FoundSize(rec) ==
  Header + CASE rec.cmd \in {"ADD", "OVR", "NEWOBJ"} -> 1
             [] rec.cmd = "CHG"    -> 1 + DataOf(rec.val)
             [] rec.cmd = "DELOBJ" -> 2 + DataOf(rec.val)
             [] rec.cmd = "FUSE"   -> 2
             [] OTHER              -> 0

\* The units of the buffer from a to b - 1, released.
Release(u, a, b) == [i \in Offsets |-> IF i \in a .. (b - 1) THEN Freed ELSE u.buf[i]]

-----------------------------------------------------------------------------
\* Mutant: the last record before the wrap is not found, its size is used.
objutadv_no_top(u) ==
  IF u.tail = u.prv THEN NoUndo
  ELSE LET next == u.tail + FoundSize(u.buf[u.tail].rec)
       IN  [u EXCEPT !.buf = Release(u, u.tail, next), !.tail = next]

\* The oldest record is dropped; if it is the only one, the buffer is flushed.
objutadv(u) ==
  IF u.tail = u.prv THEN NoUndo
  ELSE IF u.tail = u.top
       THEN [u EXCEPT !.buf = Release(u, u.tail, BufSize), !.tail = 0]
  ELSE LET next == u.tail + FoundSize(u.buf[u.tail].rec)
       IN  [u EXCEPT !.buf = Release(u, u.tail, next), !.tail = next]

\* Mutant: top keeps the highest position ever.
wrap_keep_top(u) == [u EXCEPT !.head = 0]

wrap(u) == [u EXCEPT !.top = u.prv, !.head = 0]

\* One turn of the loop in objures.
Advance(u, size) ==
  LET v == objutadv(u)
      fits == BufSize - v.head >= size
  IN  IF v.tail > v.head THEN [undo |-> v, done |-> v.tail - v.head >= size]
      ELSE [undo |-> IF fits THEN v ELSE wrap(v), done |-> fits]

\* Every turn drops a record, so the loop ends within BufSize turns.
DropUntil(u, size) ==
  LET turn[n \in 0 .. BufSize] ==
        IF n = 0 THEN [undo |-> u, done |-> u.tail - u.head >= size]
        ELSE LET last == turn[n - 1]
             IN  IF last.done THEN last ELSE Advance(last.undo, size)
  IN  turn[BufSize].undo

\* Mutant: the last unit of the buffer is never used.
MakeRoom_last_unit(u, size) ==
  IF Empty(u) THEN NoUndo
  ELSE IF u.tail >= u.head THEN DropUntil(u, size)
  ELSE IF BufSize - u.head > size THEN u
  ELSE DropUntil(wrap(u), size)

MakeRoom(u, size) ==
  IF Empty(u) THEN NoUndo
  ELSE IF u.tail >= u.head THEN DropUntil(u, size)
  ELSE IF BufSize - u.head >= size THEN u
  ELSE DropUntil(wrap(u), size)

Higher(a, b) == IF a > b THEN a ELSE b

\* objures, and the copying of its callers.
Reserve(u, rec, size) ==
  LET r == MakeRoom(u, size)
  IN  [head |-> r.head + size, tail |-> r.tail, prv |-> r.head,
       top  |-> Higher(r.top, r.head),
       buf  |-> [i \in Offsets |->
                   IF i = r.head THEN Unit(rec, r.prv)
                   ELSE IF i \in r.head .. (r.head + size - 1) THEN Body
                   ELSE r.buf[i]]]

objures(u, rec) == Reserve(u, rec, WrittenSize(rec))

-----------------------------------------------------------------------------
IsMarker(u, i) == u.buf[i].rec.cmd = "SAV"

\* Where the loops of objuok and objundo end: at the newest marker, or at the
\* tail; there are no more than BufSize records.
Search(u) ==
  LET at[n \in 0 .. BufSize] ==
        IF n = 0 THEN u.prv
        ELSE LET i == at[n - 1]
             IN  IF IsMarker(u, i) \/ i = u.tail THEN i ELSE u.buf[i].prv
  IN  at[BufSize]

objuok(u) == ~Empty(u) /\ IsMarker(u, Search(u))

\* A property or a fuse is recorded only if there is a savepoint.
Record(u, rec) == IF objuok(u) THEN objures(u, rec) ELSE u

\* The buffer after obj1undo.
Pop(u) ==
  [head |-> u.prv, tail |-> u.tail,
   prv  |-> IF u.prv = u.tail THEN u.prv ELSE u.buf[u.prv].prv,
   top  |-> u.top,
   buf  |-> Release(u, u.prv, u.prv + WrittenSize(u.buf[u.prv].rec))]

\* An original value is never removed.
objdelp(g, o) ==
  IF g.val[o] # None THEN [g EXCEPT !.val[o] = None]
  ELSE IF o \in Originals THEN [g EXCEPT !.ignored = @ \union {o}]
  ELSE g

\* Mutant: the original value stays ignored.
Revert_ignored(g, rec) ==
  CASE rec.cmd \in {"ADD", "OVR"} -> objdelp(g, rec.obj)
    [] rec.cmd = "CHG"    -> [g EXCEPT !.val[rec.obj] = rec.val]
    [] rec.cmd = "NEWOBJ" -> [g EXCEPT !.live = @ \ {rec.obj}, !.val[rec.obj] = None]
    [] rec.cmd = "DELOBJ" -> [g EXCEPT !.live = @ \union {rec.obj}, !.val[rec.obj] = rec.val]
    [] rec.cmd = "FUSE"   -> [g EXCEPT !.fuse[rec.slot] = rec.time]
    [] rec.cmd = "SETME"  -> [g EXCEPT !.me = rec.me]
    [] OTHER              -> g

\* What obj1undo and vocdundo do to the game.
Revert(g, rec) ==
  CASE rec.cmd = "ADD"    -> objdelp(g, rec.obj)
    [] rec.cmd = "OVR"    -> [objdelp(g, rec.obj) EXCEPT !.ignored = @ \ {rec.obj}]
    [] rec.cmd = "CHG"    -> [g EXCEPT !.val[rec.obj] = rec.val]
    [] rec.cmd = "NEWOBJ" -> [g EXCEPT !.live = @ \ {rec.obj}, !.val[rec.obj] = None]
    [] rec.cmd = "DELOBJ" -> [g EXCEPT !.live = @ \union {rec.obj}, !.val[rec.obj] = rec.val]
    [] rec.cmd = "FUSE"   -> [g EXCEPT !.fuse[rec.slot] = rec.time]
    [] rec.cmd = "SETME"  -> [g EXCEPT !.me = rec.me]
    [] OTHER              -> g

-----------------------------------------------------------------------------
Init == undo = NoUndo /\ game = NewGame /\ sav = None /\ saved = << >>

\* Nothing runs beside the loop of objundo.
Idle == sav = None

Markers(u) == {i \in Offsets : IsMarker(u, i)}

\* The savepoints whose markers are left; those that are lost are the oldest.
Remaining(left) ==
  LET lost == {i \in DOMAIN saved : saved[i].at \notin left}
  IN  SubSeq(saved, Cardinality(lost) + 1, Len(saved))

\* The game goes on in g with undo context u.
Proceed(u, g) == undo' = u /\ game' = g /\ saved' = Remaining(Markers(u)) /\ sav' = None

\* objusav, before each command.
objusav ==
  LET u == objures(undo, Marker)
  IN  /\ Idle
      /\ undo' = u
      /\ saved' = Append(Remaining(Markers(u) \ {u.prv}), [at |-> u.prv, game |-> game])
      /\ UNCHANGED <<game, sav>>

\* Mutant: the new value is stored before the record is made.
objsetp_late(o, v) ==
  LET g == [game EXCEPT !.val[o] = v]
  IN  /\ Idle /\ o \in game.live
      /\ Proceed(Record(undo, Property("CHG", o, g.val[o])), g)

\* objsetp: what there was before decides the record.  An original value is
\* overridden, never changed.
objsetp(o, v) ==
  LET old  == game.val[o]
      over == old = None /\ o \in Originals
      cmd  == IF over THEN "OVR" ELSE IF old = None THEN "ADD" ELSE "CHG"
  IN  /\ Idle /\ o \in game.live
      /\ Proceed(Record(undo, Property(cmd, o, old)),
                 [game EXCEPT !.val[o] = v,
                              !.ignored = IF over THEN @ \union {o} ELSE @])

\* run_new: recorded whether there is a savepoint or not.
run_new(o) ==
  /\ Idle /\ o \in Dynamic \ game.live
  /\ Proceed(objures(undo, NewObject(o)), [game EXCEPT !.live = @ \union {o}])

\* run_delete
run_delete(o) ==
  /\ Idle /\ o \in Dynamic \intersect game.live
  /\ Proceed(objures(undo, DeletedObject(o, game.val[o])),
             [game EXCEPT !.live = @ \ {o}, !.val[o] = None])

SaveFuse(u, f) == Record(u, FuseSlot(f, game.fuse[f]))

\* vocsetfd: the first free slot.
vocsetfd(time) ==
  \E i \in DOMAIN Fuses :
    /\ Idle /\ game.fuse[Fuses[i]] = None
    /\ \A j \in 1 .. (i - 1) : game.fuse[Fuses[j]] # None
    /\ Proceed(SaveFuse(undo, Fuses[i]), [game EXCEPT !.fuse[Fuses[i]] = time])

\* vocremfd, and exefuse for a fuse that has burned down.
vocremfd(f) ==
  /\ Idle /\ game.fuse[f] # None
  /\ Proceed(SaveFuse(undo, f), [game EXCEPT !.fuse[f] = None])

\* vocturn, for one turn: every running fuse is recorded, then burns down.
vocturn ==
  LET burn == {f \in Slots : game.fuse[f] \notin {None, 0}}
      save(u, f) == IF f \in burn THEN SaveFuse(u, f) ELSE u
      turn[i \in 0 .. Len(Fuses)] ==
        IF i = 0 THEN undo ELSE save(turn[i - 1], Fuses[i])
  IN  /\ Idle /\ burn # {}
      /\ Proceed(turn[Len(Fuses)],
                 [game EXCEPT !.fuse = [f \in Slots |-> IF f \in burn THEN @[f] - 1 ELSE @[f]]])

\* voc_set_me
voc_set_me(p) ==
  /\ Idle
  /\ Proceed(Record(undo, FormerMe(game.me)), [game EXCEPT !.me = p])

\* bifres: objulose, vocrevert and vocdmnclr.  bifrso differs in the state it
\* comes to.
Restart == Idle /\ game # NewGame /\ Proceed(NoUndo, NewGame)

\* objundo, from bifund or after an interrupt; without a marker it signals an
\* error and nothing is undone.
objundo ==
  /\ Idle /\ objuok(undo)
  /\ sav' = Search(undo)
  /\ UNCHANGED <<undo, game, saved>>

obj1undo ==
  LET u == Pop(undo)
  IN  /\ ~Idle
      /\ undo' = u
      /\ saved' = IF IsMarker(undo, undo.prv) THEN Front(saved) ELSE saved
      /\ game' = Revert(game, undo.buf[undo.prv].rec)
      /\ sav'  = IF u.head = sav THEN None ELSE sav

Next ==
  \/ objusav
  \/ \E o \in Objects, v \in Vals : objsetp(o, v)
  \/ \E o \in Dynamic : run_new(o) \/ run_delete(o)
  \/ \E time \in Times : vocsetfd(time)
  \/ \E f \in Slots : vocremfd(f)
  \/ vocturn
  \/ Restart
  \/ objundo
  \/ obj1undo

Spec == Init /\ [][Next]_vars /\ WF_vars(obj1undo)

\* Games that change "Me": the size of that record breaks the buffer.
MeNext == Next \/ \E p \in People : voc_set_me(p)
MeSpec == Init /\ [][MeNext]_vars /\ WF_vars(obj1undo)

-----------------------------------------------------------------------------
\* The records in the buffer, the newest first, as the back links tell.
Walk(u) ==
  LET back[n \in 0 .. BufSize] ==
        IF n = 0 THEN <<u.prv>>
        ELSE LET s == back[n - 1]
             IN  IF Last(s) = u.tail THEN s ELSE Append(s, u.buf[Last(s)].prv)
  IN  IF Empty(u) THEN << >> ELSE back[BufSize]

Units(u, i) == i .. (i + WrittenSize(u.buf[i].rec) - 1)

\* The types of what the machine keeps; the buffer is left to BufferTiled.
TypeOK ==
  /\ undo.head \in 0 .. BufSize
  /\ {undo.tail, undo.prv, undo.top} \subseteq Offsets
  /\ game \in Games
  /\ sav \in Offsets \union {None}
  /\ \A i \in DOMAIN saved : saved[i].at \in Offsets /\ saved[i].game \in Games

\* obj.h says of the buffer: the tail points to the oldest record that is still
\* in it.
TailIsOldest == Empty(undo) \/ Last(Walk(undo)) = undo.tail

\* obj.h says of the buffer: the previous head points to the newest record,
\* the back links lead from there to the tail.  The records lie in the buffer one by one,
\* nothing else is in use, and the head has free space behind it.
BufferTiled ==
  LET chain == Walk(undo)
  IN  /\ \A n \in DOMAIN chain :
           /\ undo.buf[chain[n]] \notin {Body, Freed}
           /\ Units(undo, chain[n]) \subseteq Offsets
           /\ \A i \in Units(undo, chain[n]) : i # chain[n] => undo.buf[i] = Body
           /\ \A m \in 1 .. (n - 1) :
                Units(undo, chain[m]) \intersect Units(undo, chain[n]) = {}
      /\ TailIsOldest
      /\ \A i \in Offsets : undo.buf[i] # Freed =>
           \E n \in DOMAIN chain : i \in Units(undo, chain[n])

\* The game once the n newest records are undone.
Rewound(chain, n) ==
  LET after[k \in 0 .. n] ==
        IF k = 0 THEN game ELSE Revert(after[k - 1], undo.buf[chain[k]].rec)
  IN  after[n]

\* Every savepoint whose marker is in the buffer can be brought back exactly,
\* whatever was dropped, wrapped, created, deleted, overridden or burned down
\* since: either all operations since a savepoint are undone, or none.
SavedStatesRecoverable ==
  LET chain == Walk(undo)
  IN  \A i \in DOMAIN saved :
        \E n \in DOMAIN chain :
          chain[n] = saved[i].at /\ Rewound(chain, n - 1) = saved[i].game

\* Records are given up for want of space only: when the oldest record goes
\* for a single new one, the units between the head and the tail, or the end of
\* the buffer, did not suffice for it; nor, before a wrap, those below the tail.
OnlyAsNecessary ==
  [][ (Idle /\ game'.fuse = game.fuse /\ ~Empty(undo) /\ undo' # NoUndo /\ undo.tail # undo'.tail) =>
        LET size == undo'.head - undo'.prv
        IN  IF undo.tail < undo.head
            THEN BufSize - undo.head < size /\ undo.tail < size
            ELSE undo.tail - undo.head < size ]_vars

-----------------------------------------------------------------------------
\* What the user is promised: the markers form a history of game states.
ThingState(g) ==
  [t \in Objects \union Slots |->
     IF t \in Slots THEN <<"time", g.fuse[t]>>
     ELSE IF t \notin g.live THEN <<"gone">>
     ELSE <<"value", g.val[t], t \in g.ignored>>]

History ==
  INSTANCE UndoHistory WITH
    Objects <- Objects \union Slots,
    None    <- <<"gone">>,
    state   <- ThingState(game),
    history <- [i \in 1 .. Len(saved) |-> ThingState(saved[i].game)],
    undoing <- ~Idle

UndoHistorySpec == History!Spec
=============================================================================
