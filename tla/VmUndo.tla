------------------------------- MODULE VmUndo -------------------------------
(***************************************************************************)
(* Undo in the TADS 3 VM: the undo manager (UndoRing, tads3/vmundo.cpp)    *)
(* together with the objects that write and apply its records, T3 objects  *)
(* (CVmObjTads, tads3/vmtobj.cpp), and the object table's undo flags       *)
(* (tads3/vmobj.cpp).                                                      *)
(*                                                                         *)
(* The loop of undo_to_savept is modelled record by record, so that what   *)
(* apply_undo asserts can be stated of each record; nothing else runs      *)
(* until it has ended.  saved is a history variable: what each savepoint   *)
(* that is still held promises to bring back.                              *)
(***************************************************************************)
EXTENDS UndoRing, FiniteSets

CONSTANTS
  ImageObjects,      \* objects of the image file
  DynamicObjects,    \* objects the program may create
  TransientObjects,  \* those of them that are created transient
  Props, Vals,
  ImageProps,        \* the properties image objects are loaded with, in the
                     \* order of prop_entry_arr
  ImageVal,          \* their value
  Absent,            \* no entry for the property
  EmptyNew,          \* VM_EMPTY, intval 0: the property was added
  EmptyMod,          \* VM_EMPTY, intval 1: VMTO_PROP_MOD was newly set
  Int1,              \* int(1): VMTO_OBJ_MOD was newly set
  InvalidProp        \* VM_INVALID_PROP

Objects == ImageObjects \union DynamicObjects
Empties == {EmptyNew, EmptyMod}

ASSUME ObjectAssumption ==
  /\ ImageObjects \intersect DynamicObjects = {}
  /\ TransientObjects \subseteq DynamicObjects
ASSUME ValueAssumption ==
  /\ ImageVal \in Vals
  /\ {Absent, Int1} \intersect (Vals \union Empties) = {}
  /\ Vals \intersect Empties = {}
  /\ EmptyNew # EmptyMod /\ Absent # Int1
  /\ InvalidProp \notin Props
ASSUME ImageAssumption == ImageProps \in Seq(Props)

VARIABLES
  undo,       \* G_undo
  live,       \* object table entries that are not free
  in_undo,    \* entries with in_undo_
  obj_mod,    \* objects with VMTO_OBJ_MOD
  entry,      \* their property entries: value, VMTO_PROP_MOD, VMTO_PROP_UNDO
  entry_arr,  \* the order of the entries in prop_entry_arr
  meta,       \* the loop variable of undo_to_savept, Null outside the loop
  saved       \* history: link and image of each savepoint, oldest first

heap == <<live, in_undo, obj_mod, entry, entry_arr>>
vars == <<undo, live, in_undo, obj_mod, entry, entry_arr, meta, saved>>

Entry(val, mod, flag) == [val |-> val, mod |-> mod, undo |-> flag]
NoEntry == Entry(Absent, FALSE, FALSE)

UndoRecord ==
  [obj : Objects, prop : Props, oldval : Vals \union Empties]
    \union [obj : Objects, prop : {InvalidProp}, oldval : {Int1}]

\* The part of an object an undo must bring back.
Image(o) ==
  [vals  |-> [p \in Props |-> [val |-> entry[o][p].val, mod |-> entry[o][p].mod]],
   order |-> entry_arr[o],
   mod   |-> o \in obj_mod]

NoObject == [none |-> TRUE]

HeapImage ==
  [o \in Objects |-> IF o \in live \ TransientObjects THEN Image(o) ELSE NoObject]

-----------------------------------------------------------------------------
ImageEntries ==
  [p \in Props |-> IF \E i \in DOMAIN ImageProps : ImageProps[i] = p
                   THEN Entry(ImageVal, FALSE, FALSE) ELSE NoEntry]

Init ==
  /\ undo = NewUndo
  /\ live = ImageObjects
  /\ in_undo = {}
  /\ obj_mod = {}
  /\ entry = [o \in Objects |->
                IF o \in ImageObjects THEN ImageEntries ELSE [p \in Props |-> NoEntry]]
  /\ entry_arr = [o \in Objects |-> IF o \in ImageObjects THEN ImageProps ELSE << >>]
  /\ meta = Null
  /\ saved = << >>

-----------------------------------------------------------------------------
Idle == meta = Null

is_in_undo(o) == o \in in_undo /\ o \notin TransientObjects

CreateObject(o) ==
  /\ Idle
  /\ o \notin live
  /\ live' = live \union {o}
  /\ in_undo' = in_undo \ {o}
  /\ obj_mod' = obj_mod \ {o}
  /\ entry' = [entry EXCEPT ![o] = [p \in Props |-> NoEntry]]
  /\ entry_arr' = [entry_arr EXCEPT ![o] = << >>]
  /\ UNCHANGED <<undo, meta, saved>>

\* Mutant: an entry that becomes modified leaves no marker.
ValueRecords_no_marker(u, o, p) ==
  LET e == entry[o][p]
  IN  IF e.undo THEN u
      ELSE add_new_record(u, is_in_undo(o),
             [obj |-> o, prop |-> p,
              oldval |-> IF e.val = Absent THEN EmptyNew ELSE e.val])

\* The records set_prop makes: the old value, then the marker of an entry that
\* becomes modified, then (mark_modified) that of the object.
ValueRecords(u, o, p) ==
  LET e   == entry[o][p]
      new == e.val = Absent
      r1  == add_new_record(u, is_in_undo(o),
               [obj |-> o, prop |-> p, oldval |-> IF new THEN EmptyNew ELSE e.val])
      r2  == add_new_record(r1, is_in_undo(o), [obj |-> o, prop |-> p, oldval |-> EmptyMod])
  IN  IF e.undo THEN u ELSE IF e.mod \/ new THEN r1 ELSE r2

mark_modified(u, o) ==
  IF o \in obj_mod THEN u
  ELSE add_new_record(u, is_in_undo(o), [obj |-> o, prop |-> InvalidProp, oldval |-> Int1])

\* Mutant: a new entry comes first in prop_entry_arr.
set_prop_in_front(o, p, v) ==
  /\ Idle
  /\ o \in live
  /\ undo' = mark_modified(ValueRecords(undo, o, p), o)
  /\ entry' = [entry EXCEPT ![o][p] = Entry(v, TRUE, TRUE)]
  /\ entry_arr' = IF entry[o][p].val = Absent
                  THEN [entry_arr EXCEPT ![o] = <<p>> \o @] ELSE entry_arr
  /\ obj_mod' = obj_mod \union {o}
  /\ saved' = Newest(saved, undo'.savept_cnt)
  /\ UNCHANGED <<live, in_undo, meta>>

set_prop(o, p, v) ==
  /\ Idle
  /\ o \in live
  /\ undo' = mark_modified(ValueRecords(undo, o, p), o)
  /\ entry' = [entry EXCEPT ![o][p] = Entry(v, TRUE, TRUE)]
  /\ entry_arr' = IF entry[o][p].val = Absent
                  THEN [entry_arr EXCEPT ![o] = Append(@, p)] ELSE entry_arr
  /\ obj_mod' = obj_mod \union {o}
  /\ saved' = Newest(saved, undo'.savept_cnt)
  /\ UNCHANGED <<live, in_undo, meta>>

\* Mutant: the flags of the last savepoint are not cleared.
notify_new_savept_keep_flags ==
  /\ in_undo' = live
  /\ UNCHANGED entry

\* Mutant: objects the game created do not take part in undo.
notify_new_savept_image_only ==
  /\ in_undo' = live \intersect ImageObjects
  /\ entry' = [o \in Objects |-> IF o \notin live THEN entry[o]
                 ELSE [p \in Props |-> Entry(entry[o][p].val, entry[o][p].mod, FALSE)]]

\* CVmObjTable::notify_new_savept, with clear_undo_flags of every object.
notify_new_savept ==
  /\ in_undo' = live
  /\ entry' = [o \in Objects |-> IF o \notin live THEN entry[o]
                 ELSE [p \in Props |-> Entry(entry[o][p].val, entry[o][p].mod, FALSE)]]

\* savepoint(): a savepoint that finds no record notifies nobody.
CreateSavept ==
  /\ Idle
  /\ undo' = create_savept(undo)
  /\ IF alloc_rec(undo).rec = Null
     THEN saved' = << >> /\ UNCHANGED <<in_undo, entry>>
     ELSE /\ saved' = Newest(Append(saved, [first |-> undo'.cur_first, image |-> HeapImage]),
                             undo'.savept_cnt)
          /\ notify_new_savept
  /\ UNCHANGED <<live, obj_mod, entry_arr, meta>>

-----------------------------------------------------------------------------
\* undo_to_savept

UndoBegin ==
  /\ Idle
  /\ undo.savept_cnt > 0
  /\ meta' = undo.next_free
  /\ UNCHANGED <<undo, heap, saved>>

\* The record the loop looks at next.
Current == undo.ring[dec_rec_ptr(meta)]

\* Mutant: the marker of an entry that became modified is not applied.
apply_undo_no_marker(rec) ==
  LET o == rec.obj
      p == rec.prop
  IN  IF p = InvalidProp
      THEN obj_mod' = obj_mod \ {o} /\ UNCHANGED <<entry, entry_arr>>
      ELSE /\ UNCHANGED obj_mod
           /\ IF rec.oldval = EmptyNew
              THEN /\ entry' = [entry EXCEPT ![o][p] = NoEntry]
                   /\ entry_arr' = [entry_arr EXCEPT ![o] = SubSeq(@, 1, Len(@) - 1)]
              ELSE /\ entry' = [entry EXCEPT ![o][p] = Entry(rec.oldval, @.mod, @.undo)]
                   /\ UNCHANGED entry_arr

\* CVmObjTads::apply_undo.  Taking back an added property gives the last entry
\* of prop_entry_arr back to the free list, whichever property that one holds.
apply_undo(rec) ==
  LET o == rec.obj
      p == rec.prop
  IN  IF p = InvalidProp
      THEN obj_mod' = obj_mod \ {o} /\ UNCHANGED <<entry, entry_arr>>
      ELSE /\ UNCHANGED obj_mod
           /\ IF rec.oldval = EmptyNew
              THEN /\ entry' = [entry EXCEPT ![o][p] = NoEntry]
                   /\ entry_arr' = [entry_arr EXCEPT ![o] = SubSeq(@, 1, Len(@) - 1)]
              ELSE /\ entry' = [entry EXCEPT ![o][p] =
                                  Entry(rec.oldval, @.mod /\ rec.oldval # EmptyMod, @.undo)]
                   /\ UNCHANGED entry_arr

\* Mutant: the loop does not move on from an object's own record.
UndoApply_stays ==
  /\ ~Idle
  /\ dec_rec_ptr(meta) # undo.cur_first
  /\ apply_undo(Current)
  /\ meta' = IF Current.prop = InvalidProp THEN meta ELSE dec_rec_ptr(meta)
  /\ UNCHANGED <<undo, live, in_undo, saved>>

UndoApply ==
  /\ ~Idle
  /\ dec_rec_ptr(meta) # undo.cur_first
  /\ apply_undo(Current)
  /\ meta' = dec_rec_ptr(meta)
  /\ UNCHANGED <<undo, live, in_undo, saved>>

UndoEnd ==
  /\ ~Idle
  /\ dec_rec_ptr(meta) = undo.cur_first
  /\ undo' = unwind(undo)
  /\ saved' = Newest(SubSeq(saved, 1, Len(saved) - 1), undo'.savept_cnt)
  /\ notify_new_savept
  /\ meta' = Null
  /\ UNCHANGED <<live, obj_mod, entry_arr>>

\* CVmSaveFile::reset: undo is dropped and image objects are reloaded; of the
\* objects created since, a collection takes those that are out of reach.
Reset ==
  /\ Idle
  /\ undo' = drop_undo(undo)
  /\ \E gone \in SUBSET (live \ ImageObjects) : live' = live \ gone
  /\ entry' = [o \in Objects |-> IF o \in ImageObjects THEN ImageEntries ELSE entry[o]]
  /\ entry_arr' = [o \in Objects |-> IF o \in ImageObjects THEN ImageProps ELSE entry_arr[o]]
  /\ obj_mod' = obj_mod \ ImageObjects
  /\ saved' = << >>
  /\ UNCHANGED <<in_undo, meta>>

UndoStep == UndoApply \/ UndoEnd

Next ==
  \/ \E o \in DynamicObjects : CreateObject(o)
  \/ \E o \in Objects, p \in Props, v \in Vals : set_prop(o, p, v)
  \/ CreateSavept
  \/ UndoBegin
  \/ UndoStep
  \/ Reset

\* Once entered, the undo loop runs to its end; nothing else is owed.
Spec == Init /\ [][Next]_vars /\ WF_vars(UndoStep)

-----------------------------------------------------------------------------
Firsts == [i \in 1 .. Len(saved) |-> saved[i].first]

ObjectImage ==
  [vals : [Props -> [val : Vals \union {Absent, EmptyMod}, mod : BOOLEAN]],
   order : Seq(Props), mod : BOOLEAN]

\* Type correctness: above all, that the loop of undo_to_savept and the
\* discarding loop never take a slot's contents for what they are not, so that
\* no object ever holds anything else than a value.  EmptyMod is one, while the
\* loop is on its way from such a marker to the record of the old value.
TypeOK ==
  /\ undo \in [ring : [Slots -> Links \union UndoRecord \union {Freed}],
               cur_first : Pointers, oldest_first : Pointers,
               next_free : Slots, savept_cnt : 0 .. MaxSavepts]
  /\ live \in SUBSET Objects /\ in_undo \in SUBSET Objects
  /\ obj_mod \in SUBSET Objects
  /\ entry \in [Objects -> [Props -> [val : Vals \union {Absent, EmptyMod},
                                      mod : BOOLEAN, undo : BOOLEAN]]]
  /\ entry_arr \in [Objects -> Seq(Props)]
  /\ meta \in Pointers
  /\ saved \in Seq([first : Slots, image : [Objects -> ObjectImage \union {NoObject}]])

\* Between the links lie undo records.
RecordsInPlace ==
  \A s \in Slots : InUse(undo, s) /\ ~IsLink(Firsts, s) => undo.ring[s] \in UndoRecord

\* The ring is well linked whatever was dropped, unwound or wrapped around: no
\* link is read as a record, no record as a link, and no released slot at all;
\* the undo loop walks through slots in use and has the current link ahead.
UndoStructure ==
  /\ RingOK(undo, Firsts)
  /\ RecordsInPlace
  /\ ~Idle => /\ undo.savept_cnt > 0
              /\ Dist(undo.cur_first, dec_rec_ptr(meta))
                   < Span(undo.cur_first, undo.next_free)

-----------------------------------------------------------------------------
\* Where the records end that are still to be applied.
Top == IF Idle THEN undo.next_free ELSE meta

\* Slots of the records made since savepoint i, and those about one property.
RecordsSince(i) ==
  LET first == saved[i].first
  IN  {s \in Slots : Dist(first, s) \in 1 .. (Span(first, Top) - 1)
                     /\ \A j \in DOMAIN saved : saved[j].first # s}

About(i, o, p) ==
  {s \in RecordsSince(i) : undo.ring[s].obj = o /\ undo.ring[s].prop = p}

Earliest(i, S) ==
  CHOOSE s \in S : \A t \in S :
    Dist(saved[i].first, s) <= Dist(saved[i].first, t)

\* What object o is after the records since savepoint i are applied, the
\* newest first: the earliest record of a property has the last word.
Recovered(i, o) ==
  [vals |-> [p \in Props |->
      LET S   == About(i, o, p)
          old == undo.ring[Earliest(i, S)].oldval
      IN  [val |-> IF S = {} THEN entry[o][p].val
                   ELSE IF old = EmptyNew THEN Absent ELSE old,
           mod |-> entry[o][p].mod /\ \A s \in S : undo.ring[s].oldval \notin Empties]],
   order |-> LET added == {s \in RecordsSince(i) :
                             undo.ring[s].obj = o /\ undo.ring[s].oldval = EmptyNew}
             IN  SubSeq(entry_arr[o], 1, Len(entry_arr[o]) - Cardinality(added)),
   mod |-> o \in obj_mod /\ About(i, o, InvalidProp) = {}]

\* Every savepoint that is still held can be brought back exactly: the records
\* kept since then suffice for every object that existed and is not transient,
\* for its values, its modification flags and the order of its entries, even
\* when the ring wrapped, dropped older savepoints or filled up half-way
\* through one set_prop.
SavedStatesRecoverable ==
  \A i \in DOMAIN saved, o \in Objects :
    saved[i].image[o] # NoObject => Recovered(i, o) = saved[i].image[o]

\* The assertions of CVmObjTads::apply_undo hold for every record the loop
\* comes to: the property has an entry, and an added one is the last entry.
UndoAssertions ==
  (~Idle /\ dec_rec_ptr(meta) # undo.cur_first /\ Current.prop # InvalidProp) =>
    /\ entry[Current.obj][Current.prop].val # Absent
    /\ Current.oldval = EmptyNew =>
         entry_arr[Current.obj][Len(entry_arr[Current.obj])] = Current.prop

\* VMTO_PROP_UNDO is never stale: an entry that skips its undo record has one
\* in the current savepoint.
UndoFlagBacked ==
  \A o \in live, p \in Props :
    (Idle /\ saved # << >> /\ is_in_undo(o) /\ entry[o][p].undo)
      => About(Len(saved), o, p) # {}

\* A savepoint is given up for want of space only: a step other than undo or
\* reset that loses the oldest one found all savepoints taken or the ring full,
\* or it filled the ring on the way (set_prop makes at most three records).
SavepointsKept ==
  [][ (Idle /\ undo' # NewUndo /\ undo.oldest_first \notin {Null, undo'.oldest_first})
        => \/ Dist(undo.next_free, undo.oldest_first) < 3
           \/ undo.savept_cnt = MaxSavepts ]_vars

\* The undo loop comes to its end.
UndoTerminates == ~Idle ~> Idle

-----------------------------------------------------------------------------
\* What the user is promised: savepoints form a history of heap states.
History ==
  INSTANCE UndoHistory WITH
    None    <- NoObject,
    state   <- HeapImage,
    history <- [i \in 1 .. Len(saved) |-> saved[i].image],
    undoing <- ~Idle

UndoHistorySpec == History!Spec
=============================================================================
