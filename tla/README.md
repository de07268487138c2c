# QTads in TLA+

QTads is a graphical interpreter for TADS 2 and TADS 3 text adventures: a Qt
front end (`src`), HTML TADS (`htmltads`), the two virtual machines
(`tads2`, `tads3`) and an audio library (`SDL_audiolib`).  This
directory holds specifications of the parts whose correctness depends on long
sequences of operations, on order, or on several actors, with the TLC runs
that check them and proofs for TLAPS.

Paths are relative to the root of the repository.

## 1. Inventory

| Component | State | Operations | Talks to | Must be true of it | Module |
|---|---|---|---|---|---|
| **T3 undo manager** `tads3/vmundo.cpp` | a circular array of records, chained savepoint links, count | create_savept, add_new_record_*, drop_oldest_savept, drop_undo, undo_to_savept | objects (apply_undo, discard_undo), object table (notify_new_savept), collector | the ring stays well linked; a savepoint still held can be restored exactly; only the oldest are given up, and only for space | `UndoRing`, `VmUndo` |
| **T3 objects** `tads3/vmtobj.cpp` | property entries with flags, modification flag, superclasses | set_prop, apply_undo, reload_from_image, invoke_finalizer | undo manager, interpreter | a skipped undo record is not needed; what undo asserts holds | `VmUndo` |
| **T3 object table and collector** `tads3/vmobj.cpp` | per entry: free, reachable, finalize state, link, in_undo, transient; heads of three lists | alloc_obj, delete_entry, gc_full, run_finalizers, notify_new_savept | everything; finalizers are game code | nothing in use is freed; no dangling (weak) reference; one list at a time; each finalizer runs once | `VmObjTable` |
| **Lookup tables** `tads3/vmlookup.cpp` | hash buckets; undo records that own a block | set, remove, apply_undo, discard_undo, remove_stale_weak_refs | undo manager, collector | weak values vanish with their targets; no block lost | weak values in `VmObjTable` |
| **Save, restore, restart** `tads3/vmsave.cpp` | saved file; fix-up tables; post-load-init requests | save, restore, reset | object table, undo | reset drops undo; each post-load request is served once | reset in `VmUndo` |
| **Other metaclasses** (`vmvec`, `vmdict`, `vmgram`, ...) | data structures | data operations, undo as above | undo manager | as for lookup tables | |
| **T3 interpreter, pools, image, console, regex, bignum, dates** | byte code, stack, text | sequential | | functional | |
| **TADS 2 object cache and swapper** `tads2/mcm.c`, `mcs.c` | chunks of blocks; cache entries with flags, addresses, locks; free, unused and use lists; swap file | mcmalo, mcmrealo, mcmfre, mcmlck, mcmunlck, mcmrevert; inside them mcmgarb, mcmswap, mcsout, mcscompact | all of the TADS 2 run time | heap, entries and lists agree; an object keeps its contents wherever it goes; a locked one stays; no request fails that could be met | `McmCache` |
| **TADS 2 undo** `tads2/obj.c`, `execmd.c` | a circular buffer of records of different sizes | objusav, objsetp and other writers, objures, objutadv, objundo | object creation, fuses, restart | the records tile the buffer; a marker left can be restored exactly; nothing is dropped without need | `ObjUndo` |
| **TADS 2 run time** (`run.c`, `voc.c`, ...) | game state | sequential | cache, undo | functional | what undo touches, in `ObjUndo` |
| **Audio streams** `SDL_audiolib/src/Stream.cpp`, `stream_p.cpp` | stream list, iteration, fades, callbacks | play, stop, pause, the SDL callback in the audio thread | decoders, finish and loop callbacks | the list has just the streams that play; a stream that is told to stop stops | `AudioStream`, `SoundQueue` |
| **Sounds** `src/qtadssound.cc` | playing, repeats, done callback, fade-out timer, streams pending deletion | startPlaying, cancelPlaying, addCrossFade, timer, callbacks | streams, sound queue | the done callback once; every stream deleted in the end | `SoundQueue` |
| **Sound queues** `htmltads/htmlsnd.cpp` | entries, playing, last played, suspension | add_sound, stop_current_sound, on_timer, sound_done | sounds, tags, resource cache | no use of a deleted entry; the queue goes on | `SoundQueue` |
| **Resource cache** `htmltads/htmlrc.cpp` | hash table, reference counts | find_or_create, add_ref, remove_ref | sounds, images | alive while referred to | |
| **Formatter, parser, display list** (`htmlfmt.cpp`, ...) | text | layout | | functional | |
| **Game life cycle and event loop** `src/sysframe.cc`, `syswingroup.cc` | running game, next game, windows | run a game, quit, restart, open another | input, sounds | one game at a time; the one ended leaves; the next one runs | `GameSession` |
| **Input** `src/syswininput.cc` | input mode, ready, tag, buffer, nested event loops | getInput, getKeypress, cancelInput, time-outs, page pauses | frame, formatter | each request gets one answer, and the right one | `GameSession` |
| **Widgets, dialogs, settings, osqt** | | drawing, file system | | | |
| **Compiler, vendored code** | not in the interpreter, or third-party | | | | |

The behaviours that are hard: the two undo buffers at their limits (wrapping,
dropping, filling up in the middle of an operation); finalizers, which are game
code in the middle of a collection; marks and lists reused from one phase to
the next; objects that move or leave memory while the game uses others; the
audio thread against the GUI thread; completion callbacks, timers and
cancellation of sounds; nested event loops in which a game can be ended or
replaced while it waits for input.  `PROJECT.json` lists each with its line and
the properties that would show it going wrong.

## 2. The modules

| Module | What it is |
|---|---|
| `UndoHistory` | What undo promises, in either VM: a history of states (abstract) |
| `UndoRing` | The methods of `CVmUndo` as operators on its fields |
| `VmUndo` | T3 undo as a machine: ring, objects, undo flags; refines `UndoHistory` |
| `VmUndo_proof` | Lemmas and theorems about them, for TLAPS: the ring, its structure in `VmUndo`, recovery and the refinement |
| `VmObjTable`, `VmObjTable_proof` | The T3 object table and its garbage collector; theorems about it |
| `ObjUndo`, `ObjUndo_proof` | TADS 2 undo as a machine; refines `UndoHistory`; theorems about it |
| `McmCache` | The TADS 2 object cache and its swap file |
| `McmAlloc_proof`, `McmCache_proof` | Lemmas and theorems about it: splitting, swapping and collecting garbage; allocation, the clients' operations and the invariant |
| `AudioStream` | One audio stream: the methods and the audio callback as operators |
| `SoundQueue`, `SoundQueue_proof` | Streams, sounds, a queue and its tags, with two threads; theorems about it |
| `GameSession`, `GameSession_proof` | Games, input and the event loops they are nested in; theorems about it |
| `Induction` | Induction over natural numbers and over the turns of a fold, in the form the proofs use |
| `MCVmUndo`, `MCVmObjTable`, `MCObjUndo`, `MCMcmCache`, `MCSoundQueue` | Instances for TLC |

The components meet as follows.  `VmUndo` composes the ring with the objects
whose changes it records.  `SoundQueue` composes `AudioStream` with the sounds,
the queue above them and the tags that own them.  `UndoHistory` is implemented
by both undo machines.  The two VMs, the sounds and the session share no state
but through the game, which each module takes as any sequence of its
operations.

### T3 undo (`UndoRing`, `VmUndo`)

`undo` is `G_undo`: `ring` is `rec_arr_`, indexed from 0; `cur_first`,
`oldest_first`, `next_free`, `savept_cnt` are the fields of those names, with
-1 for a null pointer.  As in the code, a slot is an untagged union of a link
and a record, and which of the two it is follows from the links alone.  One
liberty is taken: a slot that is given back is overwritten with `Freed`, so
that reading one that was released is an error of type and shows.
`cur_savept_` is left out because nothing reads it.

`entry`, `entry_arr`, `obj_mod` are a T3 object's property table (value,
`VMTO_PROP_MOD`, `VMTO_PROP_UNDO`), the order of `prop_entry_arr` and
`VMTO_OBJ_MOD`; `live` and `in_undo` belong to the object table.  Values are
model values, but the two kinds of VM_EMPTY, which are the difference between
"this property was added" and "this property was not modified before", are
told apart.

| Action | Code |
|---|---|
| `CreateObject` | `init_entry_for_alloc` |
| `set_prop` | `CVmObjTads::set_prop` with `mark_modified`: up to three records, any of which may drop savepoints or find the ring full |
| `CreateSavept` | `savepoint()`, `create_savept`, `notify_new_savept` |
| `UndoBegin`, `UndoApply`, `UndoEnd` | `undo()`, `undo_to_savept`, one record of its loop at a time |
| `Reset` | `CVmSaveFile::reset`, as one step; which of the created objects a collection takes is left open |

The `undo` argument of `set_prop` is never null here: it is null only for
image loading and compilation, which are not modelled.
An object that is neither in the image nor transient may exist after a reset,
if the game still reaches it.  Objects die in `Reset` only; the collector next
to the undo records is planned (section 7).

`saved` is a history variable: for each savepoint still held, its link and the
heap at its creation.  The properties compare with it; no action reads it.

### T3 object table and collector (`VmObjTable`)

Entries are `1 .. NumObjects`; `kind` is the class of the object (with or
without references, weak references, a finalizer) or `Free`; `reachable`,
`finalize_state`, `next_obj` and the three list heads are the code's fields of
those names.  `ref` and `weak` stand for what an object refers to: one
reference, and one weak reference such as a value of a `WeakRefLookupTable`.
`stack` is everything the collector traces besides the image objects: VM
stack, R0, imports, globals.  `frames` are the objects whose finalizers are
running.

The game (`AllocObj`, `SetRef`, `SetWeak`, `Push`, `Pop`) may do anything to
objects it can lay hands on: image objects, its stack, and the object whose
finalizer runs.  A collection goes entry by entry: `GcStart`, `GcTrace`
(`gc_pass_init`), `GcMark`/`GcMarked` (`gc_pass_continue`), `GcScan` (the
first loop of `gc_pass_finish`), `GcMark` again, `GcSweep` (the second loop,
with `delete_entry`, `remove_stale_weak_refs`, `add_to_finalize_queue` and
`gc_set_init_conditions`), `Finalize` (`run_finalizers`).  While a finalizer
runs, `pc` is `"run"` again: it is game code.  `ran` is a history variable.

The back link of the free list (`prev_free_`) is left out: it is read by
`alloc_obj_with_id` only, which is not modelled.

### TADS 2 undo (`ObjUndo`)

`undo` is `objucxdef`: `head`, `tail`, `prv`, `top` and the buffer, in units of
a record header.  The first unit of a record holds, for the model, all of it;
`Freed` marks what was released, as in `VmUndo`.  A record's size is computed
twice, as in the code: `WrittenSize` by what writes it, `FoundSize` by
`objutadv` and `vocdusz` when it is dropped, which do not ask the writer.
`game` is what undo brings back: mutable values, original values marked
PRPFIGN, which objects exist, fuses, the player's character.

| Action | Code |
|---|---|
| `objusav` | the savepoint before each command |
| `objsetp` | a property is set: an ADD, OVR or CHG record, by what was there |
| `run_new`, `run_delete` | objects created and deleted, recorded with or without a savepoint |
| `vocsetfd`, `vocremfd`, `vocturn` | fuses: set, removed, burned down one turn, one record for each |
| `voc_set_me` | the player's character changes (`MeSpec` only, see below) |
| `objundo`, `obj1undo` | undo, one record at a time, with `vocdundo` |
| `Restart` | `bifres`: undo lost, the game reverted |

`Reserve` is `objures` as a whole: the wrap, the loop that drops records until
the new one fits (`DropUntil`), the new head and back link.

### TADS 2 object cache (`McmCache`)

`m` is the cache manager and the swapper together.  A chunk of memory is the
sequence of its blocks, each with the number its header has and what the object
holds; the address of a block follows from the sizes before it and is compared
with the one in its cache entry.  So moving an object without telling its entry
(or the other way round) shows.  `c2g` is `mcmcxmtb`, the translation of client
object numbers; `content` is a history variable, what the game last stored.

`Alloc`, `Realloc`, `Free`, `Lock`, `Unlock`, `Write` (`mcmtch`), `Revert` are
the client's operations.  Each is one step, as nothing interrupts them, but
`mcmalo0` inside them is followed through all it may do: take the best block,
split it, open a chunk, collect garbage (`Gather`, one block at a time, between
locked ones), toss objects out in order of use (`mcmswap`, `mcmtoss`), write to
the swap file, reuse its segments and compact it (`mcsout`, `mcscompact`), run
out of headers, and try again.

`MCMOFDIRTY` is left out: `mcmload` and `mcmalo` set `MCMOFNODISC` in every
object that comes to memory, so that every one is written when tossed out.
Which header the unused list hands out is of no importance: it is a set.

### Sound (`AudioStream`, `SoundQueue`)

A stream is a record of `Stream_priv`'s fields; `fFadingIn` and `fFadingOut` are
one field, being never both set.  `SoundQueue` has one layer: a queue
(`queue`, `playing_`, `last_played_`, `seq_mode`, the entries' `left` for
`repeat_count_` and `cancelled` for `cancel_`), the sounds (`snd`), their
streams (`strm`, `list` for `fStreamList`), the tags' references (`tag`) and
`life`, which tells sounds that are alive from those deleted whose stream is
still in `streamsPendingDeletion`.  A tag is formatted once and its sound is not
cached, so one element of `Sounds` stands for tag, entry, sound and stream.

The code calls back and forth: the end of a stream calls the sound, which calls
the queue, which starts the next sound.  So each of the two threads has a
`stack` of calls, of which the innermost takes the next step: `AddSound`,
`StopCurrentSound`, `OnSoundDone`, `MaybeStartSound`, `StartPlaying`,
`CancelPlaying`, `DoFadeOut`, `StopStream`, `FinishCallback`,
`ObsoletePrevSounds`.  The GUI thread starts them from tags (`FormatSound`,
`FormatCancel`), a new page, a change of preferences, the queue's timer and the
fade-out timer.  The audio thread starts them from `Mix`, one stream of the
callback's copy of the list at a time, between `BeginCallback` and
`EndCallback`; SDL holds the audio lock meanwhile, and `Lock(t)` is the guard of
whatever takes it.

How long a sound or a fade lasts is left open: a buffer may end a stream, or
not.  With PROBABILITY (`rnd`) a sound may be passed over or not.

### Games and input (`GameSession`)

All of it is one thread, and no game yields; events are handled in nested event
loops, inside the calls of the game.  `frames` are the calls of `fRunGame` that
have not returned, each with the place where the game waits (`pc`), for what
(`op`), whether there is a time-out, and whether the loop that waits for it has
been told to quit.  The other variables are the fields of those names.

`RunNext`, `NotAGame`, `NothingToRun`, `GameLeaves` are the loop of `fRunGame`.
`StartInput` (`getInput`, `getKeypress`, after `fProcessPagePauseQueue`),
`PauseOver`, `LineOver`, `KeyOver`, `CancelInput`, `FlushOver`, `Sleep`,
`WakeUp`, `PendingKeystroke` are the game's side.  `TimerFires`, `EnterLine`,
`SingleKeyPress`, `FollowLink`, `ScrollBanner`, `EndGame`, `SetNextGame` are the
events, each of which may come wherever an event loop runs.

## 3. Properties and runs

| Run | Configuration | Distinct states | Result |
|---|---|---|---|
| `undo_ring` | ring 5, 2 savepoints, image object with 2 properties, 2 values | 80,859 | holds |
| `undo_objects` | ring 6, 2 savepoints, image, created and transient object, 1 property | 195,794 | holds |
| `gc_collect` | 3 entries, 1 image object; leaves, weak tables, finalizers | 1,963,248 | holds |
| `obj_undo` | buffer of 6 units, 2 objects, values of 2 sizes, 1 fuse | 256,052 | holds |
| `mcm_cache` | 2 chunks of 3, 2 objects of the game file, 1 allocated, 5 headers, swap file of 4, 2 locks | 322,852 | holds |
| `sound_queue` | 2 sounds at a time, 5 kinds of tags; callback between GUI operations | 124,077 | holds |
| `session` | 2 banners; one game asked for at a time | 9,197 | holds |
| `gc_nested` | as `gc_collect`, plain objects; a finalizer may collect | | violated |
| `obj_undo_me` | as `obj_undo`, the player's character changes | | violated |
| `mcm_free` | 1 chunk of 3, sizes 1 and 2, 7 headers, swap file of 6, 1 lock; objects that are swapped out may be freed | | violated |
| `sound_threads` | 2 sounds, one kind of tag; callback at any time | | violated |
| `session_nested` | 1 banner; the user may open a game before the last has left | | violated |

`undo_ring`
: `TypeOK`, `UndoStructure` (links and records are never confused, no slot is
  lost or read after release, the undo loop has its end ahead),
  `SavedStatesRecoverable` (the records kept suffice to bring back each
  savepoint still held, values, flags and the order of entries),
  `UndoAssertions` (the two assertions in `apply_undo`), `SavepointsKept` (a
  savepoint is given up only for want of space), `UndoTerminates`, and
  `UndoHistorySpec`, the refinement of `UndoHistory`: a player who undoes goes
  back through exact earlier states in the right order.

`undo_objects`
: `UndoFlagBacked` (a property that skips its undo record has one in the
  current savepoint) and `SavedStatesRecoverable`, with objects that come into
  being between savepoints and transient ones.

`gc_collect`
: `TypeOK`; `NoDangling`, for strong and weak references; `OneQueue` (the three
  lists that share `next_obj_` end, are disjoint, and the free list is exactly
  the free entries); `GcInitialConditions` (what `gc_pass_init` says it
  assumes); `GarbageCollected`; `FinalizeOnce`; `FinalizersRun`.

`obj_undo`
: `TypeOK`; `BufferTiled` (from the newest record the back links lead to the
  tail, the records lie one by one, nothing else is in use, and the tail is a
  record); `SavedStatesRecoverable`; `OnlyAsNecessary` (no record is given up
  while the free space would do); `UndoHistorySpec`, the same refinement as for
  T3.

`mcm_cache`
: `TypeOK` (with the quotas of memory and swap file); `CacheStructure` (heap and
  entries agree on every block, which the code asserts in five places, and the
  free, use and unused lists have what they should); `ContentsKept`;
  `LockedStay` (a locked object moves only by its own reallocation, and only if
  nobody else holds a lock); `AllocComplete` (a request fails only if headers
  or swap file have run out, or no gap between locked blocks would do).

`sound_queue`
: `TypeOK`; `QueueBacked` (the queue always waits for just the sound that plays
  and will report its end); `ListExact` (`fStreamList` has just the streams
  that play, and none that is deleted); `AliveWhenUsed` (no operation goes on
  with a sound deleted under it); `StopStartsNothing` (cancelling does not
  start the next sound); `DoneOnce`; `QueueMoves` (a sound that is cancelled
  or does not loop for ever gives way); `DeadSoundsStop` (a deleted sound's
  stream stops, and can be deleted).

`session`
: `TypeOK`; `EditedLineHasTag` (the key handlers find an input tag);
  `NoStaleCommand` (a game does not begin with a key or an end of file meant
  for the one before); `InputArrives` (what the user enters in time is what the
  game gets); `GameEnds` (a game that is ended leaves, whatever it waits for);
  `NextGameRuns`.

### Where code and comments disagree

* `gc_nested`: a finalizer that collects garbage (`t3RunGC`, or an allocation
  past the threshold) finds objects that are still in the finalizer queue and
  puts them into the work queue through the same link.  `vmobj.h` says an
  object "can't be in both".  The finalizer queue may then become cyclic, and
  `run_finalizers` repeats finalizers without end.
* `obj_undo_me`: `vocdusz` does not know the record of a change of the player's
  character and answers 0; when the record is dropped, the tail comes to point
  into it.  `obj.h` says the tail "points to the oldest undo record".
* `mcm_free`: `mcmgfre` puts the entry of an object into the free list also if
  the object is swapped out and has no memory: the address it had then is
  handed out although another block lies there.  `vocrevert` and `vocdundo` free
  objects without asking.  `mcm.h` says of the free list "These refer to blocks
  in the heap that are not used by any client objects".
* `sound_threads`: `cancelPlaying` tests `fPlaying`, and the audio thread may
  report the end of the stream before the audio lock is taken: the queue is told
  twice, and takes the next sound for finished.  The comment there says "Make
  sure our SDL callback won't call the TADS callback a second time".
* `session_nested`: `setNextGame` takes a game that has been ended, but is still
  in a nested event loop, for none.  The next game is run inside it, and the
  window, parser and formatter that the outer one still uses are deleted.
  `sysframe.h` says "If no game is currently executing, run it now.  Otherwise,
  end the current game."

### Seen in the code, without a run

T3:

* `undo_to_savept` ends with `notify_new_savept`, which makes *all* existing
  objects take part in undo, those created after the savepoint that is now the
  newest included; `vmobj.h:1702` says otherwise.  It costs records nobody needs.
* The sweep marks each entry it keeps as unreachable, for the next collection,
  before the entries behind it ask which of their weak references are stale
  (`vmobj.cpp:2254`).  A reachable object that was once finalized then counts as
  about to be deleted, and a weak reference to it is dropped.  `NoDangling` is
  about references that are kept, and holds.  For the same reason
  `gc_remove_stale_weak_refs` drops undo records of such objects.

TADS 2:

* When the swap file is full, the header that `mcmtoss` took is lost; when there
  is no header for a new chunk, the chunk is given back but not its quota.  Both
  are in the model, and allowed by `AllocComplete`.
* `mcmload` always sets `MCMOFNODISC`, and `mcmtoss` inverts a test: segments of
  the swap file are never taken again for the object they belong to, and objects
  that did not change are written each time.
* `vocdusave_newobj`, `_delobj`, `_addwrd`, `_delwrd` do not ask whether there
  is an undo buffer at all; `vocdusave_delobj` leaves the object locked if its
  record is larger than the buffer; undoing OVR on an object with an index
  leaves the index as it was.

Sounds:

* `Stream::play` resets `fFadingIn` but not `fFadingOut`, and so does the end of
  a fade-out (`stream_p.cpp:68`): a stream that is played again after a fade-out
  is paused for ever.  No tag in `sound_queue` replays a sound that was faded out
  that way.
* `cancelPlaying` does not stop `fFadeOutTimer`; `addCrossFade` may compute a
  negative time for a sound that loops.
* Crossfades: a tag with CROSSFADE IN and without INTERRUPT is accepted
  (`htmltags.cpp:7806`).  The fade-out timer of the sound before it
  (`qtadssound.cc:135`) may then fire after that sound has ended and was reported,
  and reports it again.  With such a tag in the model TLC finds `DoneOnce`,
  `QueueBacked` and `AliveWhenUsed` violated, and `repeat_count_` negative, even if
  the callback keeps out of GUI operations.  The tags of `Medley` have a crossfade
  only together with INTERRUPT.
* The loop callback is called once for a buffer, however often the stream ends
  within it, and starts a `QTimer` from the audio thread, which Qt refuses.
* `streamsPendingDeletion` has a mutex, but what it is tested against is
  guarded by the audio lock.

Input:

* `gameQuitting` is a signal: emitted during a page pause, before the loop that
  waits for it is entered, it is noticed only at the time-out.
* A link followed while a key is waited for with a time-out is noticed only at
  the time-out, and `wait_for_keystroke` then reads the wrong member of a union
  (`sysframe.cc:919`, marked FIXME).
* A key that times out leaves `fInputMode` at `SingleKey`.

### Bounds, and why they are enough

*T3 undo.*  A ring of five slots with two savepoints wraps, is full with one
savepoint and with two, drops by count and by space, and fills up in the middle
of `set_prop`'s three records; with two properties the order of added entries
matters, and an entry can be added in one savepoint and changed in the next.
The code's numbers (65,536 and 255) differ in size only, and the structure of
the ring is proved for all of them.  Ring 6 in `undo_objects` holds one full
savepoint of two objects and part of the next.

*Collector.*  Three table entries, one of them an image object, let a
finalizable object refer to another one, be resurrected by it through the image
object, be freed and be allocated again by a finalizer; a weak table may come
before or after its target.  A second image object or a fourth entry adds
longer chains.  The table does not grow (`AllocObj` waits for a free entry),
one reference and one weak reference for each object stand for many.
`MaxNesting` is 0 in the run that passes: its finalizers allocate, resurrect and
assign, but do not collect; `gc_nested` shows why.  The properties of the
collector hold of games whose finalizers keep to that.

*TADS 2 undo.*  Six units hold a marker and two or three records; the largest
record takes five.  So the buffer wraps at every position, drops from one record
to all within one reservation, and loses its newest marker.  `MaxTime` bounds
the turns a fuse is set for.  Dynamic objects are created again after undo.

*Cache.*  A grown object fills a chunk.  With two chunks, two headers to spare
and two locks, memory, headers and swap file each run out before the others in
some behaviour; gaps on both sides of a locked block, compaction of the swap
file with a segment in use behind one that is not, and reallocation in place, by
annexing and by moving all occur.  `MaxLocks` stands for how deep the game's code
nests.  The sizes leave out the header of a block.

*Sound.*  Two sounds at a time are one that plays or fades and one that waits,
or one of the queue and one whose tag is gone; a sound that was deleted, and
whose stream has stopped, comes back as a new one.  The tags of `Medley` have all
the sequence modes, finite and endless repetition, fades, crossfades, INTERRUPT
and RANDOM.  `LoopsPerBuffer` is 1: sounds shorter than a buffer are left out.

*Session.*  Two banners are enough for one to be scrolled and one to remain.
The game does all it can at any time; nothing else is bounded.  `Impatient` is
FALSE in the run that passes: the user waits for a game he has ended to leave,
before he opens another; `session_nested` shows why.

No run uses symmetry.  Deadlock is checked in all runs.

### Fairness

`VmUndo` and `ObjUndo` assume that the undo loop, once entered, goes on; it is a
loop in a single thread, and nothing in it waits.  `VmObjTable` assumes the same
of the collector (`WF(GcStep)`) and that finalizers return or throw
(`WF(FinalizerReturn)`): the code calls them recursively and has no other way to
go on; a finalizer that does not return hangs the interpreter.

`SoundQueue` assumes that calls in either thread go on, that SDL goes on asking
for buffers (`SF(BeginCallback)`: strongly, as the GUI thread takes the lock in
between), that the callback goes through its streams, and that streams and
fades end at some time: each has a finite length, and a buffer is some of it,
whatever comes in between.  It assumes nothing of the fade-out timer.

`GameSession` assumes that timers fire, that code goes on once its event loop
has been left, and that a game which is told the end of file again and again
leaves (`check_eof_loop` kills it after a while).  Nothing is assumed of the
user; in no module is anything else assumed of the game.

### Mutants

Definitions named after another one with a suffix (`inc_rec_ptr_late`,
`keep_entry_marked`, ...) are faulty variants of it, each with a comment that
says what is wrong.  No specification uses them; `PROJECT.json` says which
property finds each one out when it takes the place of the original.

## 4. Proofs

The theorems below hold for every value of the constants that satisfies the
assumptions of the modules, but for the hypotheses stated with them.  The
assumptions: ring size and savepoint limit are positive (`RingAssumption`);
image and dynamic objects are disjoint and transient ones dynamic
(`ObjectAssumption`); the special values differ from each other and from
ordinary ones (`ValueAssumption`); image properties are a sequence of properties
(`ImageAssumption`); the root set of the collector lies in its table; tags have
one of the kinds of attributes the parser makes.  Of TADS 2 undo: the buffer holds
the largest record there is (`BufferAssumption`; a larger one is an error the
model leaves out); `None` is no value, time or offset, and the fuses are
distinct slots (`ObjectAssumption`).  Of the cache: there are finitely many objects
in the game file, other than those the game allocates, with a header for each and
one to spare; every size fits a chunk; there may be any number of chunks, headers
and locks (`CacheAssumption`).

| Module | Theorem | States | Hypothesis |
|---|---|---|---|
| `VmUndo_proof` | `UndoStructureHolds`, `TypeCorrect` | `UndoStructure`, `TypeOK` | |
| | `SavedStatesRecoverableHolds` | `SavedStatesRecoverable` | |
| | `UndoHistoryHolds` | `UndoHistorySpec`: `VmUndo` implements `UndoHistory` | |
| | `UndoAssertionsHold`, `UndoFlagBackedHolds` | `UndoAssertions`, `UndoFlagBacked` | |
| | `SavepointsKeptHolds` | `SavepointsKept`, an action property | |
| `VmObjTable_proof` | `TypeCorrect` | `TypeOK` | |
| | `NoDanglingHolds`, `OneQueueHolds`, `GcInitialConditionsHold` | the invariants of these names | `MaxNesting = 0` |
| | `GarbageCollectedHolds`, `FinalizeOnceHolds` | the action properties | `MaxNesting = 0` |
| `ObjUndo_proof` | `TypeCorrect`, `BufferTiledHolds` | `TypeOK`, `BufferTiled` | `Spec` |
| | `SavedStatesRecoverableHolds` | `SavedStatesRecoverable` | `Spec` |
| | `UndoHistoryHolds` | `UndoHistorySpec`: `ObjUndo` implements `UndoHistory` | `Spec` |
| | `OnlyAsNecessaryHolds` | `OnlyAsNecessary`, an action property | `Spec` |
| `SoundQueue_proof` | `ListExactHolds`, `StopStartsNothingHolds` | `ListExact`, `StopStartsNothing` | |
| | `HeardKnownHolds` | a live sound whose stream plays has `fPlaying` set | |
| | `CallbackAliveHolds` | the audio callback works on no deleted sound | |
| `GameSession_proof` | `TypeCorrect`, `EditedLineHasTagHolds` | `TypeOK`, `EditedLineHasTag` | |
| | `StaleCommandOnlyInsideHolds` | only a game run inside another can find what was pending for that | |
| | `NoStaleCommandHolds` | `NoStaleCommand` | `~Impatient` |
| `McmAlloc_proof` | `mcmgarbGood` | collecting garbage keeps a good cache good, and every object | `Good(s)` |
| `McmCache_proof` | `mcmalo0Good` | so does an allocation | `Good(s)` |
| | `mcmalo0Complete` | why an allocation fails | `Good(s)` |
| | `CacheInvariant` | the inductive invariant `CacheIInv` | `~FreeAbsent` |
| | `CacheTypeOK`, `CacheStructureKept`, `CacheContentsKept`, `CacheAllocComplete` | `TypeOK`, `CacheStructure`, `ContentsKept`, `AllocComplete` | `~FreeAbsent` |
| | `CacheLockedStay` | `LockedStay`, an action property | `~FreeAbsent` |

The four hypotheses of the specifications are the conditions without which the
statements are false of the code, as `gc_nested`, `obj_undo_me`, `session_nested`
and `mcm_free` show: finalizers do not collect garbage themselves, the game does
not change "Me" while it runs (`Spec` of `ObjUndo`, as against `MeSpec`), the
player waits for a game that was ended before opening the next one, and the game
frees no object that is swapped out.  `Good(s)` is no condition on the program:
`CacheInvariant` shows that every reachable state of the cache has it.

### The undo ring

Neither `TypeOK` nor `UndoStructure` is inductive by itself.  That `apply_undo`
is given a record, and not a link, needs the structure of the ring; that the
structure survives needs the types of the pointers.  The inductive invariant is

    Inv == TypeOK /\ UndoStructure

and the work is in the ring: the first part of `VmUndo_proof` shows of each method that it
keeps the ring linked along the sequence of links (`RingOK`), shortened at the
front by a drop, lengthened at the back by a savepoint, shortened at the back
by an undo, whatever the position in the array.  The proofs speak of distances
(`Dist(a, b)`, the number of `inc_rec_ptr` steps from a to b) instead of
indices, so that wrapping is dealt with once, in the lemmas about `Dist`.
`DropMakesRoom` shows that dropping one savepoint always frees a slot, which
is why `alloc_rec` needs no loop in the model.  Then there is one lemma
for each action (`SetPropInv`, `CreateSaveptInv`, ...), collected in `NextInv`.

### Recovery, and the refinement of `UndoHistory`

`RecoveryInv` (the last part of `VmUndo_proof`) strengthens `SavedStatesRecoverable`; with
`Inv` it is inductive.  It was checked with TLC on both instances of `VmUndo`
first.  Its parts:

* `Reco`: for each savepoint, the records since then bring back its image, and
  each of these records, when its turn comes, can be applied: the property has
  an entry then, and one that was added is the last of `prop_entry_arr`.  The
  second half is `UndoAssertions`, said of the future.
* `Owners`: only objects that take part in undo have records, and only they are
  promised.  So a record that `is_in_undo` suppresses is not missed.
* `Backed` (`UndoFlagBacked`): an entry whose `VMTO_PROP_UNDO` is set has a
  record in the current savepoint; hence the record that `set_prop` skips would
  not have been the earliest one, and so would not have had the last word.
* `EntriesOK`: absent entries are not marked modified; `EmptyMod` is a value only
  inside the undo loop.

The argument peels the newest record off.  What the records S bring back is
defined by the earliest record of each property (`Rec`, which is `Recovered` of
the model); `UndoesValue`, `UndoesNew`, `UndoesFlag` show that applying the newest
record and bringing back the rest is the same as bringing back all.  That is one
step of the undo loop (`ApplyUndoing`), and, read backwards, one record of
`set_prop` (`SyncNew`, `SyncValue`, `SyncMarks`, `SyncFlag`).  When an allocation
drops savepoints half-way through `set_prop`, those that are left began after
the records that were lost.  When the loop has come to the link, no record is left,
and the heap is the image (`UndoEndState`); this is `EndUndo` of the abstract
specification.  `NextRefines` maps each step of `VmUndo` to a step of
`UndoHistory` or to none: a drop forgets oldest states (`NewestRemembered`), a
full ring at a savepoint forgets all.

### The TADS 2 buffer

`IInv` (`ObjUndo_proof`) says that there is a list `c` of the offsets of the
records, the oldest first, which the program itself never has: it has one back
link in each record, and sizes.  `Tiled(u, c, m)` says that the back links lead
through `c` (`Linked`), that each of the records begins where the one before it
ends but for one that begins at 0, after the `m`-th (`Laid`), and that no unit
outside them is in use (`Filled`); either `m` is the last and the head is behind
it (`Plain`), or `top` is the `m`-th record and the head is below the tail
(`Wrapped`).

`DropTiled` shows that `objutadv` leaves the same of the rest of the list, with
the size it computes itself: this is the step that a change of "Me" would break.
`AdvanceTiled` is one turn of the loop in `objures`.  That the loop ends is the
pigeonhole principle: distinct records begin at distinct units, so there are at
most `BufSize` of them (`FewRecords`), and each turn drops one; `DropUntilTiled`
finds the turn in which it stops by induction over turns, and that what is left
is a rest of the list, unchanged.  `ReserveTiled` writes the new record into the
room.  `WalkIs` and `SearchIs` then say where the back links lead in terms of `c`.

Recovery speaks of the list, too.  `Good(u, c, p, h, sv, g)` gives each savepoint
its place `p` in the list and each record the game `h` after it, such that undoing
a record newer than a savepoint takes `h[k]` to `h[k - 1]`, the savepoints' games
are those at their places, and the last is the game.  It is stronger than `SavedStatesRecoverable`,
which asks only for the markers, and this is what makes it inductive: `GoodAppend`
writes a record, whatever had to be dropped for it; `HistPop` undoes one.  A
record of each operation undoes it (`UndoneProperty`, `UndoneNew`,
`UndoneDelete`, `UndoneFuse`) only in games where an original value is marked
ignored exactly when there is another one, and objects that do not exist have no
value (`Consistent`), so this is part of the invariant.  `vocturn` writes one
record for each running fuse, and goes by induction over fuses (`BurntFacts`).

For the refinement, what the drops leave of `saved` is its newest part
(`RemainingIs`), so each step forgets oldest states only (`Proceeding`,
`ProceedForgets`); `objulose` forgets them all.  `OnlyAsNecessary` follows from
`MakeRoomTiled` and the two positions of the head.

### The collector

With `MaxNesting = 0`, the inductive invariant `Inv` of `VmObjTable_proof` says
what each phase has done up to `cursor`: `TraceInv`, `MarkInv`, `ScanInv`,
`FMarkInv`, `SweepInv`, and `BetweenInv` outside collections.  Three facts carry
it.  The three lists share one link, and each is the chain of links from its
head (`Listed`), so that a set (`Work`, `Due`, `free`) can stand for each.
Marks are closed under references except for what is in the work queue.  And
before the sweep resets the mark of an entry, the entry has been found to
survive (`Survives`), which is stable, whereas the mark is not: this is where
`NoDangling` holds in spite of the marks being reused while they are still read.

`GarbageCollected` needs that every marked object is reachable, along
references of any length.  `Closure` is the least set closed under references;
that marks do not leave it follows by induction over the steps of the marking,
that nothing else keeps an object from the definition of the sets.  A list that
is finite and without repetition ends: this is the pigeonhole principle, proved
by induction over sets.

### Sounds

All theorems are proved for tags with any attributes and with the callback at any
time (`Overlap`), so also for `sound_threads` and for the crossfades that the
passing run leaves out.  The types in the invariant `Inv` are weaker than `TypeOK`:
`left` may become negative there, because the sound may be reported twice.  `Inv`
says of the stacks of calls what is still to come: a sound that a pending call
will start has been created; one that is about to enter the queue is not in it,
is alive, and its tag is not about to let it go (`CallOK`).  `StopStartsNothing`
needs, besides, that whatever a stop calls back runs above it on the same stack,
and finds the queue obsolete (`Cancelling`).

`HeardKnown` and `CallbackAlive` are what is left of `QueueBacked` and `AliveWhenUsed`
when the threads really overlap.  A sound may then be reported twice and deleted
while the GUI thread is still in a call on it, but the callback never finds a
deleted one, and no sound is heard that cancelPlaying would take for silent.  Both
need `Known`, an invariant about the two stacks together.  What a stop is
to silence at once is done by the innermost call, on a sound that is not going to
be started again, since it is not in the queue or its entry has been cancelled
(`StopsFirst`, `GivenUp`).  When the GUI thread is about to reset `fPlaying` the stream
has stopped, and the call that the callback may be in will not start it
(`FinishingOK`, `NotStarted`): this is the point where the test and the reset of
`fPlaying` are apart in the code.  The callback is in one call at most, which it
finishes before it gives the lock back, and nobody deletes a sound without that
lock (`CallingBackOK`).  TLC has checked both, on the instance of `sound_threads` with
further tags, before they were proved.

`QueueBacked`, `AliveWhenUsed`, `DoneOnce` and `TypeOK` are shown by lemmas only, under
`PlainTags`: the callback keeps out of GUI operations (`~Overlap`), no tag has
CROSSFADE OUT, and CROSSFADE IN comes only with INTERRUPT.  The tags of
`sound_queue` are of this kind, so the lemmas say of any number of sounds what the
run says of its few.  They are no theorems about the program, because the program
guarantees neither condition.  Without the first, `sound_threads` violates
`DoneOnce`; with a tag that has CROSSFADE OUT TLC finds `DoneOnce` and `QueueBacked`
violated although the callback waits (the fade-out timer, being late, reports a
sound that has ended).  Their invariant is `Safe`.  Only one of the threads is in a
call then, so there is one stack, `Now`, and `Doing` says for each operation that
may be the innermost call on it what holds while it is taken, and which calls may
be left around it (`AtCancel`, `AtStop`, ..., `AtObsolete`): after a crossfade the
old sound has been reported but its stream has not been told to fade (`Leaving`),
in any other case only the tags have to let go of their sounds and the new one to
be added (`Bases`).  `Backed` and `Plays` are the two directions of `QueueBacked` with
the operations under way counted in.  `Repeats` counts: a sound has not been heard
more often than it was to be played, which is not more than the entry has left, so
`repeat_count_` does not become negative.  `Tagged` says when the queue may hold a
sound whose tag is gone: then it has been cancelled and fades out, or will be
stopped at once.  That is what keeps `AliveWhenUsed`, since it is the tag that keeps
a sound alive when its entry is deleted.

### The session

`EditedLineHasTag` is part of `InputOK`, which connects the input mode with the
place where the innermost call of `fRunGame` waits, as the fields of the window
and the calls' own state must agree although a game can be ended at any of
these places.

The reset of `fPendingWaitForKeystrokeCmd` comes in `fRunGame` after the game has
left (`sysframe.cc:276`), and a game can be run inside another one that has not
left yet; it then starts with what is pending for the outer one.
`StaleCommandOnlyInside` says that this is the only way, whatever the player does
(`Impatient` or not): a game that is run outermost starts with nothing pending, no
matter how many games have been run inside others before.  The invariant is
`NestedInv`: the outer games wait in event loops (`OuterGamesWait`), so that none of
them can be the one whose loop in `fRunGame` goes on to the next game, and nothing is
pending where the outermost call asks for that (`NothingLeft`).  TLC has checked it
with the constants of `session_nested`, one banner and at most three nested games.
`NoStaleCommand`, which is about all games, follows for a player who waits.  That
`OneGame` holds then is no result: the model lets only an impatient player open a
game early.

### The cache

An operation of the cache manager is one step of the model, but a long one: an
allocation may split a block, open a chunk, collect garbage, toss objects out and
compact the swap file, all of it again for as many turns as it takes.  So the
proof goes by operators, not by actions.  `Good(s)` says of a state of the two
managers, between any two of these operations, what makes it one:

* `EntryGood`: the flags of an entry agree with each other, with its locks and
  with its segment of the swap file;
* `HeapGood`: the blocks of a chunk follow each other by the addresses in their
  entries, from 0 to `Chunk` (`Chained`), and no header is that of two blocks
  (`Separate`).  This is `HeapAgrees` without sums: what an operation does to a
  block disturbs it, and its neighbour, only.  `ChainSums` and `SumsChain` lead
  from one form to the other;
* `HeadersGood`, `ListsGood`: who is in memory has a block, who is in a list has
  its flag, once;
* `SegsGood`: a segment in use is that of one object, and the swap file is within
  its limit; the chunks are within theirs.

`Keeps(s, t)` says that t has all of the objects of s (`Owned`: neither free nor
unused) with their contents, sizes, locks, and, if locked, addresses, whether
they are in memory or not.  It is transitive (`KeepsTwice`), so each operator needs
one lemma, that it leaves a good state and keeps the objects: `mcmspltGood`,
`NewChunkGood`, `GrabGood`, `mcsoutFacts`, `mcmtossGood`, `mcmswapGood`,
`mcmgarbGood`, `mcmalo0Good`.  What `mcmalo0` returns is `Fresh`: no object's
before.  The loops are folds, with an invariant of their own for what is done up
to the turn.  For garbage collection (`GatherSoFar`) it says that the blocks done,
moved, gathered in the hole and still above it, in this order, are the old ones
with the free blocks merged, and their sizes add up to the same.

`CacheIInv` adds the game's side: each client's entry is its own, is `Owned`, and
what it stores is `content`; statics always have one.  TLC finds it to hold on the
instance of `mcm_cache`.  Each action keeps the
objects of all clients but one (`Served`), so contents and locked addresses
follow from `Keeps`.

That a request fails only for a reason (`AllocComplete`) is said of the whole
loop (`mcmalo0Complete`).  When the garbage has been collected there is a locked
block between any two free ones of a chunk (`Tight`).  A swap either stops at a
full swap file, or tosses something out, or there is no header to do so, or
everything is locked (`Tally`, `Combed`).  In the last case nothing but locked and
free blocks is left, so a gap is one free block, which the attempt has found too
small (`StuckHopeless`).  Each turn that goes on has made the LRU list shorter
(`Few`), so the loop ends for one of these reasons before its bound, `NumEntries`
turns: the bound of the model's fold is none of the code's.

### Induction

The theorems about induction in the provers' library take the property as an
operator, which these provers cannot instantiate.  `Induction` states them for
sets instead: a set of numbers that has 0 and with each number the next has them
all (`NatInSet`, `UpToInSet`), and a set of numbers that is not empty has a least
element (`LeastNat`).  The proofs use the set of numbers, or of finite sets, for
which what they are after is true.

For folds there is another way to hand an operator over: it is a CONSTANT of the
module, and each loop takes an INSTANCE with its own turn (`Step`) and its own
claim (`Holds`).  `Unfold` shows once that `FoldLeft`, which the community modules
define by recursion over sets, passes through the values of all turns; the lemma
`Induct`, that what each turn keeps holds in the end.  The modules that have no folds give
the two constants any operators (`NoTurn`, `NoClaim`).

### What is model-checked only

Of the safety properties of the passing runs, four are no theorems: `TypeOK`,
`QueueBacked`, `AliveWhenUsed` and `DoneOnce` of `sound_queue`, for which there are only
the lemmas above, under the run's restrictions; without these they are false.  The
others are proved, those of the collector, of the cache, of TADS 2 undo and
`NoStaleCommand` under the hypotheses in the table.  What is left to TLC alone:

* Liveness (`UndoTerminates`, `FinalizersRun`, `QueueMoves`, `DeadSoundsStop`,
  `InputArrives`, `GameEnds`, `NextGameRuns`), which is out of reach of the
  prover, as is ENABLED.

## 5. What a model leaves out

* T3 undo: records with integer and pointer keys (vectors, lookup tables),
  changes of superclasses, the collector's view of undo records.
* Object table: transient objects, globals, pages, allocation of a given number,
  save, restore and reset; when a collection is due (it may start at any time).
* TADS 2 undo: records of vocabulary words, records larger than the buffer,
  the index of an object's properties.
* Cache: failures of the heap and of writes to the swap file, objects that are
  locked for their life (`mcmptralo`), more than one client, the sizes of
  headers.
* Sound: the foreground layer, which plays over the others, and the suspension
  of the background queue by it; volume and stereo; loading errors; sounds that
  are cancelled synchronously.
* Session: the window's closing, modal dialogs, the loop of 5 ms in
  `scrollDown`, editing and the history of lines.
* Everything that is data: what values are, byte code, text, hashing.

### Not modelled, and why

* Other metaclasses: their undo follows the pattern of `CVmObjTads` and the
  lookup table; they add data structures, not protocols.
* The T3 interpreter, its memory for bytes, the formatter, regular expressions,
  big numbers, dates, the HTML parser and layout: sequential computation on
  data, with no order or interleaving to get wrong.
* The compiler, which is not part of the interpreter, widgets and the operating
  system's layer, vendored libraries.

These are most of the code's lines.

Hazards in `PROJECT.json` without a property: the two about weak references and
undo records after a sweep (`vmobj.cpp:2254`, `vmundo.cpp:544`), undo records
that own memory (`vmundo.cpp:556`), and a stream that is played again after it has
faded out (`Stream.cpp:83`), which no tag of `sound_queue` does.

## 6. Reproducing

    tlc -config VmUndoRing.cfg MCVmUndo.tla
    tlc -config VmUndoObjects.cfg MCVmUndo.tla
    tlc -config VmGc.cfg MCVmObjTable.tla
    tlc -config ObjUndo.cfg MCObjUndo.tla
    tlc -config McmCache.cfg MCMcmCache.tla
    tlc -config SoundQueue.cfg MCSoundQueue.tla
    tlc -config Session.cfg GameSession.tla
    tlapm Induction.tla
    tlapm VmUndo_proof.tla
    tlapm VmObjTable_proof.tla
    tlapm ObjUndo_proof.tla
    tlapm SoundQueue_proof.tla
    tlapm GameSession_proof.tla
    tlapm McmAlloc_proof.tla
    tlapm McmCache_proof.tla

The runs that are violated have their own configurations (`VmGcNested`,
`ObjUndoMe`, `McmFree`, `SoundThreads`, `SessionNested`).  Each run takes less
than four minutes with two workers.

## 7. Plan

Done: T3 undo with its abstract specification and refinement; the collector with
finalizers and weak references; TADS 2 undo, a second refinement of the same
history; the TADS 2 cache; sound with both threads; games and input.  Proved:
all safety properties of `VmUndo` and of `ObjUndo`, and that both refine
`UndoHistory`; those of the collector, of the session and of the cache; of the
sounds, what holds whenever the audio thread calls back and whatever the tags are.

To model, if there is room for more runs: the heap that composes the undo
manager and the collector (`gc_mark_refs`, `gc_remove_stale_weak_refs`, records
with pointer keys and their blocks, `reset` step by step); save, restore and
post-load initialisation; the foreground sound layer; the resource cache.
