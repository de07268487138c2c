----------------------------- MODULE VmObjTable -----------------------------
(***************************************************************************)
(* The object table of the TADS 3 VM and its garbage collector             *)
(* (CVmObjTable, tads3/vmobj.cpp and vmobj.h).                             *)
(*                                                                         *)
(* An entry has one link, next_obj, which is shared by the free list, the  *)
(* collector's work queue and the finalizer queue.  A collection is        *)
(* modelled entry by entry.  It ends in the finalizers, and a finalizer is *)
(* a method of the game: while it runs, it does what the game may do,      *)
(* collecting garbage included.                                            *)
(*                                                                         *)
(* An object holds at most one reference; some objects may hold a weak one *)
(* besides, as those of WeakRefLookupTable do.                             *)
(***************************************************************************)
EXTENDS Integers, Sequences, Functions, FiniteSetsExt

CONSTANTS
  NumObjects,    \* bound: entries in the table, all in the pages used
  RootSet,       \* objects of the image file
  GameClasses,   \* bound: the kinds of the objects that the game creates
  MaxNesting     \* bound: finalizers that may be running when one of them
                 \* collects garbage; 0 if finalizers never do

Ids == 1 .. NumObjects
Invalid == 0                   \* VM_INVALID_OBJ

ASSUME TableAssumption ==
  /\ NumObjects \in Nat \ {0} /\ MaxNesting \in Nat
  /\ RootSet \subseteq Ids
  /\ GameClasses \subseteq {"leaf", "plain", "weak", "finalizer"}

VARIABLES
  kind,            \* the class of the object, or Free: free_
  reachable,       \* reachable_
  finalize_state,  \* finalize_state_
  next_obj,        \* next_obj_
  first_free, gc_queue_head, finalize_queue_head,
  ref,             \* the object's reference
  weak,            \* the weak references
  stack,           \* objects on the VM stack, in R0 and in globals
  frames,          \* the objects whose finalizers are running, innermost last
  pc, cursor,      \* where the collector is
  ran              \* history: the objects whose finalizers have started

marks == <<reachable, finalize_state>>
lists == <<next_obj, first_free, gc_queue_head, finalize_queue_head>>
game  == <<ref, weak, stack, frames>>
vars  == <<kind, marks, lists, game, pc, cursor, ran>>

\* reachable_ and finalize_state_; the order of the former is the code's.
Unreachable == 0
FReachable  == 1
Reachable   == 2
FinalizeStates == {"unfinalizable", "finalizable", "finalized"}

\* A free entry, or an object: one without references (a leaf), a plain one,
\* one with weak references, or one with a finalizer.
Free == "free"

free == {o \in Ids : kind[o] = Free}
can_have_refs(o) == kind[o] # "leaf"
can_have_weak_refs(o) == kind[o] = "weak"
has_finalizer(o) == kind[o] = "finalizer"

\* What the game's code has at hand.
AtHand == RootSet \union stack \union Range(frames)

Below(S, o) == LET B == {b \in S : b < o} IN IF B = {} THEN Invalid ELSE Max(B)

\* A page of free entries (alloc_new_page), some of which the image has taken.
Init ==
  LET pool == Ids \ RootSet IN
  /\ kind = [o \in Ids |-> IF o \in RootSet THEN "plain" ELSE Free]
  /\ reachable = [o \in Ids |-> IF o \in RootSet THEN Reachable ELSE Unreachable]
  /\ finalize_state = [o \in Ids |-> IF o \in RootSet THEN "unfinalizable" ELSE "finalized"]
  /\ next_obj = [o \in Ids |-> Below(IF o \in RootSet THEN RootSet ELSE pool, o)]
  /\ first_free = Below(pool, NumObjects + 1)
  /\ gc_queue_head = Below(RootSet, NumObjects + 1)
  /\ finalize_queue_head = Invalid
  /\ ref = [o \in Ids |-> Invalid]
  /\ weak = [o \in Ids |-> Invalid]
  /\ stack = {}
  /\ frames = << >>
  /\ pc = "run"
  /\ cursor = 1
  /\ ran = {}

-----------------------------------------------------------------------------
\* The game, or a finalizer.  It reaches objects by reading references.

\* alloc_obj; the collection it may start first is GcStart.
AllocObj(k) ==
  /\ pc = "run"
  /\ first_free # Invalid          \* bound: no page is added
  /\ LET o == first_free
     IN  /\ first_free' = next_obj[o]
         /\ kind' = [kind EXCEPT ![o] = k]
         /\ reachable' = [reachable EXCEPT ![o] = Unreachable]
         /\ finalize_state' = [finalize_state EXCEPT ![o] = "unfinalizable"]
         /\ stack' = stack \union {o}
         /\ ran' = ran \ {o}
  /\ UNCHANGED <<next_obj, gc_queue_head, finalize_queue_head, ref, weak, frames, pc, cursor>>

SetRef(o, target) ==
  /\ pc = "run"
  /\ o \in AtHand /\ can_have_refs(o)
  /\ target \in AtHand \union {Invalid}
  /\ ref' = [ref EXCEPT ![o] = target]
  /\ UNCHANGED <<kind, marks, lists, weak, stack, frames, pc, cursor, ran>>

SetWeak(o, target) ==
  /\ pc = "run"
  /\ o \in AtHand /\ can_have_weak_refs(o)
  /\ target \in AtHand
  /\ weak' = [weak EXCEPT ![o] = target]
  /\ UNCHANGED <<kind, marks, lists, ref, stack, frames, pc, cursor, ran>>

Push(target) ==
  /\ pc = "run"
  /\ \E o \in AtHand : target \in {ref[o], weak[o]}
  /\ target # Invalid
  /\ stack' = stack \union {target}
  /\ UNCHANGED <<kind, marks, lists, ref, weak, frames, pc, cursor, ran>>

Pop(o) ==
  /\ pc = "run"
  /\ stack' = stack \ {o}
  /\ UNCHANGED <<kind, marks, lists, ref, weak, frames, pc, cursor, ran>>

-----------------------------------------------------------------------------
\* The collector: gc_full, called by the game (t3RunGC) or by alloc_obj.

\* Mutant: the scans run one entry past the end of the page.
Advance_past_end(here, next) ==
  IF cursor <= NumObjects THEN cursor' = cursor + 1 /\ pc' = here
  ELSE cursor' = 1 /\ pc' = next

Advance(here, next) ==
  IF cursor < NumObjects THEN cursor' = cursor + 1 /\ pc' = here
  ELSE cursor' = 1 /\ pc' = next

\* Mutant: an object is queued again when its state is raised.
add_to_gc_queue_again(head, o, state) ==
  IF can_have_refs(o) /\ reachable[o] <= state
  THEN /\ next_obj' = [next_obj EXCEPT ![o] = head]
       /\ gc_queue_head' = o
       /\ reachable' = [reachable EXCEPT ![o] = state]
  ELSE /\ UNCHANGED <<next_obj, reachable>>
       /\ gc_queue_head' = head

\* head is the head of the work queue, as far as the caller has come.
add_to_gc_queue(head, o, state) ==
  IF can_have_refs(o) /\ reachable[o] = Unreachable
  THEN /\ next_obj' = [next_obj EXCEPT ![o] = head]
       /\ gc_queue_head' = o
       /\ reachable' = [reachable EXCEPT ![o] = state]
  ELSE /\ reachable' = [reachable EXCEPT ![o] = IF state > @ THEN state ELSE @]
       /\ gc_queue_head' = head
       /\ UNCHANGED next_obj

LeaveQueue == UNCHANGED <<next_obj, gc_queue_head, reachable>>

GcStart ==
  /\ pc = "run"
  /\ Len(frames) <= MaxNesting
  /\ pc' = "trace"
  /\ UNCHANGED <<kind, marks, lists, game, cursor, ran>>

\* gc_pass_init, for what is on the stack.
GcTrace ==
  /\ pc = "trace"
  /\ IF cursor \in stack \union Range(frames)
     THEN add_to_gc_queue(gc_queue_head, cursor, Reachable) ELSE LeaveQueue
  /\ Advance("trace", "mark")
  /\ UNCHANGED <<kind, finalize_state, first_free, finalize_queue_head, game, ran>>

\* gc_pass_continue: one object of the work queue marks what it refers to.
TraceNext ==
  LET o == gc_queue_head
  IN  /\ gc_queue_head # Invalid
      /\ IF ref[o] # Invalid THEN add_to_gc_queue(next_obj[o], ref[o], reachable[o])
         ELSE gc_queue_head' = next_obj[o] /\ UNCHANGED <<next_obj, reachable>>
      /\ UNCHANGED <<kind, finalize_state, first_free, finalize_queue_head, game, cursor, pc, ran>>

GcMark == pc \in {"mark", "fmark"} /\ TraceNext

GcMarked ==
  /\ pc \in {"mark", "fmark"}
  /\ gc_queue_head = Invalid
  /\ pc' = IF pc = "mark" THEN "scan" ELSE "sweep"
  /\ UNCHANGED <<kind, marks, lists, game, cursor, ran>>

\* Mutant: an object that was finalized before becomes finalizable again.
GcScan_again ==
  /\ pc = "scan"
  /\ IF cursor \in free \union RootSet THEN UNCHANGED finalize_state /\ LeaveQueue
     ELSE /\ finalize_state' =
               [finalize_state EXCEPT ![cursor] =
                  IF reachable[cursor] # Reachable
                  THEN IF has_finalizer(cursor) THEN "finalizable" ELSE "finalized"
                  ELSE @]
          /\ IF finalize_state'[cursor] = "finalizable"
             THEN add_to_gc_queue(gc_queue_head, cursor, FReachable) ELSE LeaveQueue
  /\ Advance("scan", "fmark")
  /\ UNCHANGED <<kind, first_free, finalize_queue_head, game, ran>>

\* gc_pass_finish: what can be finalized now.
GcScan ==
  /\ pc = "scan"
  /\ IF cursor \in free \union RootSet THEN UNCHANGED finalize_state /\ LeaveQueue
     ELSE /\ finalize_state' =
               [finalize_state EXCEPT ![cursor] =
                  IF reachable[cursor] # Reachable /\ @ = "unfinalizable"
                  THEN IF has_finalizer(cursor) THEN "finalizable" ELSE "finalized"
                  ELSE @]
          /\ IF finalize_state'[cursor] = "finalizable"
             THEN add_to_gc_queue(gc_queue_head, cursor, FReachable) ELSE LeaveQueue
  /\ Advance("scan", "fmark")
  /\ UNCHANGED <<kind, first_free, finalize_queue_head, game, ran>>

is_deletable(o) ==
  kind[o] = Free \/ (reachable[o] = Unreachable /\ finalize_state[o] = "finalized")

delete_entry(o) ==
  /\ kind' = [kind EXCEPT ![o] = Free]
  /\ next_obj' = [next_obj EXCEPT ![o] = first_free]
  /\ first_free' = o
  /\ ref' = [ref EXCEPT ![o] = Invalid]
  /\ weak' = [weak EXCEPT ![o] = Invalid]

\* Mutant: weak references are left alone.
remove_stale_weak_refs_none(o) == UNCHANGED weak

remove_stale_weak_refs(o) ==
  weak' = [weak EXCEPT ![o] = IF @ # Invalid /\ is_deletable(@) THEN Invalid ELSE @]

\* Mutant: image objects are marked for the next collection, but not queued.
keep_entry_no_queue(o) ==
  /\ reachable' = [reachable EXCEPT ![o] = IF o \in RootSet THEN Reachable ELSE Unreachable]
  /\ UNCHANGED gc_queue_head
  /\ IF finalize_state[o] = "finalizable"
     THEN /\ next_obj' = [next_obj EXCEPT ![o] = finalize_queue_head]
          /\ finalize_queue_head' = o
     ELSE UNCHANGED <<next_obj, finalize_queue_head>>

\* Mutant: the marks of one collection are still there in the next.
keep_entry_marked(o) ==
  IF o \in RootSet /\ can_have_refs(o)
  THEN /\ next_obj' = [next_obj EXCEPT ![o] = gc_queue_head]
       /\ gc_queue_head' = o
       /\ UNCHANGED <<reachable, finalize_queue_head>>
  ELSE /\ UNCHANGED <<reachable, gc_queue_head>>
       /\ IF finalize_state[o] = "finalizable"
          THEN /\ next_obj' = [next_obj EXCEPT ![o] = finalize_queue_head]
               /\ finalize_queue_head' = o
          ELSE UNCHANGED <<next_obj, finalize_queue_head>>

\* What becomes of an entry that stays: add_to_finalize_queue, and then
\* gc_set_init_conditions, which marks it unreachable again and puts an image
\* object back in the work queue.  No image object is ever finalizable.
keep_entry(o) ==
  IF o \in RootSet /\ can_have_refs(o)
  THEN /\ next_obj' = [next_obj EXCEPT ![o] = gc_queue_head]
       /\ gc_queue_head' = o
       /\ reachable' = [reachable EXCEPT ![o] = Reachable]
       /\ UNCHANGED finalize_queue_head
  ELSE /\ reachable' = [reachable EXCEPT ![o] = IF o \in RootSet THEN Reachable ELSE Unreachable]
       /\ UNCHANGED gc_queue_head
       /\ IF finalize_state[o] = "finalizable"       \* add_to_finalize_queue
          THEN /\ next_obj' = [next_obj EXCEPT ![o] = finalize_queue_head]
               /\ finalize_queue_head' = o
          ELSE UNCHANGED <<next_obj, finalize_queue_head>>

GcSweep ==
  /\ pc = "sweep"
  /\ IF cursor \in free
     THEN UNCHANGED <<kind, reachable, lists, ref, weak>>
     ELSE IF is_deletable(cursor)
     THEN /\ delete_entry(cursor)
          /\ UNCHANGED <<reachable, gc_queue_head, finalize_queue_head>>
     ELSE /\ IF can_have_weak_refs(cursor) THEN remove_stale_weak_refs(cursor)
             ELSE UNCHANGED weak
          /\ keep_entry(cursor)
          /\ UNCHANGED <<kind, first_free, ref>>
  /\ Advance("sweep", "finalize")
  /\ UNCHANGED <<finalize_state, stack, frames, ran>>

\* run_finalizers: the next object leaves the queue and its finalizer starts.
Finalize ==
  LET o == finalize_queue_head
  IN  /\ pc = "finalize"
      /\ o # Invalid
      /\ finalize_queue_head' = next_obj[o]
      /\ finalize_state' = [finalize_state EXCEPT ![o] = "finalized"]
      /\ reachable' = [reachable EXCEPT ![o] = Unreachable]
      /\ frames' = Append(frames, o)
      /\ ran' = ran \union {o}
      /\ pc' = "run"
      /\ UNCHANGED <<kind, next_obj, first_free, gc_queue_head, ref, weak, stack, cursor>>

\* Mutant: one finalizer is run for each collection.
FinalizerReturn_last ==
  /\ pc = "run"
  /\ frames # << >>
  /\ frames' = SubSeq(frames, 1, Len(frames) - 1)
  /\ UNCHANGED <<kind, marks, lists, ref, weak, stack, pc, cursor, ran>>

\* It returns, or throws.
FinalizerReturn ==
  /\ pc = "run"
  /\ frames # << >>
  /\ frames' = SubSeq(frames, 1, Len(frames) - 1)
  /\ pc' = "finalize"
  /\ UNCHANGED <<kind, marks, lists, ref, weak, stack, cursor, ran>>

\* The collector returns to the game, or to the finalizer that called it.
GcReturn ==
  /\ pc = "finalize"
  /\ finalize_queue_head = Invalid
  /\ pc' = "run"
  /\ UNCHANGED <<kind, marks, lists, game, cursor, ran>>

GcStep == GcTrace \/ GcMark \/ GcMarked \/ GcScan \/ GcSweep \/ Finalize \/ GcReturn

Next ==
  \/ \E k \in GameClasses : AllocObj(k)
  \/ \E o \in Ids, target \in Ids \union {Invalid} : SetRef(o, target)
  \/ \E o \in Ids, target \in Ids : SetWeak(o, target)
  \/ \E target \in Ids : Push(target)
  \/ \E o \in stack : Pop(o)
  \/ GcStart
  \/ GcStep
  \/ FinalizerReturn

\* The collector runs to its end, and so does every finalizer.
Spec == Init /\ [][Next]_vars /\ WF_vars(GcStep) /\ WF_vars(FinalizerReturn)

-----------------------------------------------------------------------------
\* Type correctness.
TypeOK ==
  /\ kind \in [Ids -> GameClasses \union {"plain", Free}]
  /\ reachable \in [Ids -> {Unreachable, FReachable, Reachable}]
  /\ finalize_state \in [Ids -> FinalizeStates]
  /\ next_obj \in [Ids -> Ids \union {Invalid}]
  /\ {first_free, gc_queue_head, finalize_queue_head} \subseteq Ids \union {Invalid}
  /\ ref \in [Ids -> Ids \union {Invalid}] /\ weak \in [Ids -> Ids \union {Invalid}]
  /\ stack \subseteq Ids /\ frames \in Seq(Ids)
  /\ pc \in {"run", "trace", "mark", "scan", "fmark", "sweep", "finalize"}
  /\ cursor \in Ids /\ ran \subseteq Ids

\* What is met from o along the links f.
Path(f, o) ==
  LET walk[n \in 0 .. NumObjects] ==
        IF n = 0 THEN o ELSE IF walk[n - 1] = Invalid THEN Invalid ELSE f[walk[n - 1]]
  IN  walk

Met(f, o) == Range(Path(f, o)) \ {Invalid}
Ends(f, o) == Path(f, o)[NumObjects] = Invalid

\* What the game can reach from the objects S.
Closure(S) == UNION {Met(ref, o) : o \in S}

\* The game never has its hands on a deleted object, and no object that is
\* left refers to one: neither by its reference nor by a weak one, whatever
\* finalizers resurrected or allocated anew.
NoDangling ==
  /\ AtHand \intersect free = {}
  /\ pc # "sweep" => \A o \in Ids \ free : ref[o] \notin free /\ weak[o] \notin free

\* "An object can only be in one queue" (vmobj.h): the lists that share
\* next_obj end, have no object in common, and the free list has all the free
\* entries and no other.
OneQueue ==
  LET Unused == Met(next_obj, first_free)
      Work   == Met(next_obj, gc_queue_head)
      Due    == Met(next_obj, finalize_queue_head)
  IN  /\ Ends(next_obj, first_free) /\ Ends(next_obj, gc_queue_head)
      /\ Ends(next_obj, finalize_queue_head)
      /\ Unused = free
      /\ Work \intersect (Unused \union Due) = {} /\ Due \intersect Unused = {}

\* gc_pass_init and run_finalizers may count on it: while the game runs, all
\* image objects, and they alone, are marked and in the work queue, and the
\* objects whose finalizers are due are in the other.
GcInitialConditions ==
  pc = "run" =>
    /\ Met(next_obj, gc_queue_head) = RootSet
    /\ \A o \in Ids \ free : reachable[o] = IF o \in RootSet THEN Reachable ELSE Unreachable
    /\ Met(next_obj, finalize_queue_head) = {o \in Ids : finalize_state[o] = "finalizable"}

\* A collection leaves only what the game can still reach, or a finalizer that
\* is due; everything else is gone when the finalizers start.
GarbageCollected ==
  [][ (pc = "sweep" /\ pc' = "finalize") =>
        Ids \ free' \subseteq
          Closure(AtHand \union {o \in Ids : finalize_state[o] = "finalizable"})' ]_vars

\* No object is finalized twice, nor unless it was out of the game's reach when
\* it became finalizable.
FinalizeOnce ==
  [][ \A o \in Ids :
        /\ frames' = Append(frames, o) => o \notin ran
        /\ (finalize_state[o] # "finalizable" /\ finalize_state'[o] = "finalizable")
             => o \notin Closure(AtHand) ]_vars

\* Every finalizer that is due runs, so that the collector returns to the game.
FinalizersRun ==
  \A o \in Ids : finalize_state[o] = "finalizable" ~> finalize_state[o] = "finalized"
=============================================================================
