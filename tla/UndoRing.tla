------------------------------ MODULE UndoRing ------------------------------
(***************************************************************************)
(* The undo manager CVmUndo of the TADS 3 VM (tads3/vmundo.cpp): a fixed   *)
(* array of records used as a circle.  A savepoint occupies consecutive    *)
(* slots: first a link, which points to the links of the neighbouring      *)
(* savepoints, then the undo records made while it was current.            *)
(*                                                                         *)
(* The module defines the manager's methods as operators on its fields,    *)
(* kept in a record u; VmUndo makes them the steps of a machine.  The      *)
(* array is an untagged union in the code, and so it is here: a slot holds *)
(* whatever was stored last, and nothing but the links says which kind.    *)
(* A slot that is given back is overwritten with Freed, so that reading a  *)
(* released slot shows.  cur_savept_ is left out: nothing reads it.        *)
(***************************************************************************)
EXTENDS Integers, Sequences

CONSTANTS
  RingSize,      \* rec_arr_size_ (VM_UNDO_MAX_RECORDS)
  MaxSavepts     \* max_savepts_ (VM_UNDO_MAX_SAVEPTS)

ASSUME RingAssumption == RingSize \in Nat \ {0} /\ MaxSavepts \in Nat \ {0}

Slots == 0 .. (RingSize - 1)
Null  == -1                        \* the null record pointer
Pointers == Slots \union {Null}
Freed == [freed |-> TRUE]

Link(prev, next) == [prev_first |-> prev, next_first |-> next]
Links == [prev_first : Pointers, next_first : Pointers]

\* Mutant: the pointer wraps one slot too late.
inc_rec_ptr_late(s) == IF s = RingSize THEN 0 ELSE s + 1

inc_rec_ptr(s) == IF s = RingSize - 1 THEN 0 ELSE s + 1
dec_rec_ptr(s) == IF s = 0 THEN RingSize - 1 ELSE s - 1

\* Steps of inc_rec_ptr that lead from slot a to slot b.
Dist(a, b) == IF a <= b THEN b - a ELSE b - a + RingSize

\* Slots a loop visits that starts at a and stops at b, once it has moved.
Span(a, b) == IF a = b THEN RingSize ELSE Dist(a, b)

\* The slots that hold the savepoints: from the oldest link to next_free.
InUse(u, s) ==
  u.savept_cnt > 0 /\ Dist(u.oldest_first, s) < Span(u.oldest_first, u.next_free)

\* The last n elements of s; the links that remain are always the newest.
Newest(s, n) == SubSeq(s, Len(s) - n + 1, Len(s))

NewUndo ==
  [ring |-> [s \in Slots |-> Freed], cur_first |-> Null, oldest_first |-> Null,
   next_free |-> 0, savept_cnt |-> 0]

-----------------------------------------------------------------------------
\* Mutant: the new oldest link still points back to the dropped one.
DropSegment_keep_prev(u) ==
  LET first == u.oldest_first
      next  == u.ring[first].next_first
      size  == Span(first, IF next = Null THEN u.next_free ELSE next)
  IN  [ring |-> [s \in Slots |-> IF Dist(first, s) < size THEN Freed ELSE u.ring[s]],
       cur_first    |-> IF next = Null THEN Null ELSE u.cur_first,
       oldest_first |-> next,
       next_free    |-> u.next_free,
       savept_cnt   |-> u.savept_cnt - 1]

\* The discarding loop ends at the next link or at next_free, whichever it
\* meets first; with RingOK (below) the next link, if there is one.
DropSegment(u) ==
  LET first == u.oldest_first
      next  == u.ring[first].next_first
      size  == Span(first, IF next = Null THEN u.next_free ELSE next)
  IN  [ring |-> [s \in Slots |->
                   IF Dist(first, s) < size THEN Freed
                   ELSE IF s = next THEN Link(Null, u.ring[s].next_first)
                   ELSE u.ring[s]],
       cur_first    |-> IF next = Null THEN Null ELSE u.cur_first,
       oldest_first |-> next,
       next_free    |-> u.next_free,
       savept_cnt   |-> u.savept_cnt - 1]

drop_oldest_savept(u) == IF u.savept_cnt = 0 THEN u ELSE DropSegment(u)

drop_undo(u) == NewUndo

\* The loop of alloc_rec: it drops the oldest savepoint while the ring is
\* full, and gives up when that was the last one.  One drop always makes room
\* (DropMakesRoom in UndoRing_proof), so a second turn takes the slot.
HasRoom(u) == u.savept_cnt = 0 \/ u.next_free # u.oldest_first

Take(u) ==
  [undo |-> [ring |-> u.ring, cur_first |-> u.cur_first, oldest_first |-> u.oldest_first,
             next_free |-> inc_rec_ptr(u.next_free), savept_cnt |-> u.savept_cnt],
   rec  |-> u.next_free]

alloc_rec(u) ==
  IF HasRoom(u) THEN Take(u)
  ELSE IF u.savept_cnt > 1 THEN Take(drop_oldest_savept(u))
  ELSE [undo |-> drop_oldest_savept(u), rec |-> Null]

Store(u, slot, record) ==
  [ring |-> [u.ring EXCEPT ![slot] = record], cur_first |-> u.cur_first,
   oldest_first |-> u.oldest_first, next_free |-> u.next_free, savept_cnt |-> u.savept_cnt]

\* participates: is_obj_in_undo(controlling_obj)
add_new_record(u, participates, record) ==
  IF u.savept_cnt = 0 \/ ~participates THEN u
  ELSE LET a == alloc_rec(u)
       IN  IF a.rec = Null THEN a.undo ELSE Store(a.undo, a.rec, record)

\* The new link is chained in before the oldest savepoint makes way for it.
PushLink(u, rec) ==
  [ring |-> [s \in Slots |->
               IF s = rec THEN Link(u.cur_first, Null)
               ELSE IF s = u.cur_first THEN Link(u.ring[s].prev_first, rec)
               ELSE u.ring[s]],
   cur_first    |-> rec,
   oldest_first |-> IF u.oldest_first = Null THEN rec ELSE u.oldest_first,
   next_free    |-> u.next_free,
   savept_cnt   |-> u.savept_cnt]

CountSavept(u) ==
  [ring |-> u.ring, cur_first |-> u.cur_first, oldest_first |-> u.oldest_first,
   next_free |-> u.next_free, savept_cnt |-> u.savept_cnt + 1]

\* Mutant: a savepoint is given up one too early.
create_savept_early(u) ==
  LET a == alloc_rec(u)
      c == PushLink(a.undo, a.rec)
  IN  IF a.rec = Null THEN a.undo
      ELSE CountSavept(IF c.savept_cnt >= MaxSavepts - 1 THEN drop_oldest_savept(c) ELSE c)

create_savept(u) ==
  LET a == alloc_rec(u)
      c == PushLink(a.undo, a.rec)
  IN  IF a.rec = Null THEN a.undo
      ELSE CountSavept(IF c.savept_cnt = MaxSavepts THEN drop_oldest_savept(c) ELSE c)

\* The end of undo_to_savept, once the loop has come back to the current link.
unwind(u) ==
  LET first == u.cur_first
      prev  == u.ring[first].prev_first
  IN  [ring |-> [s \in Slots |->
                   IF Dist(first, s) < Span(first, u.next_free) THEN Freed
                   ELSE IF s = prev THEN Link(u.ring[s].prev_first, Null)
                   ELSE u.ring[s]],
       cur_first    |-> prev,
       oldest_first |-> IF prev = Null THEN Null ELSE u.oldest_first,
       next_free    |-> first,
       savept_cnt   |-> u.savept_cnt - 1]

-----------------------------------------------------------------------------
\* f lists the links, from the oldest savepoint to the current one.
IsLink(f, s) == \E i \in 1 .. Len(f) : f[i] = s

\* What holds the ring together.  The pointers of the manager and of the links
\* follow f, the links lie in the ring in this order, and no slot is lost.
RingOK(u, f) ==
  /\ Len(f) = u.savept_cnt
  /\ IF f = << >> THEN u.oldest_first = Null /\ u.cur_first = Null
     ELSE u.oldest_first = f[1] /\ u.cur_first = f[Len(f)]
  /\ \A i \in 1 .. Len(f) :
       /\ InUse(u, f[i])
       /\ u.ring[f[i]] = Link(IF i = 1 THEN Null ELSE f[i - 1],
                              IF i = Len(f) THEN Null ELSE f[i + 1])
  /\ \A i, j \in 1 .. Len(f) : i < j => Dist(f[1], f[i]) < Dist(f[1], f[j])
  /\ \A s \in Slots : ~InUse(u, s) => u.ring[s] = Freed
=============================================================================
