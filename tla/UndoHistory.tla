----------------------------- MODULE UndoHistory -----------------------------
(***************************************************************************)
(* What undo promises to the player of a TADS game: savepoints form a      *)
(* history of states of the heap.  Undo goes back to the newest of them,   *)
(* exactly; savepoints may be forgotten, but only the oldest ones.  About  *)
(* objects that did not exist at the savepoint nothing is promised.        *)
(***************************************************************************)
EXTENDS Sequences, Naturals

CONSTANTS
  Objects,   \* everything that may exist
  None       \* the state of what does not exist

VARIABLES
  state,     \* the state of each object
  history,   \* the states at the savepoints, oldest first
  undoing    \* an undo is under way

vars == <<state, history, undoing>>

\* s without some number of its oldest elements
Remembered(s) == {SubSeq(s, i, Len(s)) : i \in 1 .. (Len(s) + 1)}

Init ==
  /\ history = << >>
  /\ undoing = FALSE

\* The game changes objects, creates some, or starts over.
Change ==
  /\ ~undoing /\ ~undoing'
  /\ history' \in Remembered(history)

Save ==
  /\ ~undoing /\ ~undoing'
  /\ history' \in Remembered(Append(history, state))
  /\ UNCHANGED state

BeginUndo ==
  /\ ~undoing /\ undoing'
  /\ history # << >>
  /\ UNCHANGED <<state, history>>

Newest == history[Len(history)]

Rewind ==
  /\ undoing /\ undoing'
  /\ UNCHANGED history

EndUndo ==
  /\ undoing /\ ~undoing'
  /\ \A o \in Objects : Newest[o] # None => state'[o] = Newest[o]
  /\ history' = SubSeq(history, 1, Len(history) - 1)

Next == Change \/ Save \/ BeginUndo \/ Rewind \/ EndUndo

Spec == Init /\ [][Next]_vars
=============================================================================
