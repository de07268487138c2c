------------------------------ MODULE MCObjUndo ------------------------------
(***************************************************************************)
(* Instances of ObjUndo for TLC: a short and a long value, and one fuse.   *)
(***************************************************************************)
EXTENDS ObjUndo

CONSTANTS short, long, fuse

Values   == {short, long}
Lengths  == [v \in Values |-> IF v = short THEN 0 ELSE 2]
OneFuse  == <<fuse>>
=============================================================================
