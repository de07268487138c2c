------------------------------ MODULE MCVmUndo ------------------------------
(***************************************************************************)
(* Instances of VmUndo for TLC.                                            *)
(***************************************************************************)
EXTENDS VmUndo

CONSTANTS o1, o2, o3, p1, p2, v1, v2

\* An image object is loaded with one property.
OneImageProp == <<p1>>
=============================================================================
