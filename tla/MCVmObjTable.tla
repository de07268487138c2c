---------------------------- MODULE MCVmObjTable ----------------------------
(***************************************************************************)
(* Instances of VmObjTable for TLC.  The image object comes first, as the  *)
(* compiler numbers them.                                                  *)
(***************************************************************************)
EXTENDS VmObjTable

OneImageObject == {1}

FinalizerGame == {"plain", "finalizer"}
WeakGame      == {"leaf", "weak", "finalizer"}
=============================================================================
