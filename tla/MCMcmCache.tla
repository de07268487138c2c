----------------------------- MODULE MCMcmCache -----------------------------
(* Small instances of McmCache: two objects of the game file and one that the *)
(* game allocates.  A chunk holds one object of the size the game asks for.   *)
EXTENDS McmCache

CONSTANTS s1, s2, d1

MCStatics  == {s1, s2}
MCDynamics == {d1}
=============================================================================
