---------------------------- MODULE MCOIDebugger ---------------------------
(***************************************************************************)
(* OIDebugger on two or three threads.  The threads other than the main    *)
(* one are interchangeable unless one of them is started later.            *)
(***************************************************************************)
EXTENDS OIDebugger, TLC

Others == Permutations(Threads \ {Main})

=============================================================================
