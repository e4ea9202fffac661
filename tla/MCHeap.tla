-------------------------------- MODULE MCHeap --------------------------------
(***************************************************************************)
(* Instances of the heap for TLC.                                          *)
(***************************************************************************)
EXTENDS PropiedadesHeap, TLC

CONSTANTS p1, p2

DosProcesos == {p1, p2}
Simetria == Permutations(DosProcesos)
=============================================================================
