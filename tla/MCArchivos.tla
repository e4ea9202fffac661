------------------------------ MODULE MCArchivos ------------------------------
(***************************************************************************)
(* Instances of the file layer for TLC.                                    *)
(***************************************************************************)
EXTENDS PropiedadesArchivos, TLC

CONSTANTS p1, p2, a, b

DosProcesos == {p1, p2}
DosRutas == {a, b}
ConTodo == {{"c", "r", "w"}}
SinCrear == {{"r"}, {"w"}}
Simetria == Permutations(Pids) \cup Permutations(Rutas)
=============================================================================
