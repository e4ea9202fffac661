------------------------------ MODULE MCMemoria ------------------------------
(***************************************************************************)
(* Instances of Memoria for TLC.                                           *)
(***************************************************************************)
EXTENDS PropiedadesMemoria

CONSTANTS c1, c2

UnaCpu == {c1}
=============================================================================
