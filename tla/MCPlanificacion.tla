--------------------------- MODULE MCPlanificacion ---------------------------
(* Instances of the scheduler for TLC. *)
EXTENDS Propiedades, TLC

CONSTANTS c1, c2, m

UnaCPU  == {c1}
DosCPUs == {c1, c2}
UnSemaforo == {m}
Ninguno == {}
ValorCero == [s \in UnSemaforo |-> 0]
SinValores == [s \in Ninguno |-> 0]
MataUsuario == {<<"usuario", 1>>}
MatanDos == {<<"usuario", 1>>, <<"abortador", 1>>}
Simetria == Permutations(DosCPUs)
=============================================================================
