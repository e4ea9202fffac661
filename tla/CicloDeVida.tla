----------------------------- MODULE CicloDeVida -----------------------------
(***************************************************************************)
(* What the scheduler promises of a program, without lists, threads or     *)
(* semaphores: the states it goes through, in which order programs are     *)
(* admitted, and how many may be in the system or on a CPU at a time.      *)
(***************************************************************************)
EXTENDS Integers, FiniteSets

CONSTANTS MaxPid, CPUs

VARIABLES estado,    \* of each pid
          gradoMax   \* the degree of multiprogramming in force

cicloVars == <<estado, gradoMax>>

Procesos == 1..MaxPid
EstadosActivos == {"listo", "ejecucion", "bloqueado", "saliendo"}

En(estados) == {p \in Procesos : estado[p] \in estados}

Init ==
  /\ estado = [p \in Procesos |-> "porLlegar"]
  /\ gradoMax \in Int

Pasar(p, desde, hasta) ==
  /\ estado[p] \in desde
  /\ estado' = [estado EXCEPT ![p] = hasta]
  /\ UNCHANGED gradoMax

\* pids are given in the order of arrival.
Llegar(p) == Pasar(p, {"porLlegar"}, "nuevo") /\ \A q \in 1..(p - 1) : estado[q] # "porLlegar"

\* Programs are admitted in that order, while fewer than the degree are active.
Admitir(p) ==
  /\ Pasar(p, {"nuevo"}, "listo")
  /\ \A q \in 1..(p - 1) : estado[q] # "nuevo"
  /\ Cardinality(En(EstadosActivos)) < gradoMax

\* A program that is killed, or gets no memory, before it was admitted.
Rechazar(p) == Pasar(p, {"nuevo"}, "rechazado")

Despachar(p) ==
  /\ Pasar(p, {"listo"}, "ejecucion")
  /\ Cardinality(En({"ejecucion"})) < Cardinality(CPUs)

Desalojar(p) == Pasar(p, {"ejecucion"}, "listo")
Bloquear(p)  == Pasar(p, {"ejecucion"}, "bloqueado")
Despertar(p) == Pasar(p, {"bloqueado"}, "listo")

\* It ends by itself, by an error, or by a kill: a running program only when it
\* stops running, the others where they are.
Salir(p)    == Pasar(p, {"listo", "ejecucion", "bloqueado"}, "saliendo")
Terminar(p) == Pasar(p, {"saliendo"}, "terminado")

CambiarGrado ==
  /\ gradoMax' \in Int
  /\ UNCHANGED estado

Next ==
  \/ /\ estado' # estado
     /\ \E p \in Procesos :
          \/ Llegar(p) \/ Admitir(p) \/ Rechazar(p) \/ Despachar(p) \/ Desalojar(p)
          \/ Bloquear(p) \/ Despertar(p) \/ Salir(p) \/ Terminar(p)
  \/ CambiarGrado

Spec == Init /\ [][Next]_cicloVars
=============================================================================
