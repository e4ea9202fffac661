------------------------------ MODULE Asignador ------------------------------
(***************************************************************************)
(* What dynamic memory promises to the programs, without blocks, free      *)
(* space or compaction: what is reserved for a program lies in one page,   *)
(* behind its metadata, meets nothing else that is reserved for it, and    *)
(* stays until the program releases it or ends.                            *)
(***************************************************************************)
EXTENDS Integers

CONSTANTS Pids, TamPagina, TamMeta, Tamanios

VARIABLES reservas,     \* of each process
          punteros      \* those it knows of

varsAsignador == <<reservas, punteros>>

Extension(r) == (r.inicio - TamMeta)..(r.inicio + r.tam - 1)
Puntero(r)   == [pagina |-> r.pagina, offset |-> r.inicio]

Aparte(r, s) == r.pagina # s.pagina \/ Extension(r) \cap Extension(s) = {}

InitAsignador ==
  /\ reservas = [p \in Pids |-> {}]
  /\ punteros = [p \in Pids |-> {}]

\* The program may not be told.
Reservar(p) ==
  \E r \in reservas'[p] \ reservas[p] :
    /\ r.tam \in Tamanios
    /\ Extension(r) \subseteq 0..(TamPagina - 1)
    /\ \A s \in reservas[p] : Aparte(r, s)
    /\ reservas' = [reservas EXCEPT ![p] = @ \cup {r}]
    /\ \/ punteros' = [punteros EXCEPT ![p] = @ \cup {Puntero(r)}]
       \/ UNCHANGED punteros

Liberar(p) ==
  \E r \in reservas[p] :
    /\ Puntero(r) \in punteros[p]
    /\ reservas' = [reservas EXCEPT ![p] = @ \ {r}]
    /\ punteros' = [punteros EXCEPT ![p] = @ \ {Puntero(r)}]

Acabar(p) ==
  /\ reservas' = [reservas EXCEPT ![p] = {}]
  /\ punteros' = [punteros EXCEPT ![p] = {}]

NextAsignador ==
  /\ varsAsignador' # varsAsignador
  /\ \E p \in Pids : Reservar(p) \/ Liberar(p) \/ Acabar(p)

SpecAsignador == InitAsignador /\ [][NextAsignador]_varsAsignador
=============================================================================
