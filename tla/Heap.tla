--------------------------------- MODULE Heap ---------------------------------
(***************************************************************************)
(* The dynamic memory of the programs (Kernel/src/heap.h).  A page of heap *)
(* is a row of blocks, each behind its metadata; listaAdmHeap has an entry *)
(* per page with how much of it is free.                                   *)
(*                                                                         *)
(* principal is the main thread of the Kernel, that attends a request at a *)
(* time; a step of it is an access to listaAdmHeap or one round of a loop  *)
(* over a page.  fin is administrarFinProcesos ending a process: it takes  *)
(* entries from listaAdmHeap meanwhile.  Its mutex is let go of by         *)
(* verificarEspacioLibreHeap in every round and taken only for the first.  *)
(***************************************************************************)
EXTENDS Integers, Sequences, FiniteSets, SequencesExt

CONSTANTS
  Pids,
  TamPagina,       \* config_paginaSize
  TamMeta,         \* sizeof(t_bloqueMetadata)
  Tamanios,        \* sizes that programs ask for
  Capacidad        \* frames of Memoria left for heaps

ASSUME HeapAssumption ==
  /\ TamMeta \in Nat \ {0} /\ TamPagina \in Nat /\ TamPagina > 2 * TamMeta
  /\ Tamanios \subseteq Nat /\ Capacidad \in Nat
  /\ "nadie" \notin Pids

VARIABLES
  lista,       \* listaAdmHeap
  paginas,     \* the pages of heap of each process, in Memoria
  contable,    \* listaContable: pages, and blocks and bytes not released
  proceso,     \* whether it runs, has to end (for its size or for a frame), ends or has ended
  punteros,    \* what each program was given and has not released
  principal,   \* the main thread
  fin,         \* the thread that ends processes
  mutex,       \* mutexListaAdminHeap
  fallo        \* why the Kernel fell, or reads what is no metadata or no order

vars == <<lista, paginas, contable, proceso, punteros, principal, fin, mutex, fallo>>

Offsets == 0..(TamPagina - 1)
Ocioso == [paso |-> "libre", pid |-> "nadie", tam |-> 0, i |-> 0, pagina |-> 0,
           offset |-> 0, previo |-> 0, juntados |-> 0, nueva |-> FALSE]
FinLibre == [paso |-> "libre", pid |-> "nadie", indice |-> 0]

-----------------------------------------------------------------------------
(* A page: what its metadata says, where there is metadata.                *)

SinMeta == [usado |-> FALSE, tam |-> -1]
Cabezas(b) == {h \in Offsets : b[h] # SinMeta}

PaginaNueva ==
  [h \in Offsets |-> IF h = 0 THEN [usado |-> FALSE, tam |-> TamPagina - TamMeta] ELSE SinMeta]

\* Where the block after that of h starts.
Siguiente(b, h) == h + TamMeta + b[h].tam

Juntar(b, h) ==
  LET k == Siguiente(b, h) IN
  [b EXCEPT ![h].tam = @ + TamMeta + b[k].tam, ![k] = SinMeta]

PartirSinMeta(b, h, tam) ==
  [b EXCEPT ![h] = [usado |-> TRUE, tam |-> tam],
            ![h + TamMeta + tam] = [usado |-> FALSE, tam |-> b[h].tam - tam]]

Partir(b, h, tam) ==
  [b EXCEPT ![h] = [usado |-> TRUE, tam |-> tam],
            ![h + TamMeta + tam] = [usado |-> FALSE, tam |-> b[h].tam - tam - TamMeta]]

LibresAlguna(b, hs) == \E h \in hs : ~b[h].usado
Libres(b, hs)       == \A h \in hs : ~b[h].usado

Otorgadas == {o \in Pids \X (1..Capacidad) : o[2] <= Len(paginas[o[1]])}

-----------------------------------------------------------------------------
Init ==
  /\ lista = <<>>
  /\ paginas = [p \in Pids |-> <<>>]
  /\ contable = [p \in Pids |-> [paginas |-> 0, bloques |-> 0, bytes |-> 0]]
  /\ proceso = [p \in Pids |-> "activo"]
  /\ punteros = [p \in Pids |-> {}]
  /\ principal = Ocioso /\ fin = FinLibre
  /\ mutex = "libre" /\ fallo = "ninguno"

En(paso) == fallo = "ninguno" /\ principal.paso = paso
Actual == paginas[principal.pid][principal.pagina + 1]
CambiarPagina(b) == paginas' = [paginas EXCEPT ![principal.pid][principal.pagina + 1] = b]

ContarBloques(p, bloques, bytes) ==
  contable' = [contable EXCEPT ![p].bloques = @ + bloques]

Contar(p, bloques, bytes) ==
  contable' = [contable EXCEPT ![p].bloques = @ + bloques, ![p].bytes = @ + bytes]

\* The entry of a page is looked for from the start, with the mutex.
Entrada(e) == e.pid = principal.pid /\ e.pagina = principal.pagina
SumarLibre(cuanto) ==
  /\ mutex = "libre"
  /\ \/ /\ \A i \in DOMAIN lista : ~Entrada(lista[i])
        /\ UNCHANGED lista
     \/ \E i \in DOMAIN lista :
          /\ Entrada(lista[i]) /\ \A j \in 1..(i - 1) : ~Entrada(lista[j])
          /\ lista' = [lista EXCEPT ![i].libre = @ + cuanto]

-----------------------------------------------------------------------------
(* gestionarAlocar                                                         *)

\* What fits in no page ends the program.
Demasiado(tam) == tam > TamPagina - 2 * TamMeta

PedirBloque(p, tam) ==
  /\ En("libre") /\ proceso[p] = "activo"
  /\ IF Demasiado(tam)
     THEN proceso' = [proceso EXCEPT ![p] = "saliendo"] /\ UNCHANGED principal
     ELSE principal' = [Ocioso EXCEPT !.paso = "mirar", !.pid = p, !.tam = tam]
          /\ UNCHANGED proceso
  /\ UNCHANGED <<lista, paginas, contable, punteros, fin, mutex, fallo>>

\* verificarEspacioLibreHeap: after the first round the size of the list, and the
\* entry, are read without the mutex; the loop and its end let go of it all the same.
MirarLista ==
  /\ En("mirar")
  /\ principal.i = 0 => mutex = "libre"
  /\ IF principal.i < Len(lista)
     THEN /\ principal' = [principal EXCEPT !.paso = "tomar"]
          /\ mutex' = IF principal.i = 0 THEN "principal" ELSE mutex
     ELSE /\ principal' = [principal EXCEPT !.paso = "pedirPagina", !.i = 0]
          /\ mutex' = "libre"
  /\ UNCHANGED <<lista, paginas, contable, proceso, punteros, fin, fallo>>

\* The entry has room enough, perhaps in pieces; compared without sign.
Alcanza(e) ==
  /\ e.libre < 0 \/ e.libre >= principal.tam + TamMeta
  /\ e.pid = principal.pid

TomarEntrada ==
  /\ En("tomar")
  /\ IF principal.i < Len(lista)
     THEN LET e == lista[principal.i + 1] IN
          /\ principal' = IF Alcanza(e)
               THEN [principal EXCEPT !.paso = "compactar", !.pagina = e.pagina,
                                      !.offset = 0, !.previo = 0, !.juntados = 0]
               ELSE [principal EXCEPT !.paso = "mirar", !.i = @ + 1]
          /\ mutex' = "libre"
          /\ UNCHANGED fallo
     ELSE fallo' = "entradaNula" /\ UNCHANGED <<principal, mutex>>
  /\ UNCHANGED <<lista, paginas, contable, proceso, punteros, fin>>

QuedaOtroAntes ==
  principal.offset + TamMeta + principal.previo < TamPagina - 2 * TamMeta

\* compactarPaginaHeap.  The loop looks at the size of the block of the round
\* before, 0 in the first.
QuedaOtro ==
  principal.offset + TamMeta + principal.previo < TamPagina - TamMeta

Compactar ==
  /\ En("compactar") /\ QuedaOtro
  /\ LET b == Actual
         h == principal.offset
         k == Siguiente(b, h)
     IN IF h \in Cabezas(b) /\ k \in Cabezas(b)
        THEN /\ \/ /\ Libres(b, {h, k})
                   /\ CambiarPagina(Juntar(b, h))
                   /\ principal' = [principal EXCEPT !.previo = Juntar(b, h)[h].tam,
                                                     !.juntados = @ + TamMeta]
                \/ /\ ~Libres(b, {h, k})
                   /\ principal' = [principal EXCEPT !.offset = k, !.previo = b[k].tam]
                   /\ UNCHANGED paginas
             /\ UNCHANGED fallo
        ELSE fallo' = "sinBloque" /\ UNCHANGED <<paginas, principal>>
  /\ UNCHANGED <<lista, contable, proceso, punteros, fin, mutex>>

SumarJuntados ==
  /\ En("compactar") /\ ~QuedaOtro
  /\ SumarLibre(principal.juntados)
  /\ principal' = [principal EXCEPT !.paso = "buscar", !.offset = 0, !.previo = 0,
                                    !.juntados = 0]
  /\ UNCHANGED <<paginas, contable, proceso, punteros, fin, mutex, fallo>>

\* paginaHeapBloqueSuficiente
Suficiente(bloque) == bloque.tam >= principal.tam + TamMeta /\ ~bloque.usado

BuscarBloque ==
  /\ En("buscar")
  /\ IF principal.offset >= TamPagina
     THEN /\ principal' = [principal EXCEPT !.paso = "mirar", !.i = @ + 1, !.pagina = 0,
                                         !.offset = 0]
          /\ UNCHANGED <<mutex, fallo>>
     ELSE IF principal.offset \notin Cabezas(Actual)
     THEN fallo' = "sinBloque" /\ UNCHANGED <<principal, mutex>>
     ELSE IF Suficiente(Actual[principal.offset])
     THEN /\ principal' = [principal EXCEPT !.paso = "descontar", !.i = 0]
          /\ mutex' = "libre"
          /\ UNCHANGED fallo
     ELSE /\ principal' = [principal EXCEPT !.offset = Siguiente(Actual, @)]
          /\ UNCHANGED <<mutex, fallo>>
  /\ UNCHANGED <<lista, paginas, contable, proceso, punteros, fin>>

\* obtenerPaginaSiguiente and reservarPaginaHeap: the number is the Kernel's, the
\* page Memoria's.  gestionarAlocar counts the request that finds no frame too.
PedirPagina ==
  /\ En("pedirPagina")
  /\ LET p == principal.pid IN
     \/ /\ Cardinality(Otorgadas) = Capacidad
        /\ proceso' = [proceso EXCEPT ![p] = "rechazado"]
        /\ Contar(p, 1, principal.tam)
        /\ principal' = Ocioso
        /\ UNCHANGED <<paginas, fallo>>
     \/ /\ Cardinality(Otorgadas) < Capacidad
        /\ IF contable[p].paginas = Len(paginas[p])
           THEN /\ paginas' = [paginas EXCEPT ![p] = Append(@, PaginaNueva)]
                /\ principal' = [principal EXCEPT !.paso = "agregar", !.offset = 0,
                                   !.pagina = contable[p].paginas, !.nueva = TRUE]
                /\ UNCHANGED fallo
           ELSE fallo' = "otraPagina" /\ UNCHANGED <<paginas, principal>>
        /\ UNCHANGED <<proceso, contable>>
  /\ UNCHANGED <<lista, punteros, fin, mutex>>

\* The entry of a new page is added without the mutex.
AgregarEntrada ==
  /\ En("agregar")
  /\ lista' = Append(lista, [pagina |-> principal.pagina, pid |-> principal.pid,
                             libre |-> TamPagina - TamMeta])
  /\ contable' = [contable EXCEPT ![principal.pid].paginas = @ + 1]
  /\ principal' = [principal EXCEPT !.paso = "descontar"]
  /\ UNCHANGED <<paginas, proceso, punteros, fin, mutex, fallo>>

DescuentoSinMeta == principal.tam
Descuento        == principal.tam + TamMeta

\* reservarBloqueHeap
Descontar ==
  /\ En("descontar")
  /\ SumarLibre(-Descuento)
  /\ principal' = [principal EXCEPT !.paso = "partir"]
  /\ UNCHANGED <<paginas, contable, proceso, punteros, fin, mutex, fallo>>

\* The result that is sent has no value when the page is not new: if it is negative the
\* CPU does not read the pointer and sends its PCB to a Kernel that has served the request
\* and reads the bytes of that PCB as orders, which stops the model.
PartirBloque ==
  /\ En("partir")
  /\ LET p == principal.pid
         h == principal.offset
         negativo == IF principal.nueva THEN {FALSE} ELSE BOOLEAN
     IN /\ CambiarPagina(Partir(Actual, h, principal.tam))
        /\ Contar(p, 1, principal.tam)
        /\ \E error \in negativo :
             IF error
             THEN fallo' = "desincronizado" /\ UNCHANGED punteros
             ELSE /\ punteros' = [punteros EXCEPT ![p] = @ \cup
                                    {[pagina |-> principal.pagina, offset |-> h + TamMeta]}]
                  /\ UNCHANGED fallo
  /\ principal' = Ocioso
  /\ UNCHANGED <<lista, proceso, fin, mutex>>

-----------------------------------------------------------------------------
(* liberarBloqueHeap                                                       *)

LiberarBloque(p, r) ==
  /\ En("libre") /\ proceso[p] = "activo"
  /\ punteros' = [punteros EXCEPT ![p] = @ \ {r}]
  /\ LET h == r.offset - TamMeta
         b == paginas[p][r.pagina + 1]
     IN /\ paginas' = [paginas EXCEPT ![p][r.pagina + 1] = [b EXCEPT ![h].usado = FALSE]]
        /\ Contar(p, -1, -b[h].tam)
        /\ principal' = [Ocioso EXCEPT !.paso = "liberar", !.pid = p, !.pagina = r.pagina,
                                       !.tam = b[h].tam]
  /\ UNCHANGED <<lista, proceso, fin, mutex, fallo>>

SumarLiberado ==
  /\ En("liberar")
  /\ SumarLibre(principal.tam)
  /\ principal' = Ocioso
  /\ UNCHANGED <<paginas, contable, proceso, punteros, fin, mutex, fallo>>

-----------------------------------------------------------------------------
(* terminarProceso: Memoria frees the pages, with mutexMemoria; then the   *)
(* entries of listaAdmHeap go (destruirTodasLasPaginasHeapDeProceso).      *)

ConMutexMemoria == {"mirar", "tomar", "compactar", "buscar", "agregar", "partir"}

LiberarRecursos(p) ==
  /\ fallo = "ninguno" /\ fin = FinLibre
  /\ proceso[p] \in {"activo", "saliendo", "rechazado"} /\ principal.pid # p
  /\ principal.paso \notin ConMutexMemoria
  /\ proceso' = [proceso EXCEPT ![p] = "terminando"]
  /\ paginas' = [paginas EXCEPT ![p] = <<>>]
  /\ punteros' = [punteros EXCEPT ![p] = {}]
  /\ fin' = [paso |-> "candado", pid |-> p, indice |-> 0]
  /\ UNCHANGED <<lista, contable, principal, mutex, fallo>>

TomarLista ==
  /\ fallo = "ninguno" /\ fin.paso = "candado" /\ mutex = "libre"
  /\ mutex' = "fin"
  /\ fin' = [fin EXCEPT !.paso = "recorrer"]
  /\ UNCHANGED <<lista, paginas, contable, proceso, punteros, principal, fallo>>

\* The index moves on after a removal too.
DestruirEntrada ==
  /\ fallo = "ninguno" /\ fin.paso = "recorrer" /\ fin.indice < Len(lista)
  /\ lista' = IF lista[fin.indice + 1].pid = fin.pid
              THEN RemoveAt(lista, fin.indice + 1) ELSE lista
  /\ fin' = [fin EXCEPT !.indice = @ + 1]
  /\ UNCHANGED <<paginas, contable, proceso, punteros, principal, mutex, fallo>>

SoltarLista ==
  /\ fallo = "ninguno" /\ fin.paso = "recorrer" /\ fin.indice >= Len(lista)
  /\ proceso' = [proceso EXCEPT ![fin.pid] = "terminado"]
  /\ fin' = FinLibre
  /\ mutex' = "libre"
  /\ UNCHANGED <<lista, paginas, contable, punteros, principal, fallo>>

-----------------------------------------------------------------------------
Alocar ==
  \/ \E p \in Pids, tam \in Tamanios : PedirBloque(p, tam)
  \/ MirarLista \/ TomarEntrada \/ Compactar \/ SumarJuntados \/ BuscarBloque
  \/ PedirPagina \/ AgregarEntrada \/ Descontar \/ PartirBloque

Liberar ==
  \/ \E p \in Pids : \E r \in punteros[p] : LiberarBloque(p, r)
  \/ SumarLiberado

Fin ==
  \/ \E p \in Pids : LiberarRecursos(p)
  \/ TomarLista \/ DestruirEntrada \/ SoltarLista

Next == Alocar \/ Liberar \/ Fin

Spec == Init /\ [][Next]_vars
=============================================================================
