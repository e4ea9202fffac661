--------------------------- MODULE PropiedadesHeap ---------------------------
(***************************************************************************)
(* What the pages of heap, listaAdmHeap and the accounts must keep, and    *)
(* the mapping to an allocator.                                            *)
(***************************************************************************)
EXTENDS Heap

TipoBloque == [usado : BOOLEAN, tam : Nat] \cup {SinMeta}
TipoPagina == [Offsets -> TipoBloque]
Pasos == {"libre", "mirar", "tomar", "compactar", "buscar", "pedirPagina", "agregar",
          "descontar", "partir", "liberar"}
PasosEnPagina == {"compactar", "buscar", "agregar", "descontar", "partir", "liberar"}
Vivos == {"activo", "saliendo", "rechazado"}
TipoEntrada   == [pagina : Nat, pid : Pids, libre : Int]
TipoCuenta    == [paginas : Nat, bloques : Int, bytes : Int]
TipoPuntero   == [pagina : Nat, offset : Nat]
TipoPrincipal == [paso : Pasos, pid : Pids \cup {"nadie"}, tam : Nat, i : Nat, pagina : Nat,
                  offset : Nat, previo : Nat, juntados : Nat, nueva : BOOLEAN]
TipoFin       == [paso : {"libre", "candado", "recorrer"}, pid : Pids \cup {"nadie"}, indice : Nat]

\* Every variable keeps its type; who works for a process works for one that lives.
TiposHeap ==
  /\ lista \in Seq(TipoEntrada)
  /\ paginas \in [Pids -> Seq(TipoPagina)]
  /\ contable \in [Pids -> TipoCuenta]
  /\ proceso \in [Pids -> Vivos \cup {"terminando", "terminado"}]
  /\ punteros \in [Pids -> SUBSET TipoPuntero]
  /\ principal \in TipoPrincipal
  /\ principal.paso # "libre" => principal.pid \in Pids /\ proceso[principal.pid] = "activo"
  /\ fin \in TipoFin
  /\ fin.paso # "libre" => fin.pid \in Pids /\ proceso[fin.pid] = "terminando"
  /\ mutex \in {"libre", "principal", "fin"}
  /\ fallo \in {"ninguno", "entradaNula", "desincronizado", "sinBloque", "otraPagina"}

\* The blocks of a page follow one another from its start to its end.
Teselada(b) ==
  /\ 0 \in Cabezas(b)
  /\ \A h \in Cabezas(b) : Siguiente(b, h) \in Cabezas(b) \cup {TamPagina}
  /\ \A h, k \in Cabezas(b) : h < k => Siguiente(b, h) <= k

PaginasTeseladas == \A p \in Pids : \A n \in DOMAIN paginas[p] : Teselada(paginas[p][n])

\* A page is one block only while the request that joined it, or got it, goes on.
PaginasPartidas ==
  \A p \in Pids : \A n \in DOMAIN paginas[p] :
    Siguiente(paginas[p][n], 0) = TamPagina =>
      /\ principal.pid = p /\ principal.pagina = n - 1
      /\ \/ principal.paso \in {"agregar", "descontar", "partir"} /\ principal.offset = 0
         \/ principal.paso = "buscar" /\ principal.offset = 0 /\ ~paginas[p][n][0].usado
         \/ /\ principal.paso = "compactar" /\ principal.offset = 0 /\ ~paginas[p][n][0].usado
            /\ principal.previo = TamPagina - TamMeta

\* Where the main thread is in the page it works on; what it looks for fits in a page.
LugarEnPagina ==
  LET p == principal.pid
      b == Actual
      h == principal.offset
  IN
  /\ principal.paso \notin {"libre", "liberar"} => ~Demasiado(principal.tam)
  /\ principal.paso \in PasosEnPagina => principal.pagina + 1 \in DOMAIN paginas[p]
  /\ principal.paso = "compactar" =>
       /\ h \in Cabezas(b)
       /\ principal.previo = b[h].tam \/ (h = 0 /\ principal.previo = 0)
  /\ principal.paso = "buscar" => h \in Cabezas(b) \cup {TamPagina}
  /\ principal.paso \in {"agregar", "descontar", "partir"} =>
       h \in Cabezas(b) /\ ~b[h].usado /\ b[h].tam >= principal.tam + TamMeta

\* The metadata that is read is always metadata, and a new page has the number
\* that Memoria gave it.
SoloMetadatas == fallo \in {"ninguno", "entradaNula", "desincronizado"}

\* The Kernel counts the pages of heap as Memoria does.
PaginasContadas ==
  \A p \in Pids : proceso[p] \in Vivos =>
    Len(paginas[p]) =
      contable[p].paginas + (IF principal.paso = "agregar" /\ principal.pid = p THEN 1 ELSE 0)

EntradasDeVivos ==
  \A i \in DOMAIN lista : proceso[lista[i].pid] \in Vivos =>
    lista[i].pagina + 1 \in DOMAIN paginas[lista[i].pid]

\* What a program was given is a used block of its own.
PunterosEnBloques ==
  \A p \in Pids : \A r \in punteros[p] :
    /\ r.pagina + 1 \in DOMAIN paginas[p]
    /\ r.offset - TamMeta \in Cabezas(paginas[p][r.pagina + 1])
    /\ paginas[p][r.pagina + 1][r.offset - TamMeta].usado

IInvHeap ==
  /\ TiposHeap /\ PaginasTeseladas /\ PaginasPartidas /\ LugarEnPagina
  /\ SoloMetadatas /\ PaginasContadas /\ EntradasDeVivos /\ PunterosEnBloques

-----------------------------------------------------------------------------
(* The accounts                                                            *)

Suma(S, val(_)) == FoldFunction(LAMBDA x, y : x + y, 0, [x \in S |-> val(x)])

LibreEn(b) == Suma({h \in Cabezas(b) : ~b[h].usado}, LAMBDA h : b[h].tam)

\* What the request in progress has freed in a page and not added to its entry, or
\* taken from the entry and not from the page.
EnCurso(p, n) ==
  IF principal.pid # p \/ principal.pagina # n THEN 0
  ELSE CASE principal.paso = "compactar" -> principal.juntados
         [] principal.paso = "partir"    -> principal.tam + TamMeta
         [] principal.paso = "liberar"   -> principal.tam
         [] OTHER                        -> 0

\* The entry of a page says how much of it is free, through joins, splits, releases
\* and the ends of other processes; a page of a living process has one entry.
LibreExacto ==
  \A p \in Pids : proceso[p] \in Vivos =>
    \A n \in 1..contable[p].paginas :
      LET suyas == {i \in DOMAIN lista : lista[i].pid = p /\ lista[i].pagina = n - 1} IN
      /\ Cardinality(suyas) = 1
      /\ \A i \in suyas : lista[i].libre + EnCurso(p, n - 1) = LibreEn(paginas[p][n])

UsadosDe(p) == {u \in (DOMAIN paginas[p]) \X Offsets : paginas[p][u[1]][u[2]].usado}

BytesDe(p)  == Suma(UsadosDe(p), LAMBDA u : paginas[p][u[1]][u[2]].tam)

\* What liberarMemoriaDinamica (planificacion.h:289) takes the difference of when a
\* process ends: the blocks it did not release and their bytes, through splits, joins and
\* the requests of others.  Who ends because its request found no frame has that request
\* on top, one block that fits in a page: gestionarAlocar (Kernel.c:525) counts it although
\* it was refused (heap.h:85), so the warning of planificacion.h:294 tells of a block more
\* than there was.
CuentaExacta ==
  \A p \in Pids :
    /\ proceso[p] \in {"activo", "saliendo"} =>
         contable[p].bloques = Cardinality(UsadosDe(p)) /\ contable[p].bytes = BytesDe(p)
    /\ proceso[p] = "rechazado" =>
         /\ contable[p].bloques = Cardinality(UsadosDe(p)) + 1
         /\ \E tam \in 0..(TamPagina - 2 * TamMeta) : contable[p].bytes = BytesDe(p) + tam

-----------------------------------------------------------------------------
\* After a compaction no two free blocks lie together, but for an empty one at the
\* very end of the page, which the loop does not reach.
Compactada ==
  principal.paso = "buscar" =>
    \A h, k \in Cabezas(Actual) :
      Siguiente(Actual, h) = k /\ Libres(Actual, {h, k}) => k = TamPagina - TamMeta

-----------------------------------------------------------------------------
ReservasDe(p) ==
  {[pagina |-> u[1] - 1, inicio |-> u[2] + TamMeta, tam |-> paginas[p][u[1]][u[2]].tam]
     : u \in UsadosDe(p)}

Reparto == INSTANCE Asignador WITH reservas <- [p \in Pids |-> ReservasDe(p)]

\* The heap implements an allocator: what a program gets meets nothing that it, or
\* the metadata of another block, has, and stays until it releases it, however pages
\* are split, released and joined.
ImplementaAsignador == Reparto!SpecAsignador
=============================================================================
