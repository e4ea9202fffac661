------------------------ MODULE PropiedadesHeap_proofs ------------------------
(***************************************************************************)
(* Proofs about the dynamic memory of the programs, for every value of its *)
(* constants.                                                              *)
(***************************************************************************)
EXTENDS PropiedadesHeap, LemasListas

USE HeapAssumption

-----------------------------------------------------------------------------
(* Pages                                                                   *)

\* What is between a metadata and the next is its block.
LEMMA Metadata ==
  ASSUME NEW b \in TipoPagina, NEW h \in Cabezas(b)
  PROVE  /\ h \in Nat /\ h < TamPagina /\ b[h].tam \in Nat /\ b[h].usado \in BOOLEAN
         /\ b[h] \in [usado : BOOLEAN, tam : Nat]
         /\ Siguiente(b, h) \in Nat /\ Siguiente(b, h) >= h + TamMeta /\ Siguiente(b, h) > h
<1>1. h \in Offsets /\ h \in Nat /\ h < TamPagina
  BY DEF Cabezas, Offsets
<1>2. b[h] \in [usado : BOOLEAN, tam : Nat]
  BY DEF Cabezas, TipoPagina, TipoBloque
<1>3. b[h].tam \in Nat /\ b[h].usado \in BOOLEAN
  BY <1>2
<1>4. TamMeta \in Nat /\ TamMeta > 0
  BY DEF HeapAssumption
<1> QED
  BY <1>1, <1>2, <1>3, <1>4 DEF Siguiente

\* No block goes past the end of its page.
LEMMA DentroDePagina ==
  ASSUME NEW b \in TipoPagina, Teselada(b), NEW h \in Cabezas(b)
  PROVE  Siguiente(b, h) <= TamPagina
<1>1. CASE Siguiente(b, h) = TamPagina
  BY <1>1, Metadata DEF HeapAssumption
<1>2. CASE Siguiente(b, h) \in Cabezas(b)
  BY <1>2, Metadata DEF HeapAssumption
<1> QED
  BY <1>1, <1>2 DEF Teselada

\* What metadata says is never what there is where there is none.
LEMMA NoEsSinMeta ==
  ASSUME NEW x, x \in [usado : BOOLEAN, tam : Nat]
  PROVE  x # SinMeta
BY DEF SinMeta

\* A new page is one free block.
LEMMA PaginaNuevaTeselada ==
  /\ PaginaNueva \in TipoPagina /\ Cabezas(PaginaNueva) = {0} /\ Teselada(PaginaNueva)
  /\ PaginaNueva[0] = [usado |-> FALSE, tam |-> TamPagina - TamMeta]
  /\ Siguiente(PaginaNueva, 0) = TamPagina
<1> DEFINE m == [usado |-> FALSE, tam |-> TamPagina - TamMeta]
<1>1. /\ TamPagina \in Nat /\ TamMeta \in Nat /\ TamMeta > 0
      /\ TamPagina - TamMeta \in Nat /\ 0 \in Offsets
  BY DEF HeapAssumption, Offsets
<1>2. m \in [usado : BOOLEAN, tam : Nat] /\ m # SinMeta
  BY <1>1 DEF SinMeta
<1>3. m.tam = TamPagina - TamMeta
  OBVIOUS
<1>4. PaginaNueva = [h \in Offsets |-> IF h = 0 THEN m ELSE SinMeta]
  BY DEF PaginaNueva
<1> HIDE DEF m
<1>5. /\ PaginaNueva[0] = m
      /\ \A h \in Offsets \ {0} : PaginaNueva[h] = SinMeta
  BY <1>1, <1>4
<1>6. PaginaNueva \in TipoPagina
  BY <1>2, <1>4 DEF TipoPagina, TipoBloque
<1>7. Cabezas(PaginaNueva) = {0}
  BY <1>1, <1>2, <1>5 DEF Cabezas
<1>8. Siguiente(PaginaNueva, 0) = TamPagina
  BY <1>1, <1>3, <1>5 DEF Siguiente
<1>9. Teselada(PaginaNueva)
  BY <1>1, <1>7, <1>8 DEF Teselada
<1> QED
  BY <1>5, <1>6, <1>7, <1>8, <1>9 DEF m

\* A page with the same metadata at the same places, but for who uses them.
LEMMA MismasCabezas ==
  ASSUME NEW b \in TipoPagina, NEW h \in Cabezas(b), Teselada(b),
         NEW c, c = [b EXCEPT ![h].usado = FALSE]
  PROVE  /\ c \in TipoPagina /\ Cabezas(c) = Cabezas(b) /\ Teselada(c)
         /\ \A g \in Cabezas(b) : Siguiente(c, g) = Siguiente(b, g)
         /\ \A g \in Offsets \ {h} : c[g] = b[g]
<1> DEFINE m == [b[h] EXCEPT !.usado = FALSE]
<1>1. h \in Offsets /\ b[h] \in [usado : BOOLEAN, tam : Nat]
  BY Metadata DEF Cabezas
<1>2. m \in [usado : BOOLEAN, tam : Nat] /\ m.tam = b[h].tam
  BY <1>1
<1>3. m # SinMeta
  BY <1>2, NoEsSinMeta
<1>4. c = [b EXCEPT ![h] = m]
  OBVIOUS
<1> HIDE DEF m
<1>5. c \in TipoPagina /\ c[h] = m /\ \A g \in Offsets \ {h} : c[g] = b[g]
  BY <1>1, <1>2, <1>4 DEF TipoPagina, TipoBloque
<1>6. Cabezas(c) = Cabezas(b)
  BY <1>1, <1>3, <1>5 DEF Cabezas
<1>7. \A g \in Cabezas(b) : Siguiente(c, g) = Siguiente(b, g)
  BY <1>2, <1>5 DEF Siguiente, Cabezas
<1>8. Teselada(c)
  BY <1>6, <1>7 DEF Teselada
<1> QED
  BY <1>5, <1>6, <1>7, <1>8

\* A block that takes in the next one.
LEMMA JuntarTesela ==
  ASSUME NEW b \in TipoPagina, Teselada(b), NEW h \in Cabezas(b), NEW k \in Cabezas(b),
         k = Siguiente(b, h), NEW c, c = Juntar(b, h)
  PROVE  /\ c \in TipoPagina /\ Teselada(c) /\ Cabezas(c) = Cabezas(b) \ {k}
         /\ c[h].usado = b[h].usado /\ c[h].tam \in Nat
         /\ c[h].tam = b[h].tam + TamMeta + b[k].tam
         /\ Siguiente(c, h) = Siguiente(b, k)
         /\ \A g \in Offsets \ {h, k} : c[g] = b[g]
<1> DEFINE m == [b[h] EXCEPT !.tam = b[h].tam + TamMeta + b[k].tam]
<1>1. /\ h \in Offsets /\ k \in Offsets /\ h < k /\ h # k /\ h \in Nat /\ k \in Nat
      /\ b[h] \in [usado : BOOLEAN, tam : Nat] /\ b[k].tam \in Nat /\ b[h].tam \in Nat
      /\ TamMeta \in Nat /\ TamMeta > 0
  BY Metadata DEF Cabezas, HeapAssumption
<1>2. /\ m \in [usado : BOOLEAN, tam : Nat] /\ m.usado = b[h].usado
      /\ m.tam = b[h].tam + TamMeta + b[k].tam
  BY <1>1
<1>3. m # SinMeta
  BY <1>2, NoEsSinMeta
<1>4. c = [[b EXCEPT ![h] = m] EXCEPT ![k] = SinMeta]
  BY DEF Juntar
<1> HIDE DEF m
<1>5. /\ c \in TipoPagina /\ c[h] = m /\ c[k] = SinMeta
      /\ \A g \in Offsets \ {h, k} : c[g] = b[g]
  BY <1>1, <1>2, <1>4 DEF TipoPagina, TipoBloque
<1>6. Cabezas(c) = Cabezas(b) \ {k}
  BY <1>1, <1>3, <1>5 DEF Cabezas
<1>7. Siguiente(c, h) = Siguiente(b, k)
  BY <1>1, <1>2, <1>5 DEF Siguiente
<1>8. \A g \in Cabezas(c) \ {h} : Siguiente(c, g) = Siguiente(b, g) /\ Siguiente(b, g) # k
  <2>1. ASSUME NEW g \in Cabezas(c), g # h
        PROVE  Siguiente(c, g) = Siguiente(b, g) /\ Siguiente(b, g) # k
    <3>1. g \in Cabezas(b) /\ g \in Offsets /\ g # k
      BY <1>6, <2>1 DEF Cabezas
    <3>2. Siguiente(c, g) = Siguiente(b, g)
      BY <1>5, <2>1, <3>1 DEF Siguiente
    <3>3. g \in Nat /\ Siguiente(b, g) \in Nat /\ g < Siguiente(b, g)
      BY <3>1, Metadata
    <3>4. CASE g < h
      <4>1. Siguiente(b, g) <= h
        BY <3>1, <3>4 DEF Teselada
      <4> QED
        BY ONLY <1>1, <3>2, <3>3, <4>1
    <3>5. CASE h < g
      <4>1. k <= g
        BY <3>1, <3>5 DEF Teselada
      <4> QED
        BY ONLY <1>1, <3>2, <3>3, <4>1
    <3> QED
      BY ONLY <1>1, <2>1, <3>3, <3>4, <3>5
  <2> QED
    BY <2>1
<1>9. Teselada(c)
  <2>1. 0 \in Cabezas(c)
    BY <1>1, <1>6 DEF Teselada
  <2>2. \A g \in Cabezas(c) : Siguiente(c, g) \in Cabezas(c) \cup {TamPagina}
    <3>1. ASSUME NEW g \in Cabezas(c) PROVE Siguiente(c, g) \in Cabezas(c) \cup {TamPagina}
      <4>1. CASE g = h
        <5>1. Siguiente(b, k) \in Cabezas(b) \cup {TamPagina} /\ Siguiente(b, k) > k
              /\ Siguiente(b, k) \in Nat
          BY Metadata DEF Teselada
        <5> QED
          BY <1>1, <1>6, <1>7, <4>1, <5>1
      <4>2. CASE g # h
        <5>1. Siguiente(b, g) \in Cabezas(b) \cup {TamPagina}
          BY <1>6 DEF Teselada
        <5> QED
          BY <1>6, <1>8, <4>2, <5>1
      <4> QED
        BY <4>1, <4>2
    <3> QED
      BY <3>1
  <2>3. \A f, g \in Cabezas(c) : f < g => Siguiente(c, f) <= g
    <3>1. ASSUME NEW f \in Cabezas(c), NEW g \in Cabezas(c), f < g PROVE Siguiente(c, f) <= g
      <4>1. f \in Cabezas(b) /\ g \in Cabezas(b) /\ g # k /\ f \in Nat /\ g \in Nat
        BY <1>6, Metadata
      <4>2. CASE f # h
        BY <1>8, <3>1, <4>1, <4>2 DEF Teselada
      <4>3. CASE f = h
        <5>1. k <= g
          BY <3>1, <4>1, <4>3 DEF Teselada
        <5>2. k < g
          BY <1>1, <4>1, <5>1
        <5> QED
          BY <1>7, <4>1, <4>3, <5>2 DEF Teselada
      <4> QED
        BY <4>2, <4>3
    <3> QED
      BY <3>1
  <2> QED
    BY <2>1, <2>2, <2>3 DEF Teselada
<1> QED
  BY <1>2, <1>5, <1>6, <1>7, <1>9

\* A free block of which the start is given to a program and the rest stays free.
LEMMA PartirTesela ==
  ASSUME NEW b \in TipoPagina, Teselada(b), NEW h \in Cabezas(b), NEW tam \in Nat,
         b[h].tam >= tam + TamMeta, NEW c, c = Partir(b, h, tam),
         NEW k, k = h + TamMeta + tam
  PROVE  /\ c \in TipoPagina /\ Teselada(c) /\ Cabezas(c) = Cabezas(b) \cup {k}
         /\ k \in Offsets /\ k \notin Cabezas(b)
         /\ c[h] = [usado |-> TRUE, tam |-> tam]
         /\ Siguiente(c, h) = k
         /\ \A g \in Offsets \ {h, k} : c[g] = b[g]
<1> DEFINE m == [usado |-> TRUE, tam |-> tam]
           l == [usado |-> FALSE, tam |-> b[h].tam - tam - TamMeta]
           limite == Siguiente(b, h)
<1>1. /\ h \in Offsets /\ h \in Nat /\ b[h].tam \in Nat
      /\ TamMeta \in Nat /\ TamMeta > 0 /\ TamPagina \in Nat
      /\ limite = h + TamMeta + b[h].tam
  BY Metadata DEF Cabezas, HeapAssumption, Siguiente
<1>2. limite \in Nat /\ limite <= TamPagina
  BY DentroDePagina, Metadata
<1> HIDE DEF limite
<1>3. k \in Nat /\ h < k /\ k + TamMeta <= limite /\ k < limite /\ k < TamPagina /\ h # k
  BY <1>1, <1>2
<1>4. k \in Offsets
  BY <1>1, <1>3 DEF Offsets
<1>5. k \notin Cabezas(b)
  BY <1>1, <1>2, <1>3 DEF Teselada, limite
<1>6. b[h].tam - tam - TamMeta \in Nat
  BY <1>1
<1>7. /\ m \in [usado : BOOLEAN, tam : Nat] /\ m.tam = tam
      /\ l \in [usado : BOOLEAN, tam : Nat] /\ l.tam = b[h].tam - tam - TamMeta
  BY <1>6
<1>8. m # SinMeta /\ l # SinMeta
  BY <1>7, NoEsSinMeta
<1>9. c = [[b EXCEPT ![h] = m] EXCEPT ![k] = l]
  BY DEF Partir
<1>10. m = [usado |-> TRUE, tam |-> tam]
  OBVIOUS
<1> HIDE DEF m, l
<1>11. /\ c \in TipoPagina /\ c[h] = m /\ c[k] = l
       /\ \A g \in Offsets \ {h, k} : c[g] = b[g]
  BY <1>1, <1>3, <1>4, <1>7, <1>9 DEF TipoPagina, TipoBloque
<1>12. Cabezas(c) = Cabezas(b) \cup {k}
  BY <1>1, <1>4, <1>8, <1>11 DEF Cabezas
<1>13. Siguiente(c, h) = k /\ Siguiente(c, k) = limite
  BY <1>1, <1>3, <1>7, <1>11 DEF Siguiente
<1>14. \A g \in Cabezas(b) \ {h} : Siguiente(c, g) = Siguiente(b, g)
  BY <1>5, <1>11 DEF Siguiente, Cabezas
<1>15. Teselada(c)
  <2>1. 0 \in Cabezas(c)
    BY <1>12 DEF Teselada
  <2>2. \A g \in Cabezas(c) : Siguiente(c, g) \in Cabezas(c) \cup {TamPagina}
    <3>1. ASSUME NEW g \in Cabezas(c) PROVE Siguiente(c, g) \in Cabezas(c) \cup {TamPagina}
      <4>1. CASE g = h
        BY <1>12, <1>13, <4>1
      <4>2. CASE g = k
        BY <1>12, <1>13, <4>2 DEF Teselada, limite
      <4>3. CASE g \in Cabezas(b) \ {h}
        BY <1>12, <1>14, <4>3 DEF Teselada
      <4> QED
        BY <1>12, <4>1, <4>2, <4>3
    <3> QED
      BY <3>1
  <2>3. \A f, g \in Cabezas(c) : f < g => Siguiente(c, f) <= g
    <3>1. ASSUME NEW f \in Cabezas(b), NEW g \in Cabezas(b), f < g PROVE Siguiente(c, f) <= g
      <4>1. f \in Nat /\ g \in Nat /\ Siguiente(b, f) <= g
        BY <3>1, Metadata DEF Teselada
      <4>2. CASE f # h
        BY <1>14, <4>1, <4>2
      <4>3. CASE f = h
        <5>1. limite <= g
          BY <4>1, <4>3 DEF limite
        <5> QED
          BY <1>2, <1>3, <1>13, <4>1, <4>3, <5>1
      <4> QED
        BY <4>2, <4>3
    <3>2. ASSUME NEW f \in Cabezas(b), f < k PROVE Siguiente(c, f) <= k
      <4>1. f \in Nat /\ Siguiente(b, f) \in Nat
        BY Metadata
      <4>2. CASE f = h
        BY <1>3, <1>13, <4>2
      <4>3. CASE f < h
        <5>1. Siguiente(b, f) <= h /\ Siguiente(c, f) = Siguiente(b, f)
          BY <1>1, <1>14, <4>1, <4>3 DEF Teselada
        <5> QED
          BY ONLY <1>1, <1>3, <4>1, <5>1
      <4>4. CASE h < f
        <5>1. limite <= f
          BY <4>4 DEF Teselada, limite
        <5> QED
          BY ONLY <1>2, <1>3, <3>2, <4>1, <5>1
      <4> QED
        BY ONLY <1>1, <4>1, <4>2, <4>3, <4>4
    <3>3. ASSUME NEW g \in Cabezas(b), k < g PROVE Siguiente(c, k) <= g
      <4>1. g \in Nat /\ h < g
        <5>1. g \in Nat
          BY Metadata
        <5> QED
          BY ONLY <1>1, <1>3, <3>3, <5>1
      <4> QED
        BY <1>13, <4>1 DEF Teselada, limite
    <3> QED
      BY <1>3, <1>12, <3>1, <3>2, <3>3
  <2> QED
    BY <2>1, <2>2, <2>3 DEF Teselada
<1> QED
  BY <1>4, <1>5, <1>10, <1>11, <1>12, <1>13, <1>15

-----------------------------------------------------------------------------
(* Steps that touch no page                                                *)

\* Between requests, and while one looks for a page, every page has two blocks or more.
LEMMA NingunaEntera ==
  ASSUME PaginasPartidas,
         principal.paso \notin {"agregar", "descontar", "partir", "buscar", "compactar"}
  PROVE  \A p \in Pids : \A n \in DOMAIN paginas[p] : Siguiente(paginas[p][n], 0) # TamPagina
BY DEF PaginasPartidas

\* Pages that are not the one the main thread works on have two blocks or more.
LEMMA OtrasPartidas ==
  ASSUME PaginasPartidas, NEW p \in Pids, NEW n \in DOMAIN paginas[p],
         principal.pid # p \/ principal.pagina # n - 1
  PROVE  Siguiente(paginas[p][n], 0) # TamPagina
BY DEF PaginasPartidas

LEMMA EnLista ==
  ASSUME lista \in Seq(TipoEntrada), NEW i \in DOMAIN lista
  PROVE  /\ lista[i] \in TipoEntrada /\ lista[i].pid \in Pids /\ lista[i].pagina \in Nat
         /\ lista[i].libre \in Int
<1>1. i \in 1..Len(lista)
  OBVIOUS
<1>2. lista[i] \in TipoEntrada
  BY ONLY <1>1, lista \in Seq(TipoEntrada), ElementOfSeq
<1> QED
  BY <1>2 DEF TipoEntrada

\* What changes no page and gives no pointer keeps what is said of them.
LEMMA MismasPaginas ==
  ASSUME IInvHeap, UNCHANGED <<paginas, punteros>>,
         lista' \in Seq(TipoEntrada),
         \A i \in DOMAIN lista' : \E j \in DOMAIN lista :
           lista'[i].pid = lista[j].pid /\ lista'[i].pagina = lista[j].pagina,
         contable' \in [Pids -> TipoCuenta],
         \A p \in Pids : contable'[p].paginas = contable[p].paginas,
         proceso' \in [Pids -> Vivos \cup {"terminando", "terminado"}],
         \A p \in Pids : proceso'[p] \in Vivos => proceso[p] \in Vivos,
         principal' \in TipoPrincipal, fin' \in TipoFin,
         principal'.paso # "libre" =>
           principal'.pid \in Pids /\ proceso'[principal'.pid] = "activo",
         fin'.paso # "libre" => fin'.pid \in Pids /\ proceso'[fin'.pid] = "terminando",
         mutex' \in {"libre", "principal", "fin"}, fallo' \in {"ninguno", "entradaNula"},
         principal'.paso = "agregar" <=> principal.paso = "agregar",
         principal.paso = "agregar" => principal'.pid = principal.pid,
         PaginasPartidas', LugarEnPagina'
  PROVE  IInvHeap'
<1>1. TiposHeap'
  BY DEF IInvHeap, TiposHeap
<1>2. PaginasTeseladas'
  BY DEF IInvHeap, PaginasTeseladas
<1>3. PaginasContadas'
  BY DEF IInvHeap, PaginasContadas
<1>4. EntradasDeVivos'
  <2>1. ASSUME NEW i \in DOMAIN lista', proceso'[lista'[i].pid] \in Vivos
        PROVE  lista'[i].pagina + 1 \in DOMAIN paginas'[lista'[i].pid]
    <3>1. PICK j \in DOMAIN lista :
            lista'[i].pid = lista[j].pid /\ lista'[i].pagina = lista[j].pagina
      OBVIOUS
    <3>2. lista[j].pid \in Pids
      BY EnLista DEF IInvHeap, TiposHeap
    <3>3. proceso[lista[j].pid] \in Vivos
      BY <2>1, <3>1, <3>2
    <3> QED
      BY <3>1, <3>3 DEF IInvHeap, EntradasDeVivos
  <2> QED
    BY <2>1 DEF EntradasDeVivos
<1>5. PunterosEnBloques'
  BY DEF IInvHeap, PunterosEnBloques
<1>6. SoloMetadatas'
  BY DEF SoloMetadatas
<1> QED
  BY <1>1, <1>2, <1>3, <1>4, <1>5, <1>6 DEF IInvHeap

\* The list that SumarLibre leaves has the same entries with other counts.
LEMMA SumarLibreEntradas ==
  ASSUME lista \in Seq(TipoEntrada), NEW cuanto \in Int, SumarLibre(cuanto)
  PROVE  /\ lista' \in Seq(TipoEntrada)
         /\ \A i \in DOMAIN lista' : \E j \in DOMAIN lista :
              lista'[i].pid = lista[j].pid /\ lista'[i].pagina = lista[j].pagina
<1>1. CASE UNCHANGED lista
  BY <1>1
<1>2. ASSUME NEW i \in DOMAIN lista, lista' = [lista EXCEPT ![i].libre = @ + cuanto]
      PROVE  /\ lista' \in Seq(TipoEntrada) /\ DOMAIN lista' = DOMAIN lista
             /\ \A j \in DOMAIN lista :
                  lista'[j].pid = lista[j].pid /\ lista'[j].pagina = lista[j].pagina
  <2> DEFINE e == [lista[i] EXCEPT !.libre = lista[i].libre + cuanto]
  <2>1. lista[i] \in TipoEntrada /\ lista[i].libre + cuanto \in Int
    BY EnLista
  <2>2. e \in TipoEntrada /\ e.pid = lista[i].pid /\ e.pagina = lista[i].pagina
    BY ONLY <2>1 DEF TipoEntrada
  <2>3. lista' = [lista EXCEPT ![i] = e]
    BY <1>2
  <2> HIDE DEF e
  <2> QED
    BY <2>2, <2>3
<1>3. UNCHANGED lista
      \/ \E i \in DOMAIN lista : lista' = [lista EXCEPT ![i].libre = @ + cuanto]
  BY DEF SumarLibre
<1> QED
  BY <1>1, <1>2, <1>3

\* Where no page is whole, a step that touches none makes none so.
LEMMA SigueNinguna ==
  ASSUME PaginasPartidas, UNCHANGED paginas,
         principal.paso \notin {"agregar", "descontar", "partir", "buscar", "compactar"}
  PROVE  PaginasPartidas'
BY NingunaEntera DEF PaginasPartidas

LEMMA MismaLista ==
  ASSUME UNCHANGED lista
  PROVE  \A i \in DOMAIN lista' : \E j \in DOMAIN lista :
           lista'[i].pid = lista[j].pid /\ lista'[i].pagina = lista[j].pagina
OBVIOUS

LEMMA PedirBloqueConserva ==
  ASSUME IInvHeap, NEW p \in Pids, NEW tam \in Tamanios, PedirBloque(p, tam)
  PROVE  IInvHeap'
<1>1. /\ principal.paso = "libre" /\ fallo = "ninguno" /\ proceso[p] = "activo"
      /\ UNCHANGED <<lista, paginas, contable, punteros, fin, mutex, fallo>>
  BY DEF PedirBloque, En
<1>2. PaginasPartidas'
  BY <1>1, SigueNinguna DEF IInvHeap
<1>3. CASE Demasiado(tam)
  <2>1. proceso' = [proceso EXCEPT ![p] = "saliendo"] /\ UNCHANGED principal
    BY <1>3 DEF PedirBloque
  <2>2. LugarEnPagina'
    BY <1>1, <2>1 DEF IInvHeap, LugarEnPagina, Actual, PasosEnPagina
  <2>3. /\ proceso' \in [Pids -> Vivos \cup {"terminando", "terminado"}]
        /\ \A q \in Pids : proceso'[q] \in Vivos => proceso[q] \in Vivos
        /\ fin.paso # "libre" => fin.pid \in Pids /\ proceso'[fin.pid] = "terminando"
    BY <1>1, <2>1 DEF IInvHeap, TiposHeap, Vivos
  <2> QED
    BY <1>1, <1>2, <2>1, <2>2, <2>3, MismasPaginas, MismaLista DEF IInvHeap, TiposHeap
<1>4. CASE ~Demasiado(tam)
  <2>1. UNCHANGED proceso
        /\ principal' = [Ocioso EXCEPT !.paso = "mirar", !.pid = p, !.tam = tam]
    BY <1>4 DEF PedirBloque
  <2>2. /\ principal' \in TipoPrincipal
        /\ principal'.paso = "mirar" /\ principal'.pid = p /\ principal'.tam = tam
    BY <2>1 DEF Ocioso, TipoPrincipal, Pasos, HeapAssumption
  <2>3. LugarEnPagina'
    BY <1>4, <2>2 DEF LugarEnPagina, PasosEnPagina, Demasiado
  <2> QED
    BY <1>1, <1>2, <2>1, <2>2, <2>3, MismasPaginas, MismaLista DEF IInvHeap, TiposHeap
<1> QED
  BY <1>3, <1>4

LEMMA MirarListaConserva ==
  ASSUME IInvHeap, MirarLista
  PROVE  IInvHeap'
<1>1. /\ principal.paso = "mirar" /\ fallo = "ninguno"
      /\ UNCHANGED <<lista, paginas, contable, proceso, punteros, fin, fallo>>
      /\ mutex' \in {mutex, "principal", "libre"}
  BY DEF MirarLista, En
<1>2. PaginasPartidas'
  BY <1>1, SigueNinguna DEF IInvHeap
<1>3. /\ principal' \in TipoPrincipal /\ principal'.paso \in {"tomar", "pedirPagina"}
      /\ principal'.pid = principal.pid /\ principal'.tam = principal.tam
  <2>1. \/ principal' = [principal EXCEPT !.paso = "tomar"]
        \/ principal' = [principal EXCEPT !.paso = "pedirPagina", !.i = 0]
    BY DEF MirarLista
  <2>2. principal \in TipoPrincipal
    BY DEF IInvHeap, TiposHeap
  <2>3. CASE principal' = [principal EXCEPT !.paso = "tomar"]
    BY ONLY <2>2, <2>3 DEF TipoPrincipal, Pasos
  <2>4. CASE principal' = [principal EXCEPT !.paso = "pedirPagina", !.i = 0]
    BY ONLY <2>2, <2>4 DEF TipoPrincipal, Pasos
  <2> QED
    BY <2>1, <2>3, <2>4
<1>4. LugarEnPagina'
  BY <1>1, <1>3 DEF IInvHeap, LugarEnPagina, PasosEnPagina, Demasiado
<1> QED
  BY <1>1, <1>2, <1>3, <1>4, MismasPaginas, MismaLista DEF IInvHeap, TiposHeap

LEMMA TomarEntradaConserva ==
  ASSUME IInvHeap, TomarEntrada
  PROVE  IInvHeap'
<1>1. /\ principal.paso = "tomar" /\ fallo = "ninguno"
      /\ UNCHANGED <<lista, paginas, contable, proceso, punteros, fin>>
      /\ mutex' \in {mutex, "libre"} /\ fallo' \in {"ninguno", "entradaNula"}
  BY DEF TomarEntrada, En
<1>2. PaginasPartidas'
  BY <1>1, SigueNinguna DEF IInvHeap
<1>3. principal \in TipoPrincipal /\ lista \in Seq(TipoEntrada) /\ principal.i \in Nat
      /\ principal.pid \in Pids /\ proceso[principal.pid] = "activo" /\ ~Demasiado(principal.tam)
  BY <1>1 DEF IInvHeap, TiposHeap, LugarEnPagina, TipoPrincipal
<1>4. CASE principal' = principal
  <2>1. LugarEnPagina'
    BY <1>1, <1>4 DEF IInvHeap, LugarEnPagina, Actual, PasosEnPagina
  <2> QED
    BY <1>1, <1>2, <1>4, <2>1, MismasPaginas, MismaLista DEF IInvHeap, TiposHeap
<1>5. CASE principal' = [principal EXCEPT !.paso = "mirar", !.i = @ + 1]
  <2>1. /\ principal' \in TipoPrincipal /\ principal'.paso = "mirar"
        /\ principal'.pid = principal.pid /\ principal'.tam = principal.tam
    <3>1. principal.i + 1 \in Nat
      BY <1>3
    <3> QED
      BY ONLY <1>3, <1>5, <3>1 DEF TipoPrincipal, Pasos
  <2>2. LugarEnPagina'
    BY <1>3, <2>1 DEF LugarEnPagina, PasosEnPagina, Demasiado
  <2> QED
    BY <1>1, <1>2, <1>3, <2>1, <2>2, MismasPaginas, MismaLista DEF IInvHeap, TiposHeap
<1>6. ASSUME NEW i \in DOMAIN lista, Alcanza(lista[i]),
             principal' = [principal EXCEPT !.paso = "compactar", !.pagina = lista[i].pagina,
                                            !.offset = 0, !.previo = 0, !.juntados = 0]
      PROVE  IInvHeap'
  <2>1. lista[i].pagina \in Nat /\ lista[i].pid = principal.pid
    BY <1>3, <1>6, EnLista DEF Alcanza
  <2>2. /\ principal' \in TipoPrincipal /\ principal'.paso = "compactar"
        /\ principal'.pid = principal.pid /\ principal'.tam = principal.tam
        /\ principal'.pagina = lista[i].pagina
        /\ principal'.offset = 0 /\ principal'.previo = 0
    BY <1>3, <1>6, <2>1 DEF TipoPrincipal, Pasos
  <2>3. lista[i].pagina + 1 \in DOMAIN paginas[principal.pid]
    BY <1>3, <2>1 DEF IInvHeap, EntradasDeVivos, Vivos
  <2>4. 0 \in Cabezas(paginas[principal.pid][lista[i].pagina + 1])
    BY <1>3, <2>3 DEF IInvHeap, PaginasTeseladas, Teselada
  <2>5. LugarEnPagina'
    BY <1>1, <1>3, <2>2, <2>3, <2>4 DEF LugarEnPagina, PasosEnPagina, Demasiado, Actual
  <2> QED
    BY <1>1, <1>2, <1>3, <2>2, <2>5, MismasPaginas, MismaLista DEF IInvHeap, TiposHeap
<1>7. \/ principal' = principal
      \/ principal' = [principal EXCEPT !.paso = "mirar", !.i = @ + 1]
      \/ \E i \in DOMAIN lista :
           /\ Alcanza(lista[i])
           /\ principal' = [principal EXCEPT !.paso = "compactar", !.pagina = lista[i].pagina,
                                             !.offset = 0, !.previo = 0, !.juntados = 0]
  <2>1. principal.i < Len(lista) => principal.i + 1 \in DOMAIN lista
    BY <1>3
  <2> QED
    BY <2>1 DEF TomarEntrada
<1> QED
  BY <1>4, <1>5, <1>6, <1>7

\* The page that the main thread works on, and the place it is at.
LEMMA EnLaPagina ==
  ASSUME IInvHeap, principal.paso \in PasosEnPagina
  PROVE  /\ principal \in TipoPrincipal /\ principal.pid \in Pids
         /\ proceso[principal.pid] = "activo"
         /\ principal.pagina + 1 \in DOMAIN paginas[principal.pid]
         /\ paginas[principal.pid] \in Seq(TipoPagina)
         /\ Actual \in TipoPagina /\ Teselada(Actual) /\ 0 \in Cabezas(Actual)
         /\ principal.offset \in Nat /\ principal.pagina \in Nat /\ principal.tam \in Nat
         /\ principal.previo \in Nat /\ principal.juntados \in Nat /\ principal.i \in Nat
<1>1. /\ principal \in TipoPrincipal /\ principal.pid \in Pids
      /\ proceso[principal.pid] = "activo" /\ paginas[principal.pid] \in Seq(TipoPagina)
  BY DEF IInvHeap, TiposHeap, PasosEnPagina
<1>2. principal.pagina + 1 \in DOMAIN paginas[principal.pid]
  BY DEF IInvHeap, LugarEnPagina
<1>3. principal.pagina + 1 \in 1..Len(paginas[principal.pid])
  BY <1>1, <1>2
<1>4. Actual \in TipoPagina
  BY ONLY <1>1, <1>3, ElementOfSeq DEF Actual
<1>5. Teselada(Actual)
  BY <1>1, <1>2 DEF IInvHeap, PaginasTeseladas, Actual
<1> QED
  BY <1>1, <1>2, <1>4, <1>5 DEF TipoPrincipal, Teselada

\* A page that is whole while the main thread is in one is that one.
LEMMA EnteraEsActual ==
  ASSUME IInvHeap, principal.paso \in PasosEnPagina,
         NEW p \in Pids, NEW n \in DOMAIN paginas[p], Siguiente(paginas[p][n], 0) = TamPagina
  PROVE  p = principal.pid /\ n = principal.pagina + 1 /\ paginas[p][n] = Actual
<1>1. p = principal.pid /\ principal.pagina = n - 1
  BY DEF IInvHeap, PaginasPartidas
<1>2. n \in Nat
  <2>1. paginas[p] \in Seq(TipoPagina)
    BY DEF IInvHeap, TiposHeap
  <2> QED
    BY <2>1
<1> QED
  BY <1>1, <1>2, EnLaPagina DEF Actual

LEMMA SumarJuntadosConserva ==
  ASSUME IInvHeap, SumarJuntados
  PROVE  IInvHeap'
<1>1. /\ principal.paso = "compactar" /\ fallo = "ninguno" /\ SumarLibre(principal.juntados)
      /\ UNCHANGED <<paginas, contable, proceso, punteros, fin, mutex, fallo>>
      /\ principal' = [principal EXCEPT !.paso = "buscar", !.offset = 0, !.previo = 0,
                                        !.juntados = 0]
  BY DEF SumarJuntados, En
<1>2. /\ principal \in TipoPrincipal /\ principal.pid \in Pids
      /\ proceso[principal.pid] = "activo"
      /\ principal.pagina + 1 \in DOMAIN paginas[principal.pid]
      /\ 0 \in Cabezas(Actual) /\ principal.juntados \in Int /\ ~Demasiado(principal.tam)
  BY <1>1, EnLaPagina DEF PasosEnPagina, IInvHeap, LugarEnPagina
<1>3. /\ principal' \in TipoPrincipal /\ principal'.paso = "buscar"
      /\ principal'.pid = principal.pid /\ principal'.tam = principal.tam
      /\ principal'.pagina = principal.pagina /\ principal'.offset = 0
  BY <1>1, <1>2 DEF TipoPrincipal, Pasos
<1>4. PaginasPartidas'
  BY <1>1, <1>3 DEF IInvHeap, PaginasPartidas
<1>5. LugarEnPagina'
  BY <1>1, <1>2, <1>3 DEF LugarEnPagina, PasosEnPagina, Demasiado, Actual
<1>6. /\ lista' \in Seq(TipoEntrada)
      /\ \A i \in DOMAIN lista' : \E j \in DOMAIN lista :
           lista'[i].pid = lista[j].pid /\ lista'[i].pagina = lista[j].pagina
  BY <1>1, <1>2, SumarLibreEntradas DEF IInvHeap, TiposHeap
<1> QED
  BY <1>1, <1>2, <1>3, <1>4, <1>5, <1>6, MismasPaginas DEF IInvHeap, TiposHeap

LEMMA BuscarBloqueConserva ==
  ASSUME IInvHeap, BuscarBloque
  PROVE  IInvHeap'
<1> DEFINE h == principal.offset
<1>1. /\ principal.paso = "buscar" /\ fallo = "ninguno"
      /\ UNCHANGED <<lista, paginas, contable, proceso, punteros, fin>>
  BY DEF BuscarBloque, En
<1>2. /\ principal \in TipoPrincipal /\ principal.pid \in Pids
      /\ proceso[principal.pid] = "activo"
      /\ principal.pagina + 1 \in DOMAIN paginas[principal.pid]
      /\ Actual \in TipoPagina /\ Teselada(Actual) /\ h \in Nat /\ principal.tam \in Nat
      /\ principal.i \in Nat
  BY <1>1, EnLaPagina DEF PasosEnPagina
<1>3. h \in Cabezas(Actual) \cup {TamPagina} /\ ~Demasiado(principal.tam)
  BY <1>1 DEF IInvHeap, LugarEnPagina
<1>4. \A p \in Pids : \A n \in DOMAIN paginas[p] : Siguiente(paginas[p][n], 0) = TamPagina =>
        /\ p = principal.pid /\ principal.pagina = n - 1 /\ paginas[p][n] = Actual
        /\ h = 0 /\ ~Actual[0].usado
  BY <1>1, EnteraEsActual DEF IInvHeap, PaginasPartidas, PasosEnPagina
<1>5. /\ TamPagina \in Nat /\ TamMeta \in Nat /\ TamPagina > 0
  BY DEF HeapAssumption
<1>6. CASE h >= TamPagina
  <2>1. /\ principal' = [principal EXCEPT !.paso = "mirar", !.i = @ + 1, !.pagina = 0,
                                          !.offset = 0]
        /\ UNCHANGED <<mutex, fallo>>
    BY <1>6 DEF BuscarBloque
  <2>2. /\ principal' \in TipoPrincipal /\ principal'.paso = "mirar"
        /\ principal'.pid = principal.pid /\ principal'.tam = principal.tam
    <3>1. principal.i + 1 \in Nat
      BY <1>2
    <3> QED
      BY ONLY <1>2, <2>1, <3>1 DEF TipoPrincipal, Pasos
  <2>3. h # 0
    BY <1>5, <1>6
  <2>4. PaginasPartidas'
    BY <1>1, <1>4, <2>3 DEF PaginasPartidas
  <2>5. LugarEnPagina'
    BY <1>3, <2>2 DEF LugarEnPagina, PasosEnPagina, Demasiado
  <2> QED
    BY <1>1, <1>2, <2>1, <2>2, <2>4, <2>5, MismasPaginas, MismaLista DEF IInvHeap, TiposHeap
<1>7. CASE ~(h >= TamPagina)
  <2>1. h \in Cabezas(Actual)
    BY <1>3, <1>5, <1>7
  <2>2. CASE Suficiente(Actual[h])
    <3>1. /\ principal' = [principal EXCEPT !.paso = "descontar", !.i = 0]
          /\ mutex' = "libre" /\ UNCHANGED fallo
      BY <1>7, <2>1, <2>2 DEF BuscarBloque
    <3>2. /\ principal' \in TipoPrincipal /\ principal'.paso = "descontar"
          /\ principal'.pid = principal.pid /\ principal'.tam = principal.tam
          /\ principal'.pagina = principal.pagina /\ principal'.offset = h
      BY ONLY <1>2, <3>1 DEF TipoPrincipal, Pasos
    <3>3. PaginasPartidas'
      BY <1>1, <1>4, <3>2 DEF PaginasPartidas
    <3>4. LugarEnPagina'
      BY <1>1, <1>2, <1>3, <2>1, <2>2, <3>2
         DEF LugarEnPagina, PasosEnPagina, Demasiado, Actual, Suficiente
    <3> QED
      BY <1>1, <1>2, <3>1, <3>2, <3>3, <3>4, MismasPaginas, MismaLista DEF IInvHeap, TiposHeap
  <2>3. CASE ~Suficiente(Actual[h])
    <3> DEFINE k == Siguiente(Actual, h)
    <3>1. /\ principal' = [principal EXCEPT !.offset = k]
          /\ UNCHANGED <<mutex, fallo>>
      BY <1>7, <2>1, <2>3 DEF BuscarBloque
    <3>2. k \in Nat /\ k \in Cabezas(Actual) \cup {TamPagina}
      BY <1>2, <2>1, Metadata DEF Teselada
    <3> HIDE DEF k
    <3>3. /\ principal' \in TipoPrincipal /\ principal'.paso = "buscar"
          /\ principal'.pid = principal.pid /\ principal'.tam = principal.tam
          /\ principal'.pagina = principal.pagina /\ principal'.offset = k
      BY ONLY <1>1, <1>2, <3>1, <3>2 DEF TipoPrincipal, Pasos
    <3>4. ASSUME NEW p \in Pids, NEW n \in DOMAIN paginas[p],
                 Siguiente(paginas[p][n], 0) = TamPagina
          PROVE  FALSE
      <4>1. h = 0 /\ ~Actual[0].usado /\ Siguiente(Actual, 0) = TamPagina
        BY <1>4, <3>4
      <4>2. Actual[0].tam \in Nat
        BY <1>2, <2>1, <4>1, Metadata
      <4>3. Actual[0].tam >= principal.tam + TamMeta
        BY <1>2, <1>3, <1>5, <4>1, <4>2 DEF Siguiente, Demasiado
      <4> QED
        BY <2>3, <4>1, <4>3 DEF Suficiente
    <3>5. PaginasPartidas'
      BY <1>1, <3>4 DEF PaginasPartidas
    <3>6. LugarEnPagina'
      BY <1>1, <1>2, <1>3, <3>2, <3>3 DEF LugarEnPagina, PasosEnPagina, Demasiado, Actual
    <3> QED
      BY <1>1, <1>2, <3>1, <3>3, <3>5, <3>6, MismasPaginas, MismaLista DEF IInvHeap, TiposHeap
  <2> QED
    BY <2>2, <2>3
<1> QED
  BY <1>6, <1>7

LEMMA DescontarConserva ==
  ASSUME IInvHeap, Descontar
  PROVE  IInvHeap'
<1>1. /\ principal.paso = "descontar" /\ fallo = "ninguno" /\ SumarLibre(-Descuento)
      /\ UNCHANGED <<paginas, contable, proceso, punteros, fin, mutex, fallo>>
      /\ principal' = [principal EXCEPT !.paso = "partir"]
  BY DEF Descontar, En
<1>2. /\ principal \in TipoPrincipal /\ principal.pid \in Pids
      /\ proceso[principal.pid] = "activo" /\ -Descuento \in Int
  BY <1>1, EnLaPagina DEF PasosEnPagina, Descuento, HeapAssumption
<1>3. /\ principal' \in TipoPrincipal /\ principal'.paso = "partir"
      /\ principal'.pid = principal.pid /\ principal'.tam = principal.tam
      /\ principal'.pagina = principal.pagina /\ principal'.offset = principal.offset
  BY <1>1, <1>2 DEF TipoPrincipal, Pasos
<1>4. PaginasPartidas'
  BY <1>1, <1>3 DEF IInvHeap, PaginasPartidas
<1>5. LugarEnPagina'
  BY <1>1, <1>3 DEF IInvHeap, LugarEnPagina, PasosEnPagina, Demasiado, Actual
<1>6. /\ lista' \in Seq(TipoEntrada)
      /\ \A i \in DOMAIN lista' : \E j \in DOMAIN lista :
           lista'[i].pid = lista[j].pid /\ lista'[i].pagina = lista[j].pagina
  BY <1>1, <1>2, SumarLibreEntradas DEF IInvHeap, TiposHeap
<1> QED
  BY <1>1, <1>2, <1>3, <1>4, <1>5, <1>6, MismasPaginas DEF IInvHeap, TiposHeap

LEMMA SumarLiberadoConserva ==
  ASSUME IInvHeap, SumarLiberado
  PROVE  IInvHeap'
<1>1. /\ principal.paso = "liberar" /\ fallo = "ninguno" /\ SumarLibre(principal.tam)
      /\ UNCHANGED <<paginas, contable, proceso, punteros, fin, mutex, fallo>>
      /\ principal' = Ocioso
  BY DEF SumarLiberado, En
<1>2. principal.tam \in Int
  BY <1>1, EnLaPagina DEF PasosEnPagina
<1>3. principal' \in TipoPrincipal /\ principal'.paso = "libre"
  BY <1>1 DEF Ocioso, TipoPrincipal, Pasos
<1>4. PaginasPartidas'
  BY <1>1, SigueNinguna DEF IInvHeap
<1>5. LugarEnPagina'
  BY <1>3 DEF LugarEnPagina, PasosEnPagina
<1>6. /\ lista' \in Seq(TipoEntrada)
      /\ \A i \in DOMAIN lista' : \E j \in DOMAIN lista :
           lista'[i].pid = lista[j].pid /\ lista'[i].pagina = lista[j].pagina
  BY <1>1, <1>2, SumarLibreEntradas DEF IInvHeap, TiposHeap
<1> QED
  BY <1>1, <1>3, <1>4, <1>5, <1>6, MismasPaginas DEF IInvHeap, TiposHeap

-----------------------------------------------------------------------------
(* The end of a process                                                    *)

\* The thread that ends processes touches no page after the first step, and takes no
\* entry of a process that lives.
LEMMA FinConserva ==
  ASSUME IInvHeap, TomarLista \/ DestruirEntrada \/ SoltarLista
  PROVE  IInvHeap'
<1>1. /\ fallo = "ninguno" /\ fin.paso # "libre"
      /\ UNCHANGED <<paginas, contable, punteros, principal, fallo>>
      /\ mutex' \in {mutex, "fin", "libre"}
  BY DEF TomarLista, DestruirEntrada, SoltarLista
<1>2. /\ lista \in Seq(TipoEntrada) /\ fin \in TipoFin /\ fin.indice \in Nat
      /\ fin.pid \in Pids /\ proceso[fin.pid] = "terminando"
      /\ proceso \in [Pids -> Vivos \cup {"terminando", "terminado"}]
  BY <1>1 DEF IInvHeap, TiposHeap, TipoFin
<1>3. /\ lista' \in Seq(TipoEntrada)
      /\ \A i \in DOMAIN lista' : \E j \in DOMAIN lista :
           lista'[i].pid = lista[j].pid /\ lista'[i].pagina = lista[j].pagina
  <2>1. CASE UNCHANGED lista
    BY <1>2, <2>1
  <2>2. CASE fin.indice < Len(lista) /\ lista' = RemoveAt(lista, fin.indice + 1)
    <3>1. fin.indice + 1 \in 1..Len(lista)
      BY <1>2, <2>2
    <3>2. lista' \in Seq(TipoEntrada) /\ \A i \in DOMAIN lista' : \E j \in DOMAIN lista : lista'[i] = lista[j]
      BY <1>2, <2>2, <3>1, QuitarLugar, QuedanLosDemas
    <3> QED
      BY <3>2
  <2> QED
    BY <2>1, <2>2 DEF TomarLista, DestruirEntrada, SoltarLista
<1>4. /\ fin' \in TipoFin
      /\ \/ fin'.paso # "libre" /\ fin'.pid = fin.pid /\ UNCHANGED proceso
         \/ fin'.paso = "libre" /\ proceso' = [proceso EXCEPT ![fin.pid] = "terminado"]
  <2>1. CASE TomarLista
    <3>1. fin' = [fin EXCEPT !.paso = "recorrer"] /\ UNCHANGED proceso
      BY <2>1 DEF TomarLista
    <3> QED
      BY <1>2, <3>1 DEF TipoFin
  <2>2. CASE DestruirEntrada
    <3>1. fin' = [fin EXCEPT !.indice = fin.indice + 1] /\ UNCHANGED proceso
      BY <2>2 DEF DestruirEntrada
    <3>2. fin.indice + 1 \in Nat
      BY <1>2
    <3> QED
      BY ONLY <1>1, <1>2, <3>1, <3>2 DEF TipoFin
  <2>3. CASE SoltarLista
    BY <2>3 DEF SoltarLista, FinLibre, TipoFin
  <2> QED
    BY <2>1, <2>2, <2>3
<1>5. /\ proceso' \in [Pids -> Vivos \cup {"terminando", "terminado"}]
      /\ \A p \in Pids : proceso'[p] \in Vivos => proceso[p] \in Vivos
      /\ \A p \in Pids : proceso[p] = "activo" => proceso'[p] = "activo"
      /\ fin'.paso # "libre" => fin'.pid \in Pids /\ proceso'[fin'.pid] = "terminando"
  BY <1>2, <1>4 DEF Vivos
<1>6. PaginasPartidas' /\ LugarEnPagina'
  BY <1>1 DEF IInvHeap, PaginasPartidas, LugarEnPagina, Actual
<1>7. principal' \in TipoPrincipal
      /\ (principal'.paso # "libre" =>
            principal'.pid \in Pids /\ proceso'[principal'.pid] = "activo")
  BY <1>1, <1>5 DEF IInvHeap, TiposHeap
<1>8. mutex' \in {"libre", "principal", "fin"} /\ contable' \in [Pids -> TipoCuenta]
  BY <1>1 DEF IInvHeap, TiposHeap
<1> QED
  BY <1>1, <1>3, <1>4, <1>5, <1>6, <1>7, <1>8, MismasPaginas

\* Memoria frees the pages of a process that the main thread does not work for.
LEMMA LiberarRecursosConserva ==
  ASSUME IInvHeap, NEW p \in Pids, LiberarRecursos(p)
  PROVE  IInvHeap'
<1>1. /\ fallo = "ninguno" /\ fin = FinLibre /\ principal.pid # p
      /\ proceso' = [proceso EXCEPT ![p] = "terminando"]
      /\ paginas' = [paginas EXCEPT ![p] = <<>>]
      /\ punteros' = [punteros EXCEPT ![p] = {}]
      /\ fin' = [paso |-> "candado", pid |-> p, indice |-> 0]
      /\ UNCHANGED <<lista, contable, principal, mutex, fallo>>
  BY DEF LiberarRecursos
<1>2. /\ paginas \in [Pids -> Seq(TipoPagina)] /\ punteros \in [Pids -> SUBSET TipoPuntero]
      /\ proceso \in [Pids -> Vivos \cup {"terminando", "terminado"}]
      /\ lista \in Seq(TipoEntrada)
  BY DEF IInvHeap, TiposHeap
<1>3. /\ proceso'[p] = "terminando" /\ paginas'[p] = <<>> /\ punteros'[p] = {}
      /\ \A q \in Pids \ {p} : /\ proceso'[q] = proceso[q] /\ paginas'[q] = paginas[q]
                               /\ punteros'[q] = punteros[q]
  BY <1>1, <1>2
<1>4. /\ paginas' \in [Pids -> Seq(TipoPagina)] /\ punteros' \in [Pids -> SUBSET TipoPuntero]
      /\ proceso' \in [Pids -> Vivos \cup {"terminando", "terminado"}]
      /\ fin' \in TipoFin
  BY <1>1, <1>2 DEF TipoFin
<1>5. TiposHeap'
  BY <1>1, <1>3, <1>4 DEF IInvHeap, TiposHeap
<1>6. DOMAIN paginas'[p] = {}
  BY <1>3
<1>7. PaginasTeseladas' /\ PaginasPartidas'
  BY <1>1, <1>3, <1>6 DEF IInvHeap, PaginasTeseladas, PaginasPartidas
<1>8. LugarEnPagina'
  <2>1. principal.paso # "libre" => Actual' = Actual /\ paginas'[principal.pid] = paginas[principal.pid]
    BY <1>1, <1>3 DEF IInvHeap, TiposHeap, Actual
  <2> QED
    BY <1>1, <2>1 DEF IInvHeap, LugarEnPagina, PasosEnPagina
<1>9. PaginasContadas'
  BY <1>1, <1>3 DEF IInvHeap, PaginasContadas, Vivos
<1>10. EntradasDeVivos'
  BY <1>1, <1>2, <1>3, EnLista DEF IInvHeap, EntradasDeVivos, Vivos
<1>11. PunterosEnBloques'
  BY <1>3 DEF IInvHeap, PunterosEnBloques
<1>12. SoloMetadatas'
  BY <1>1 DEF SoloMetadatas
<1> QED
  BY <1>5, <1>7, <1>8, <1>9, <1>10, <1>11, <1>12 DEF IInvHeap

-----------------------------------------------------------------------------
(* Steps on a page                                                         *)

\* A change of one page.
LEMMA UnaPagina ==
  ASSUME paginas \in [Pids -> Seq(TipoPagina)], NEW p \in Pids, NEW n \in DOMAIN paginas[p],
         NEW c \in TipoPagina, paginas' = [paginas EXCEPT ![p][n] = c]
  PROVE  /\ paginas' \in [Pids -> Seq(TipoPagina)]
         /\ \A q \in Pids : DOMAIN paginas'[q] = DOMAIN paginas[q]
                            /\ Len(paginas'[q]) = Len(paginas[q])
         /\ paginas'[p][n] = c
         /\ \A q \in Pids : \A m \in DOMAIN paginas[q] :
              q # p \/ m # n => paginas'[q][m] = paginas[q][m]
<1> DEFINE suyas == [paginas[p] EXCEPT ![n] = c]
<1>1. paginas[p] \in Seq(TipoPagina)
  OBVIOUS
<1>2. /\ suyas \in Seq(TipoPagina) /\ Len(suyas) = Len(paginas[p])
      /\ DOMAIN suyas = DOMAIN paginas[p] /\ suyas[n] = c
      /\ \A m \in DOMAIN paginas[p] \ {n} : suyas[m] = paginas[p][m]
  BY ONLY <1>1, n \in DOMAIN paginas[p], c \in TipoPagina, CambiarLugar
<1>3. paginas' = [paginas EXCEPT ![p] = suyas]
  OBVIOUS
<1> HIDE DEF suyas
<1>4. paginas'[p] = suyas /\ \A q \in Pids \ {p} : paginas'[q] = paginas[q]
  BY <1>3
<1>5. paginas' \in [Pids -> Seq(TipoPagina)]
  BY <1>2, <1>3
<1> QED
  BY <1>2, <1>4, <1>5

\* What a step on a page does to the rest.
RestoTrasPagina ==
  /\ UNCHANGED <<lista, fin>> /\ mutex' \in {"libre", "principal", "fin"}
  /\ fallo' \in {"ninguno", "desincronizado"}
  /\ contable' \in [Pids -> TipoCuenta]
  /\ \A q \in Pids : contable'[q].paginas = contable[q].paginas
  /\ proceso' \in [Pids -> Vivos \cup {"terminando", "terminado"}]
  /\ \A q \in Pids : proceso'[q] \in Vivos => proceso[q] \in Vivos
  /\ principal' \in TipoPrincipal
  /\ principal'.paso # "libre" =>
       principal'.pid \in Pids /\ proceso'[principal'.pid] = "activo"
  /\ fin.paso # "libre" => proceso'[fin.pid] = "terminando"
  /\ principal'.paso # "agregar" /\ principal.paso # "agregar"
  /\ punteros' \in [Pids -> SUBSET TipoPuntero]

\* The pointers to page n of p are to used blocks of c; the others were there.
PunterosTrasPagina(p, n, c) ==
  \A q \in Pids : \A r \in punteros'[q] :
    \/ q = p /\ r.pagina + 1 = n /\ r.offset - TamMeta \in Cabezas(c)
       /\ c[r.offset - TamMeta].usado
    \/ (q # p \/ r.pagina + 1 # n) /\ r \in punteros[q]

\* What changes a page, and leaves its blocks in a row, the used ones among them, keeps
\* what is said of the others.
LEMMA UnaPaginaConserva ==
  ASSUME IInvHeap, NEW p \in Pids, NEW n \in DOMAIN paginas[p],
         NEW c \in TipoPagina, Teselada(c), paginas' = [paginas EXCEPT ![p][n] = c],
         RestoTrasPagina, PunterosTrasPagina(p, n, c), PaginasPartidas', LugarEnPagina'
  PROVE  IInvHeap'
<1> USE DEF RestoTrasPagina, PunterosTrasPagina
<1>1. paginas \in [Pids -> Seq(TipoPagina)] /\ lista \in Seq(TipoEntrada)
  BY DEF IInvHeap, TiposHeap
<1>2. /\ paginas' \in [Pids -> Seq(TipoPagina)]
      /\ \A q \in Pids : DOMAIN paginas'[q] = DOMAIN paginas[q]
                         /\ Len(paginas'[q]) = Len(paginas[q])
      /\ paginas'[p][n] = c
      /\ \A q \in Pids : \A m \in DOMAIN paginas[q] :
           q # p \/ m # n => paginas'[q][m] = paginas[q][m]
  BY <1>1, UnaPagina
<1>3. TiposHeap'
  BY <1>2 DEF IInvHeap, TiposHeap
<1>4. PaginasTeseladas'
  BY <1>2 DEF IInvHeap, PaginasTeseladas
<1>5. PaginasContadas'
  BY <1>2 DEF IInvHeap, PaginasContadas
<1>6. EntradasDeVivos'
  BY <1>1, <1>2, EnLista DEF IInvHeap, EntradasDeVivos
<1>7. PunterosEnBloques'
  <2>1. ASSUME NEW q \in Pids, NEW r \in punteros'[q]
        PROVE  /\ r.pagina + 1 \in DOMAIN paginas'[q]
               /\ r.offset - TamMeta \in Cabezas(paginas'[q][r.pagina + 1])
               /\ paginas'[q][r.pagina + 1][r.offset - TamMeta].usado
    <3>1. CASE q = p /\ r.pagina + 1 = n /\ r.offset - TamMeta \in Cabezas(c)
               /\ c[r.offset - TamMeta].usado
      BY <1>2, <3>1
    <3>2. CASE (q # p \/ r.pagina + 1 # n) /\ r \in punteros[q]
      <4>1. /\ r.pagina + 1 \in DOMAIN paginas[q]
            /\ r.offset - TamMeta \in Cabezas(paginas[q][r.pagina + 1])
            /\ paginas[q][r.pagina + 1][r.offset - TamMeta].usado
        BY <3>2 DEF IInvHeap, PunterosEnBloques
      <4> QED
        BY <1>2, <3>2, <4>1
    <3> QED
      BY <3>1, <3>2
  <2> QED
    BY <2>1 DEF PunterosEnBloques
<1>8. SoloMetadatas'
  BY DEF SoloMetadatas
<1> QED
  BY <1>3, <1>4, <1>5, <1>6, <1>7, <1>8 DEF IInvHeap

\* The block that the compaction is at and, while it goes on, the next one.
LEMMA HayOtro ==
  ASSUME IInvHeap, principal.paso = "compactar", QuedaOtro
  PROVE  /\ principal.offset \in Cabezas(Actual)
         /\ Siguiente(Actual, principal.offset) \in Cabezas(Actual)
<1> DEFINE b == Actual
           h == principal.offset
<1>1. /\ principal.pid \in Pids /\ principal.pagina + 1 \in DOMAIN paginas[principal.pid]
      /\ b \in TipoPagina /\ Teselada(b) /\ h \in Nat /\ principal.previo \in Nat
      /\ principal.pagina \in Nat
  BY EnLaPagina DEF PasosEnPagina
<1>2. h \in Cabezas(b) /\ (principal.previo = b[h].tam \/ (h = 0 /\ principal.previo = 0))
  BY DEF IInvHeap, LugarEnPagina
<1>3. Siguiente(b, h) \in Cabezas(b) \cup {TamPagina}
  BY <1>1, <1>2 DEF Teselada
<1>4. TamPagina \in Nat /\ TamMeta \in Nat /\ TamMeta > 0 /\ TamPagina > 2 * TamMeta
  BY DEF HeapAssumption
<1>5. h + TamMeta + principal.previo < TamPagina - TamMeta
  BY DEF QuedaOtro
<1>6. CASE principal.previo = b[h].tam
  <2>1. Siguiente(b, h) # TamPagina
    BY <1>1, <1>4, <1>5, <1>6 DEF Siguiente
  <2> QED
    BY <1>2, <1>3, <2>1
<1>7. CASE h = 0 /\ principal.previo = 0
  <2>1. Siguiente(b, 0) # TamPagina
    <3>1. ASSUME Siguiente(b, 0) = TamPagina PROVE principal.previo = TamPagina - TamMeta
      BY <1>1, <3>1 DEF IInvHeap, PaginasPartidas, Actual
    <3> QED
      BY <1>4, <1>7, <3>1
  <2> QED
    BY <1>2, <1>3, <1>7, <2>1
<1> QED
  BY <1>2, <1>6, <1>7

LEMMA CompactarConserva ==
  ASSUME IInvHeap, Compactar
  PROVE  IInvHeap'
<1> DEFINE b == Actual
           h == principal.offset
           k == Siguiente(b, h)
           c == Juntar(b, h)
           p == principal.pid
           n == principal.pagina + 1
<1>1. /\ principal.paso = "compactar" /\ fallo = "ninguno" /\ QuedaOtro
      /\ UNCHANGED <<lista, contable, proceso, punteros, fin, mutex>>
  BY DEF Compactar, En
<1>2. h \in Cabezas(b) /\ k \in Cabezas(b)
  BY <1>1, HayOtro
<1>3. /\ principal \in TipoPrincipal /\ p \in Pids /\ proceso[p] = "activo"
      /\ n \in DOMAIN paginas[p] /\ b \in TipoPagina /\ Teselada(b) /\ h \in Nat
      /\ principal.previo \in Nat /\ principal.juntados \in Nat /\ principal.pagina \in Nat
      /\ ~Demasiado(principal.tam) /\ b = paginas[p][n]
  BY <1>1, EnLaPagina DEF PasosEnPagina, IInvHeap, LugarEnPagina, Actual
<1>4. /\ TamPagina \in Nat /\ TamMeta \in Nat /\ TamMeta > 0
      /\ k \in Nat /\ h < k /\ k < TamPagina /\ b[k].tam \in Nat /\ h \in Offsets
  BY <1>2, <1>3, Metadata DEF HeapAssumption, Cabezas
<1>5. CASE Libres(b, {h, k})
  <2>1. /\ paginas' = [paginas EXCEPT ![p][n] = c] /\ UNCHANGED fallo
        /\ principal' = [principal EXCEPT !.previo = c[h].tam,
                                          !.juntados = principal.juntados + TamMeta]
    BY <1>2, <1>5 DEF Compactar, CambiarPagina
  <2>2. /\ c \in TipoPagina /\ Teselada(c) /\ Cabezas(c) = Cabezas(b) \ {k}
        /\ c[h].usado = b[h].usado /\ c[h].tam \in Nat
        /\ \A g \in Offsets \ {h, k} : c[g] = b[g]
    BY <1>2, <1>3, JuntarTesela, SMTT(30)
  <2>3. ~b[h].usado /\ ~b[k].usado
    BY <1>5 DEF Libres
  <2> HIDE DEF b, h, k, c, p, n
  <2>4. principal.juntados + TamMeta \in Nat
    BY <1>3, <1>4
  <2>5. /\ principal' \in TipoPrincipal /\ principal'.paso = "compactar"
        /\ principal'.pid = p /\ principal'.tam = principal.tam
        /\ principal'.pagina = principal.pagina /\ principal'.offset = h
        /\ principal'.previo = c[h].tam
    BY ONLY <1>1, <1>3, <2>1, <2>2, <2>4 DEF TipoPrincipal, p, h
  <2>6. /\ paginas'[p][n] = c
        /\ \A q \in Pids : DOMAIN paginas'[q] = DOMAIN paginas[q]
        /\ \A q \in Pids : \A m \in DOMAIN paginas[q] :
             q # p \/ m # n => paginas'[q][m] = paginas[q][m]
    <3>1. paginas \in [Pids -> Seq(TipoPagina)]
      BY DEF IInvHeap, TiposHeap
    <3> QED
      BY ONLY <1>3, <2>1, <2>2, <3>1, UnaPagina
  <2>7. ASSUME Siguiente(c, 0) = TamPagina
        PROVE  h = 0 /\ ~c[0].usado /\ c[h].tam = TamPagina - TamMeta
    <3>1. h = 0
      <4>1. ASSUME h # 0 PROVE FALSE
        <5>1. 0 \in Offsets \ {h, k} /\ 0 \in Cabezas(b) /\ 0 < h
          BY <1>3, <1>4, <4>1 DEF Teselada, Cabezas
        <5>2. Siguiente(b, 0) = TamPagina
          BY <2>2, <2>7, <5>1 DEF Siguiente
        <5>3. Siguiente(b, 0) <= h
          BY <1>2, <1>3, <5>1 DEF Teselada
        <5> QED
          BY <1>3, <1>4, <5>2, <5>3
      <4> QED
        BY <4>1
    <3> QED
      BY <1>4, <2>2, <2>3, <2>7, <3>1 DEF Siguiente
  <2>8. PaginasPartidas'
    <3>1. ASSUME NEW q \in Pids, NEW m \in DOMAIN paginas[q], q # p \/ m # n
          PROVE  Siguiente(paginas[q][m], 0) # TamPagina
      <4>1. m \in Nat
        BY DEF IInvHeap, TiposHeap
      <4>2. principal.pid # q \/ principal.pagina # m - 1
        BY <1>3, <3>1, <4>1 DEF p, n
      <4> QED
        BY <4>2, OtrasPartidas DEF IInvHeap
    <3>2. ASSUME NEW q \in Pids, NEW m \in DOMAIN paginas'[q],
                 Siguiente(paginas'[q][m], 0) = TamPagina
          PROVE  q = p /\ m = n /\ paginas'[q][m] = c
      BY <2>6, <3>1, <3>2
    <3>3. principal.pagina = n - 1
      BY <1>3 DEF n
    <3> QED
      BY <2>5, <2>7, <3>2, <3>3 DEF PaginasPartidas
  <2>9. LugarEnPagina'
    <3>1. Actual' = c /\ principal'.pagina + 1 = n
      BY <2>5, <2>6 DEF Actual, n
    <3>2. h \in Cabezas(c)
      BY <1>2, <1>4, <2>2
    <3> QED
      BY <1>3, <2>5, <2>6, <3>1, <3>2 DEF LugarEnPagina, PasosEnPagina, Demasiado
  <2>10. ASSUME NEW q \in Pids, NEW r \in punteros'[q]
         PROVE  \/ q = p /\ r.pagina + 1 = n /\ r.offset - TamMeta \in Cabezas(c)
                   /\ c[r.offset - TamMeta].usado
                \/ (q # p \/ r.pagina + 1 # n) /\ r \in punteros[q]
    <3>1. r \in punteros[q]
      BY <1>1
    <3>2. CASE q = p /\ r.pagina + 1 = n
      <4> DEFINE g == r.offset - TamMeta
      <4>1. g \in Cabezas(b) /\ b[g].usado
        BY <1>3, <3>1, <3>2 DEF IInvHeap, PunterosEnBloques
      <4> HIDE DEF g
      <4>2. g \in Offsets \ {h, k}
        BY <2>3, <4>1 DEF Cabezas
      <4>3. g \in Cabezas(c) /\ c[g].usado
        BY <2>2, <4>1, <4>2
      <4> QED
        BY <3>2, <4>3 DEF g
    <3> QED
      BY <3>1, <3>2
  <2>11. RestoTrasPagina
    <3>1. /\ mutex \in {"libre", "principal", "fin"} /\ contable \in [Pids -> TipoCuenta]
          /\ proceso \in [Pids -> Vivos \cup {"terminando", "terminado"}]
          /\ punteros \in [Pids -> SUBSET TipoPuntero]
          /\ (fin.paso # "libre" => proceso[fin.pid] = "terminando")
      BY DEF IInvHeap, TiposHeap
    <3> QED
      BY ONLY <1>1, <1>3, <2>1, <2>5, <3>1 DEF RestoTrasPagina, p
  <2>12. PunterosTrasPagina(p, n, c)
    BY <2>10 DEF PunterosTrasPagina
  <2> QED
    BY <1>3, <2>1, <2>2, <2>8, <2>9, <2>11, <2>12, UnaPaginaConserva
<1>6. CASE ~Libres(b, {h, k})
  <2>1. /\ UNCHANGED <<paginas, fallo>>
        /\ principal' = [principal EXCEPT !.offset = k, !.previo = b[k].tam]
    BY <1>2, <1>6 DEF Compactar
  <2> HIDE DEF b, h, k, c, p, n
  <2>2. /\ principal' \in TipoPrincipal /\ principal'.paso = "compactar"
        /\ principal'.pid = p /\ principal'.tam = principal.tam
        /\ principal'.pagina = principal.pagina /\ principal'.offset = k
        /\ principal'.previo = b[k].tam
    BY ONLY <1>1, <1>3, <1>4, <2>1 DEF TipoPrincipal, p
  <2>3. PaginasPartidas'
    <3>1. ASSUME NEW q \in Pids, NEW m \in DOMAIN paginas[q],
                 Siguiente(paginas[q][m], 0) = TamPagina
          PROVE  FALSE
      <4>1. h = 0 /\ Siguiente(b, 0) = TamPagina
        BY <1>1, <3>1, EnteraEsActual DEF IInvHeap, PaginasPartidas, PasosEnPagina, b, h
      <4> QED
        BY <1>4, <4>1 DEF k
    <3> QED
      BY <2>1, <3>1 DEF PaginasPartidas
  <2>4. LugarEnPagina'
    <3>1. Actual' = b /\ principal'.pagina + 1 \in DOMAIN paginas'[p]
      BY <1>3, <2>1, <2>2 DEF Actual, b, n, p
    <3> QED
      BY <1>2, <1>3, <2>2, <3>1 DEF LugarEnPagina, PasosEnPagina, Demasiado
  <2> QED
    BY <1>1, <1>3, <2>1, <2>2, <2>3, <2>4, MismasPaginas, MismaLista DEF IInvHeap, TiposHeap, p
<1> QED
  BY <1>5, <1>6

\* A pointer of a program to the page is to another block of it, or is the one meant.
LEMMA PunteroEnPagina ==
  ASSUME IInvHeap, NEW p \in Pids, NEW r \in punteros[p]
  PROVE  /\ r \in TipoPuntero /\ r.pagina \in Nat /\ r.offset \in Nat
         /\ r.pagina + 1 \in DOMAIN paginas[p]
         /\ paginas[p][r.pagina + 1] \in TipoPagina /\ Teselada(paginas[p][r.pagina + 1])
         /\ r.offset - TamMeta \in Cabezas(paginas[p][r.pagina + 1])
         /\ paginas[p][r.pagina + 1][r.offset - TamMeta].usado
<1>1. r \in TipoPuntero /\ paginas[p] \in Seq(TipoPagina)
  BY DEF IInvHeap, TiposHeap
<1>2. r.pagina \in Nat /\ r.offset \in Nat
  BY <1>1 DEF TipoPuntero
<1>3. /\ r.pagina + 1 \in DOMAIN paginas[p]
      /\ r.offset - TamMeta \in Cabezas(paginas[p][r.pagina + 1])
      /\ paginas[p][r.pagina + 1][r.offset - TamMeta].usado
  BY DEF IInvHeap, PunterosEnBloques
<1>4. r.pagina + 1 \in 1..Len(paginas[p])
  BY <1>1, <1>3
<1>5. paginas[p][r.pagina + 1] \in TipoPagina
  BY ONLY <1>1, <1>4, ElementOfSeq
<1>6. Teselada(paginas[p][r.pagina + 1])
  BY <1>3 DEF IInvHeap, PaginasTeseladas
<1> QED
  BY <1>1, <1>2, <1>3, <1>5, <1>6

\* Accounts that only change how many blocks and bytes are not released.
LEMMA ContarConserva ==
  ASSUME IInvHeap, NEW p \in Pids, NEW bloques \in Int, NEW bytes \in Int,
         Contar(p, bloques, bytes)
  PROVE  /\ contable' \in [Pids -> TipoCuenta]
         /\ \A q \in Pids : contable'[q].paginas = contable[q].paginas
<1> DEFINE e == [contable[p] EXCEPT !.bloques = @ + bloques, !.bytes = @ + bytes]
<1>1. contable \in [Pids -> TipoCuenta] /\ contable[p] \in TipoCuenta
  BY DEF IInvHeap, TiposHeap
<1>2. contable[p].bloques + bloques \in Int /\ contable[p].bytes + bytes \in Int
  BY <1>1 DEF TipoCuenta
<1>3. e \in TipoCuenta /\ e.paginas = contable[p].paginas
  BY ONLY <1>1, <1>2 DEF TipoCuenta
<1>4. contable' = [contable EXCEPT ![p] = e]
  BY DEF Contar
<1> HIDE DEF e
<1> QED
  BY <1>1, <1>3, <1>4

LEMMA LiberarBloqueConserva ==
  ASSUME IInvHeap, NEW p \in Pids, NEW r \in punteros[p], LiberarBloque(p, r)
  PROVE  IInvHeap'
<1> DEFINE n == r.pagina + 1
           h == r.offset - TamMeta
           b == paginas[p][n]
           c == [b EXCEPT ![h].usado = FALSE]
<1>1. /\ principal.paso = "libre" /\ fallo = "ninguno" /\ proceso[p] = "activo"
      /\ punteros' = [punteros EXCEPT ![p] = @ \ {r}]
      /\ paginas' = [paginas EXCEPT ![p][n] = c]
      /\ Contar(p, -1, -b[h].tam)
      /\ principal' = [Ocioso EXCEPT !.paso = "liberar", !.pid = p, !.pagina = r.pagina,
                                     !.tam = b[h].tam]
      /\ UNCHANGED <<lista, proceso, fin, mutex, fallo>>
  BY DEF LiberarBloque, En
<1>2. /\ r \in TipoPuntero /\ r.pagina \in Nat /\ r.offset \in Nat /\ n \in DOMAIN paginas[p]
      /\ b \in TipoPagina /\ Teselada(b) /\ h \in Cabezas(b) /\ b[h].usado
  BY PunteroEnPagina
<1>3. /\ c \in TipoPagina /\ Cabezas(c) = Cabezas(b) /\ Teselada(c)
      /\ \A g \in Cabezas(b) : Siguiente(c, g) = Siguiente(b, g)
      /\ \A g \in Offsets \ {h} : c[g] = b[g]
  BY <1>2, MismasCabezas, SMTT(30)
<1>4. b[h].tam \in Nat /\ 0 \in Cabezas(b) /\ TamMeta \in Nat
  BY <1>2, Metadata DEF Teselada, HeapAssumption
<1>5. r.pagina = n - 1 /\ r.offset = h + TamMeta
  BY <1>2, <1>4
<1> HIDE DEF n, h, b, c
<1>6. /\ principal' \in TipoPrincipal /\ principal'.paso = "liberar" /\ principal'.pid = p
      /\ principal'.pagina = r.pagina
  BY ONLY <1>1, <1>2, <1>4 DEF Ocioso, TipoPrincipal, Pasos
<1>7. -1 \in Int /\ -b[h].tam \in Int
  BY <1>4
<1>8. contable' \in [Pids -> TipoCuenta] /\ \A q \in Pids : contable'[q].paginas = contable[q].paginas
  BY <1>1, <1>7, ContarConserva
<1>9. /\ paginas \in [Pids -> Seq(TipoPagina)] /\ punteros \in [Pids -> SUBSET TipoPuntero]
      /\ proceso \in [Pids -> Vivos \cup {"terminando", "terminado"}]
      /\ mutex \in {"libre", "principal", "fin"}
      /\ (fin.paso # "libre" => proceso[fin.pid] = "terminando")
  BY DEF IInvHeap, TiposHeap
<1>10. /\ paginas'[p][n] = c
       /\ \A q \in Pids : DOMAIN paginas'[q] = DOMAIN paginas[q]
       /\ \A q \in Pids : \A m \in DOMAIN paginas[q] :
            q # p \/ m # n => paginas'[q][m] = paginas[q][m]
  BY ONLY <1>1, <1>2, <1>3, <1>9, UnaPagina
<1>11. \A q \in Pids : \A m \in DOMAIN paginas[q] : Siguiente(paginas[q][m], 0) # TamPagina
  BY <1>1, NingunaEntera DEF IInvHeap
<1>12. Siguiente(c, 0) # TamPagina
  BY <1>2, <1>3, <1>4, <1>11 DEF b
<1>13. PaginasPartidas'
  <2>1. ASSUME NEW q \in Pids, NEW m \in DOMAIN paginas'[q]
        PROVE  Siguiente(paginas'[q][m], 0) # TamPagina
    <3>1. CASE q = p /\ m = n
      BY <1>10, <1>12, <3>1
    <3>2. CASE q # p \/ m # n
      BY <1>10, <1>11, <3>2
    <3> QED
      BY <3>1, <3>2
  <2> QED
    BY <2>1 DEF PaginasPartidas
<1>14. LugarEnPagina'
  <2>1. principal'.pagina + 1 \in DOMAIN paginas'[p]
    BY <1>2, <1>6, <1>10 DEF n
  <2> QED
    BY <1>6, <2>1 DEF LugarEnPagina, PasosEnPagina
<1>15. punteros' \in [Pids -> SUBSET TipoPuntero]
  BY <1>1, <1>9
<1>16. ASSUME NEW q \in Pids, NEW s \in punteros'[q]
       PROVE  \/ q = p /\ s.pagina + 1 = n /\ s.offset - TamMeta \in Cabezas(c)
                 /\ c[s.offset - TamMeta].usado
              \/ (q # p \/ s.pagina + 1 # n) /\ s \in punteros[q]
  <2>1. s \in punteros[q] /\ (q = p => s # r)
    BY <1>1, <1>9
  <2>2. CASE q = p /\ s.pagina + 1 = n
    <3> DEFINE g == s.offset - TamMeta
    <3>1. /\ s \in TipoPuntero /\ s.pagina \in Nat /\ s.offset \in Nat
          /\ g \in Cabezas(b) /\ b[g].usado
      BY <2>1, <2>2, PunteroEnPagina DEF b
    <3>2. g # h
      <4>1. ASSUME g = h PROVE FALSE
        <5>1. s.offset = r.offset /\ s.pagina = r.pagina
          BY <1>2, <1>4, <1>5, <2>2, <3>1, <4>1
        <5>2. s = r
          BY <1>2, <3>1, <5>1 DEF TipoPuntero
        <5> QED
          BY <2>1, <2>2, <5>2
      <4> QED
        BY <4>1
    <3> HIDE DEF g
    <3>3. g \in Offsets \ {h}
      BY <3>1, <3>2 DEF Cabezas
    <3>4. g \in Cabezas(c) /\ c[g].usado
      BY <1>3, <3>1, <3>3
    <3> QED
      BY <2>2, <3>4 DEF g
  <2> QED
    BY <2>1, <2>2
<1>17. RestoTrasPagina
  BY ONLY <1>1, <1>6, <1>8, <1>9, <1>15 DEF RestoTrasPagina
<1>18. PunterosTrasPagina(p, n, c)
  BY <1>16 DEF PunterosTrasPagina
<1> QED
  BY <1>1, <1>2, <1>3, <1>13, <1>14, <1>17, <1>18, UnaPaginaConserva

\* The block found is split: the page is no longer one block, and the pointer is to a
\* block that nobody had.
LEMMA PartirBloqueConserva ==
  ASSUME IInvHeap, PartirBloque
  PROVE  IInvHeap'
<1> DEFINE b == Actual
           h == principal.offset
           tam == principal.tam
           c == Partir(b, h, tam)
           k == h + TamMeta + tam
           p == principal.pid
           n == principal.pagina + 1
           nuevo == [pagina |-> principal.pagina, offset |-> h + TamMeta]
<1>1. /\ principal.paso = "partir" /\ fallo = "ninguno"
      /\ paginas' = [paginas EXCEPT ![p][n] = c] /\ Contar(p, 1, tam) /\ principal' = Ocioso
      /\ UNCHANGED <<lista, proceso, fin, mutex>> /\ fallo' \in {fallo, "desincronizado"}
      /\ \/ UNCHANGED punteros
         \/ punteros' = [punteros EXCEPT ![p] = @ \cup {nuevo}]
  BY DEF PartirBloque, CambiarPagina, En
<1>2. /\ principal \in TipoPrincipal /\ p \in Pids /\ proceso[p] = "activo"
      /\ n \in DOMAIN paginas[p] /\ b \in TipoPagina /\ Teselada(b) /\ 0 \in Cabezas(b)
      /\ h \in Nat /\ tam \in Nat /\ principal.pagina \in Nat /\ b = paginas[p][n]
  BY <1>1, EnLaPagina DEF PasosEnPagina, Actual
<1>3. h \in Cabezas(b) /\ ~b[h].usado /\ b[h].tam >= tam + TamMeta
  BY <1>1 DEF IInvHeap, LugarEnPagina
<1>4. /\ c \in TipoPagina /\ Teselada(c) /\ Cabezas(c) = Cabezas(b) \cup {k}
      /\ k \in Offsets /\ k \notin Cabezas(b)
      /\ c[h] = [usado |-> TRUE, tam |-> tam]
      /\ Siguiente(c, h) = k
      /\ \A g \in Offsets \ {h, k} : c[g] = b[g]
  BY <1>2, <1>3, PartirTesela, SMTT(30)
<1>5. principal.pagina = n - 1 /\ TamMeta \in Nat /\ TamPagina \in Nat /\ h < TamPagina
  BY <1>2, <1>3, Metadata DEF HeapAssumption
<1>6. nuevo \in TipoPuntero /\ nuevo.pagina + 1 = n /\ nuevo.offset - TamMeta = h
  <2>1. h + TamMeta \in Nat /\ (h + TamMeta) - TamMeta = h
    BY <1>2, <1>5
  <2> QED
    BY <1>2, <2>1 DEF TipoPuntero
<1> HIDE DEF b, h, tam, c, k, p, n, nuevo
<1>7. principal' \in TipoPrincipal /\ principal'.paso = "libre"
  BY <1>1 DEF Ocioso, TipoPrincipal, Pasos
<1>8. contable' \in [Pids -> TipoCuenta] /\ \A q \in Pids : contable'[q].paginas = contable[q].paginas
  <2>1. 1 \in Int /\ tam \in Int
    BY <1>2
  <2> QED
    BY <1>1, <1>2, <2>1, ContarConserva
<1>9. /\ paginas \in [Pids -> Seq(TipoPagina)] /\ punteros \in [Pids -> SUBSET TipoPuntero]
      /\ proceso \in [Pids -> Vivos \cup {"terminando", "terminado"}]
      /\ mutex \in {"libre", "principal", "fin"}
      /\ (fin.paso # "libre" => fin.pid \in Pids /\ proceso[fin.pid] = "terminando")
  BY DEF IInvHeap, TiposHeap
<1>10. /\ paginas'[p][n] = c
       /\ \A q \in Pids : DOMAIN paginas'[q] = DOMAIN paginas[q]
       /\ \A q \in Pids : \A m \in DOMAIN paginas[q] :
            q # p \/ m # n => paginas'[q][m] = paginas[q][m]
  BY ONLY <1>1, <1>2, <1>4, <1>9, UnaPagina
<1>11. Siguiente(c, 0) # TamPagina
  <2>1. CASE h = 0
    BY <1>4, <1>5, <2>1 DEF Offsets
  <2>2. CASE h # 0
    <3>1. 0 \in Offsets \ {h, k} /\ 0 < h
      BY <1>2, <1>4, <2>2 DEF Cabezas
    <3>2. Siguiente(c, 0) = Siguiente(b, 0)
      BY <1>4, <3>1 DEF Siguiente
    <3>3. Siguiente(b, 0) <= h /\ Siguiente(b, 0) \in Nat
      BY <1>2, <1>3, <3>1, Metadata DEF Teselada
    <3> QED
      BY ONLY <1>2, <1>5, <3>2, <3>3
  <2> QED
    BY <2>1, <2>2
<1>12. PaginasPartidas'
  <2>1. ASSUME NEW q \in Pids, NEW m \in DOMAIN paginas'[q]
        PROVE  Siguiente(paginas'[q][m], 0) # TamPagina
    <3>1. CASE q = p /\ m = n
      BY <1>10, <1>11, <3>1
    <3>2. CASE q # p \/ m # n
      <4>1. m \in DOMAIN paginas[q] /\ m \in Nat
        BY <1>9, <1>10
      <4>2. principal.pid # q \/ principal.pagina # m - 1
        BY <1>2, <1>5, <3>2, <4>1 DEF p, n
      <4>3. Siguiente(paginas[q][m], 0) # TamPagina
        BY <4>1, <4>2, OtrasPartidas DEF IInvHeap
      <4> QED
        BY <1>10, <3>2, <4>1, <4>3
    <3> QED
      BY <3>1, <3>2
  <2> QED
    BY <2>1 DEF PaginasPartidas
<1>13. LugarEnPagina'
  BY <1>7 DEF LugarEnPagina, PasosEnPagina
<1>14. /\ punteros' \in [Pids -> SUBSET TipoPuntero]
       /\ \A q \in Pids : \A r \in punteros'[q] : r \in punteros[q] \/ (q = p /\ r = nuevo)
  <2>1. CASE UNCHANGED punteros
    BY <1>9, <2>1
  <2>2. CASE punteros' = [punteros EXCEPT ![p] = @ \cup {nuevo}]
    <3>1. punteros[p] \cup {nuevo} \in SUBSET TipoPuntero
      BY <1>2, <1>6, <1>9
    <3> QED
      BY ONLY <1>2, <1>9, <2>2, <3>1
  <2> QED
    BY <1>1, <2>1, <2>2
<1>15. ASSUME NEW q \in Pids, NEW r \in punteros'[q]
       PROVE  \/ q = p /\ r.pagina + 1 = n /\ r.offset - TamMeta \in Cabezas(c)
                 /\ c[r.offset - TamMeta].usado
              \/ (q # p \/ r.pagina + 1 # n) /\ r \in punteros[q]
  <2>1. CASE q = p /\ r = nuevo
    <3>1. h \in Cabezas(c) /\ c[h].usado
      BY <1>3, <1>4
    <3> QED
      BY <1>6, <2>1, <3>1
  <2>2. CASE q = p /\ r \in punteros[q] /\ r.pagina + 1 = n
    <3> DEFINE g == r.offset - TamMeta
    <3>1. g \in Cabezas(b) /\ b[g].usado
      BY <1>2, <2>2, PunteroEnPagina
    <3> HIDE DEF g
    <3>2. g \in Offsets \ {h, k}
      BY <1>3, <1>4, <3>1 DEF Cabezas
    <3>3. g \in Cabezas(c) /\ c[g].usado
      BY <1>4, <3>1, <3>2
    <3> QED
      BY <2>2, <3>3 DEF g
  <2>3. CASE (q # p \/ r.pagina + 1 # n) /\ r \in punteros[q]
    BY <2>3
  <2> QED
    BY <1>14, <2>1, <2>2, <2>3
<1>16. /\ proceso' \in [Pids -> Vivos \cup {"terminando", "terminado"}]
       /\ \A q \in Pids : proceso'[q] \in Vivos => proceso[q] \in Vivos
       /\ (fin.paso # "libre" => proceso'[fin.pid] = "terminando")
  BY <1>1, <1>2, <1>9 DEF Vivos
<1>17. RestoTrasPagina
  BY ONLY <1>1, <1>7, <1>8, <1>9, <1>14, <1>16 DEF RestoTrasPagina
<1>18. PunterosTrasPagina(p, n, c)
  BY <1>15 DEF PunterosTrasPagina
<1> QED
  BY <1>1, <1>2, <1>4, <1>12, <1>13, <1>17, <1>18, UnaPaginaConserva

-----------------------------------------------------------------------------
(* Pages that come                                                         *)

\* The entry of a new page is of a page that there is.
LEMMA AgregarEntradaConserva ==
  ASSUME IInvHeap, AgregarEntrada
  PROVE  IInvHeap'
<1> DEFINE p == principal.pid
           e == [pagina |-> principal.pagina, pid |-> p, libre |-> TamPagina - TamMeta]
           u == [contable[p] EXCEPT !.paginas = contable[p].paginas + 1]
<1>1. /\ principal.paso = "agregar" /\ fallo = "ninguno" /\ lista' = Append(lista, e)
      /\ contable' = [contable EXCEPT ![p] = u]
      /\ principal' = [principal EXCEPT !.paso = "descontar"]
      /\ UNCHANGED <<paginas, proceso, punteros, fin, mutex, fallo>>
  BY DEF AgregarEntrada, En
<1>2. /\ principal \in TipoPrincipal /\ p \in Pids /\ proceso[p] = "activo"
      /\ principal.pagina + 1 \in DOMAIN paginas[p] /\ principal.pagina \in Nat
  BY <1>1, EnLaPagina DEF PasosEnPagina
<1>3. /\ lista \in Seq(TipoEntrada) /\ contable \in [Pids -> TipoCuenta]
      /\ contable[p] \in TipoCuenta /\ contable[p].paginas \in Nat
  BY <1>2 DEF IInvHeap, TiposHeap, TipoCuenta
<1>4. e \in TipoEntrada /\ e.pid = p /\ e.pagina = principal.pagina
  <2>1. TamPagina - TamMeta \in Int
    BY DEF HeapAssumption
  <2> QED
    BY <1>2, <2>1 DEF TipoEntrada
<1>5. contable[p].paginas + 1 \in Nat
  BY <1>3
<1>6. u \in TipoCuenta /\ u.paginas = contable[p].paginas + 1
  BY ONLY <1>3, <1>5 DEF TipoCuenta
<1> HIDE DEF e, u
<1>7. /\ principal' \in TipoPrincipal /\ principal'.paso = "descontar" /\ principal'.pid = p
      /\ principal'.pagina = principal.pagina /\ principal'.offset = principal.offset
      /\ principal'.tam = principal.tam
  BY <1>1, <1>2 DEF TipoPrincipal, Pasos
<1>8. lista' \in Seq(TipoEntrada) /\ Len(lista') = Len(lista) + 1
  BY <1>1, <1>3, <1>4, AgregarAlFinal
<1>9. \A i \in DOMAIN lista' : (i \in DOMAIN lista /\ lista'[i] = lista[i]) \/ lista'[i] = e
  BY <1>1, <1>3, <1>8
<1>10. /\ contable' \in [Pids -> TipoCuenta] /\ contable'[p].paginas = contable[p].paginas + 1
       /\ \A q \in Pids \ {p} : contable'[q] = contable[q]
  BY <1>1, <1>2, <1>3, <1>6
<1>11. TiposHeap'
  <2>1. principal'.pid \in Pids /\ proceso'[principal'.pid] = "activo"
    BY <1>1, <1>2, <1>7
  <2> QED
    BY <1>1, <1>7, <1>8, <1>10, <2>1 DEF IInvHeap, TiposHeap
<1>12. PaginasTeseladas' /\ PunterosEnBloques'
  BY <1>1 DEF IInvHeap, PaginasTeseladas, PunterosEnBloques
<1>13. PaginasPartidas'
  BY <1>1, <1>7 DEF IInvHeap, PaginasPartidas
<1>14. LugarEnPagina'
  BY <1>1, <1>7 DEF IInvHeap, LugarEnPagina, PasosEnPagina, Actual, Demasiado
<1>15. PaginasContadas'
  <2>1. ASSUME NEW q \in Pids, proceso[q] \in Vivos
        PROVE  Len(paginas[q]) = contable'[q].paginas
    <3>1. CASE q = p
      <4>1. Len(paginas[p]) = contable[p].paginas + 1
        BY <1>1, <2>1, <3>1 DEF IInvHeap, PaginasContadas
      <4> QED
        BY <1>10, <3>1, <4>1
    <3>2. CASE q # p
      <4>1. Len(paginas[q]) = contable[q].paginas + 0
        BY <2>1, <3>2 DEF IInvHeap, PaginasContadas
      <4>2. contable[q].paginas \in Nat
        BY <1>3 DEF TipoCuenta
      <4> QED
        BY <1>10, <3>2, <4>1, <4>2
    <3> QED
      BY <3>1, <3>2
  <2>2. \A q \in Pids : contable'[q].paginas + 0 = contable'[q].paginas
    BY <1>10 DEF TipoCuenta
  <2> QED
    BY <1>1, <1>7, <2>1, <2>2 DEF PaginasContadas
<1>16. EntradasDeVivos'
  <2>1. ASSUME NEW i \in DOMAIN lista', proceso'[lista'[i].pid] \in Vivos
        PROVE  lista'[i].pagina + 1 \in DOMAIN paginas'[lista'[i].pid]
    <3>1. CASE lista'[i] = e
      BY <1>1, <1>2, <1>4, <3>1
    <3>2. CASE i \in DOMAIN lista /\ lista'[i] = lista[i]
      BY <1>1, <2>1, <3>2 DEF IInvHeap, EntradasDeVivos
    <3> QED
      BY <1>9, <3>1, <3>2
  <2> QED
    BY <2>1 DEF EntradasDeVivos
<1>17. SoloMetadatas'
  BY <1>1 DEF SoloMetadatas
<1> QED
  BY <1>11, <1>12, <1>13, <1>14, <1>15, <1>16, <1>17 DEF IInvHeap

\* The page that Memoria gives has the number that the Kernel had for it; it is whole
\* until its first block is cut.
LEMMA PedirPaginaConserva ==
  ASSUME IInvHeap, PedirPagina
  PROVE  IInvHeap'
<1> DEFINE p == principal.pid
           k == Len(paginas[p])
           s == Append(paginas[p], PaginaNueva)
<1>1. /\ principal.paso = "pedirPagina" /\ fallo = "ninguno"
      /\ UNCHANGED <<lista, punteros, fin, mutex>>
  BY DEF PedirPagina, En
<1>2. /\ principal \in TipoPrincipal /\ p \in Pids /\ proceso[p] = "activo"
      /\ principal.tam \in Nat /\ ~Demasiado(principal.tam)
      /\ paginas \in [Pids -> Seq(TipoPagina)] /\ paginas[p] \in Seq(TipoPagina) /\ k \in Nat
      /\ contable \in [Pids -> TipoCuenta] /\ contable[p].paginas \in Nat
      /\ proceso \in [Pids -> Vivos \cup {"terminando", "terminado"}]
      /\ (fin.paso # "libre" => fin.pid \in Pids /\ proceso[fin.pid] = "terminando")
  <2>1. /\ principal \in TipoPrincipal /\ p \in Pids /\ proceso[p] = "activo"
        /\ paginas \in [Pids -> Seq(TipoPagina)]
        /\ contable \in [Pids -> TipoCuenta]
        /\ proceso \in [Pids -> Vivos \cup {"terminando", "terminado"}]
        /\ (fin.paso # "libre" => fin.pid \in Pids /\ proceso[fin.pid] = "terminando")
    BY <1>1 DEF IInvHeap, TiposHeap
  <2>2. principal.tam \in Nat /\ ~Demasiado(principal.tam)
    BY <1>1, <2>1 DEF IInvHeap, LugarEnPagina, TipoPrincipal
  <2>3. paginas[p] \in Seq(TipoPagina) /\ k \in Nat /\ contable[p].paginas \in Nat
    BY <2>1 DEF TipoCuenta
  <2> QED
    BY <2>1, <2>2, <2>3
<1>3. contable[p].paginas = k
  BY <1>1, <1>2 DEF IInvHeap, PaginasContadas, Vivos
<1>4. \A q \in Pids : \A n \in DOMAIN paginas[q] : Siguiente(paginas[q][n], 0) # TamPagina
  BY <1>1, NingunaEntera DEF IInvHeap
<1>5. CASE /\ proceso' = [proceso EXCEPT ![p] = "rechazado"] /\ Contar(p, 1, principal.tam)
           /\ principal' = Ocioso /\ UNCHANGED <<paginas, fallo>>
  <2>1. /\ contable' \in [Pids -> TipoCuenta]
        /\ \A q \in Pids : contable'[q].paginas = contable[q].paginas
    <3>1. 1 \in Int /\ principal.tam \in Int
      BY <1>2
    <3> QED
      BY <1>2, <1>5, <3>1, ContarConserva
  <2>2. /\ proceso' \in [Pids -> Vivos \cup {"terminando", "terminado"}]
        /\ \A q \in Pids : proceso'[q] \in Vivos => proceso[q] \in Vivos
        /\ (fin.paso # "libre" => fin.pid \in Pids /\ proceso'[fin.pid] = "terminando")
    BY <1>2, <1>5 DEF Vivos
  <2>3. principal' \in TipoPrincipal /\ principal'.paso = "libre"
    BY <1>5 DEF Ocioso, TipoPrincipal, Pasos
  <2>4. PaginasPartidas'
    BY <1>4, <1>5 DEF PaginasPartidas
  <2>5. LugarEnPagina'
    BY <2>3 DEF LugarEnPagina, PasosEnPagina
  <2> QED
    BY <1>1, <1>5, <2>1, <2>2, <2>3, <2>4, <2>5, MismasPaginas, MismaLista
       DEF IInvHeap, TiposHeap
<1>6. CASE /\ paginas' = [paginas EXCEPT ![p] = s]
           /\ principal' = [principal EXCEPT !.paso = "agregar", !.offset = 0,
                                             !.pagina = k, !.nueva = TRUE]
           /\ UNCHANGED <<fallo, proceso, contable>>
  <2>1. s \in Seq(TipoPagina) /\ Len(s) = k + 1
    BY <1>2, PaginaNuevaTeselada, AgregarAlFinal
  <2>2. s[k + 1] = PaginaNueva /\ \A n \in DOMAIN paginas[p] : s[n] = paginas[p][n]
    BY <1>2
  <2>3. DOMAIN s = DOMAIN paginas[p] \cup {k + 1}
    BY <1>2, <2>1
  <2> HIDE DEF s, k
  <2>4. /\ paginas' \in [Pids -> Seq(TipoPagina)] /\ paginas'[p] = s
        /\ \A q \in Pids \ {p} : paginas'[q] = paginas[q]
    BY <1>2, <1>6, <2>1
  <2>5. /\ principal' \in TipoPrincipal /\ principal'.paso = "agregar" /\ principal'.pid = p
        /\ principal'.pagina = k /\ principal'.offset = 0 /\ principal'.tam = principal.tam
    BY ONLY <1>2, <1>6 DEF TipoPrincipal, Pasos, p
  <2>6. principal'.pid \in Pids /\ proceso'[principal'.pid] = "activo"
    BY <1>2, <1>6, <2>5
  <2>7. TiposHeap'
    BY <1>1, <1>6, <2>4, <2>5, <2>6 DEF IInvHeap, TiposHeap
  <2>8. \A q \in Pids : \A n \in DOMAIN paginas'[q] :
          \/ n \in DOMAIN paginas[q] /\ paginas'[q][n] = paginas[q][n]
          \/ q = p /\ n = k + 1 /\ paginas'[q][n] = PaginaNueva
    BY <2>2, <2>3, <2>4
  <2>9. PaginasTeseladas'
    BY <2>8, PaginaNuevaTeselada DEF IInvHeap, PaginasTeseladas
  <2>10. PaginasPartidas'
    <3>1. ASSUME NEW q \in Pids, NEW n \in DOMAIN paginas'[q],
                 Siguiente(paginas'[q][n], 0) = TamPagina
          PROVE  q = p /\ n = k + 1
      BY <1>4, <2>8, <3>1
    <3>2. k = (k + 1) - 1
      BY <1>2
    <3> QED
      BY <2>5, <3>1, <3>2 DEF PaginasPartidas
  <2>11. LugarEnPagina'
    <3>1. Actual' = PaginaNueva /\ principal'.pagina + 1 \in DOMAIN paginas'[p]
      BY <2>2, <2>3, <2>4, <2>5 DEF Actual
    <3>2. TamPagina - TamMeta >= principal.tam + TamMeta
      BY <1>2 DEF Demasiado, HeapAssumption
    <3>3. /\ 0 \in Cabezas(PaginaNueva) /\ ~PaginaNueva[0].usado
          /\ PaginaNueva[0].tam >= principal.tam + TamMeta
      BY <3>2, PaginaNuevaTeselada
    <3> QED
      BY <1>2, <2>5, <3>1, <3>3 DEF LugarEnPagina, PasosEnPagina, Demasiado
  <2>12. PaginasContadas'
    <3>1. ASSUME NEW q \in Pids, proceso[q] \in Vivos, q # p
          PROVE  Len(paginas[q]) = contable[q].paginas + 0
      BY <1>1, <3>1 DEF IInvHeap, PaginasContadas
    <3>2. Len(paginas'[p]) = contable[p].paginas + 1
      BY <1>3, <2>1, <2>4
    <3> QED
      BY <1>6, <2>4, <2>5, <3>1, <3>2 DEF PaginasContadas
  <2>13. DOMAIN paginas[p] \subseteq DOMAIN paginas'[p]
         /\ \A q \in Pids : DOMAIN paginas[q] \subseteq DOMAIN paginas'[q]
    BY <2>3, <2>4
  <2>14. EntradasDeVivos'
    <3>1. lista \in Seq(TipoEntrada)
      BY DEF IInvHeap, TiposHeap
    <3> QED
      BY <1>1, <1>6, <2>13, <3>1, EnLista DEF IInvHeap, EntradasDeVivos
  <2>15. PunterosEnBloques'
    BY <1>1, <2>2, <2>4, <2>13 DEF IInvHeap, PunterosEnBloques
  <2>16. SoloMetadatas'
    BY <1>1, <1>6 DEF SoloMetadatas
  <2> QED
    BY <2>7, <2>9, <2>10, <2>11, <2>12, <2>14, <2>15, <2>16 DEF IInvHeap
<1> QED
  BY <1>3, <1>5, <1>6 DEF PedirPagina

-----------------------------------------------------------------------------
LEMMA IInvHeapInicial ==
  ASSUME Init
  PROVE  IInvHeap
<1>1. TiposHeap
  BY DEF Init, TiposHeap, TipoPagina, TipoCuenta, TipoPrincipal, TipoFin, Ocioso, FinLibre,
         Pasos, Vivos
<1>2. \A p \in Pids : DOMAIN paginas[p] = {} /\ punteros[p] = {} /\ Len(paginas[p]) = 0
  BY DEF Init
<1>3. PaginasTeseladas /\ PaginasPartidas /\ PunterosEnBloques
  BY <1>2 DEF PaginasTeseladas, PaginasPartidas, PunterosEnBloques
<1>4. LugarEnPagina /\ PaginasContadas /\ EntradasDeVivos /\ SoloMetadatas
  BY <1>2 DEF Init, Ocioso, LugarEnPagina, PasosEnPagina, PaginasContadas, EntradasDeVivos,
              SoloMetadatas
<1> QED
  BY <1>1, <1>3, <1>4 DEF IInvHeap

LEMMA IInvHeapInductivo ==
  ASSUME IInvHeap, [Next]_vars
  PROVE  IInvHeap'
<1>1. CASE UNCHANGED vars
  BY <1>1 DEF vars, IInvHeap, TiposHeap, PaginasTeseladas, PaginasPartidas, LugarEnPagina,
              Actual, SoloMetadatas, PaginasContadas, EntradasDeVivos, PunterosEnBloques
<1>2. CASE Alocar
  BY <1>2, PedirBloqueConserva, MirarListaConserva, TomarEntradaConserva, CompactarConserva,
     SumarJuntadosConserva, BuscarBloqueConserva, PedirPaginaConserva,
     AgregarEntradaConserva, DescontarConserva, PartirBloqueConserva DEF Alocar
<1>3. CASE Liberar
  BY <1>3, LiberarBloqueConserva, SumarLiberadoConserva DEF Liberar
<1>4. CASE Fin
  BY <1>4, LiberarRecursosConserva, FinConserva DEF Fin
<1> QED
  BY <1>1, <1>2, <1>3, <1>4 DEF Next

\* IInvHeap holds for pages of any size, metadata of any size, any sizes asked for, any
\* number of processes and of frames of Memoria, and whatever the order in which the main
\* thread and the thread that ends processes reach listaAdmHeap (heap.h): where the Kernel
\* reads metadata there is metadata, the blocks of a page follow one another from its start
\* to its end through every split, release and join, a new page has the number that Memoria
\* gave it, and what a program was given is a used block until it releases it.
THEOREM InvarianteHeap == Spec => []IInvHeap
<1>1. Init => IInvHeap
  BY IInvHeapInicial
<1>2. IInvHeap /\ [Next]_vars => IInvHeap'
  BY IInvHeapInductivo
<1> QED
  BY <1>1, <1>2, PTL DEF Spec

\* Whatever the mutex that is let go of in every round allows, the Kernel never takes for
\* metadata what is not: reservarBloqueHeap, compactarPaginaHeap and the search walk a page
\* that nobody took from under them.
THEOREM SiempreMetadatas == Spec => []SoloMetadatas
<1>1. IInvHeap => SoloMetadatas
  BY DEF IInvHeap
<1> QED
  BY <1>1, InvarianteHeap, PTL

-----------------------------------------------------------------------------
(* The allocator                                                           *)

\* What is asked for while a request goes on is a size that programs ask for.
TamPedido == principal.paso \notin {"libre", "liberar"} => principal.tam \in Tamanios

LEMMA TamPedidoSigue ==
  ASSUME IInvHeap, TamPedido, [Next]_vars
  PROVE  TamPedido'
<1>1. principal \in TipoPrincipal
  BY DEF IInvHeap, TiposHeap
<1>2. CASE UNCHANGED principal
  BY <1>2 DEF TamPedido
<1>3. ASSUME NEW p \in Pids, NEW tam \in Tamanios, PedirBloque(p, tam) PROVE TamPedido'
  <2>1. CASE UNCHANGED principal
    BY <1>2, <2>1
  <2>2. CASE principal' = [Ocioso EXCEPT !.paso = "mirar", !.pid = p, !.tam = tam]
    BY <2>2 DEF TamPedido, Ocioso
  <2> QED
    BY <1>3, <2>1, <2>2 DEF PedirBloque
<1>4. CASE principal' = Ocioso
  BY <1>4 DEF TamPedido, Ocioso
<1>5. ASSUME NEW p \in Pids, NEW r \in punteros[p], LiberarBloque(p, r) PROVE TamPedido'
  <2> DEFINE t == paginas[p][r.pagina + 1][r.offset - TamMeta].tam
  <2>1. principal' = [Ocioso EXCEPT !.paso = "liberar", !.pid = p, !.pagina = r.pagina,
                                    !.tam = t]
    BY <1>5 DEF LiberarBloque
  <2> HIDE DEF t
  <2> QED
    BY <2>1 DEF TamPedido, Ocioso
<1>6. CASE MirarLista
  <2>1. principal.paso = "mirar" /\ principal'.tam = principal.tam
    BY <1>1, <1>6 DEF MirarLista, En, TipoPrincipal
  <2> QED
    BY <2>1 DEF TamPedido
<1>7. CASE TomarEntrada
  <2>1. principal.paso = "tomar" /\ principal'.tam = principal.tam
    BY <1>1, <1>7 DEF TomarEntrada, En, TipoPrincipal
  <2> QED
    BY <2>1 DEF TamPedido
<1>8. CASE Compactar
  <2>1. principal.paso = "compactar" /\ principal'.tam = principal.tam
    BY <1>1, <1>8 DEF Compactar, En, TipoPrincipal
  <2> QED
    BY <2>1 DEF TamPedido
<1>9. CASE SumarJuntados
  <2>1. principal.paso = "compactar" /\ principal'.tam = principal.tam
    BY <1>1, <1>9 DEF SumarJuntados, En, TipoPrincipal
  <2> QED
    BY <2>1 DEF TamPedido
<1>10. CASE BuscarBloque
  <2>1. principal.paso = "buscar" /\ principal'.tam = principal.tam
    BY <1>1, <1>10 DEF BuscarBloque, En, TipoPrincipal
  <2> QED
    BY <2>1 DEF TamPedido
<1>11. CASE PedirPagina
  <2>1. principal.paso = "pedirPagina"
        /\ (principal' = Ocioso \/ principal'.tam = principal.tam)
    BY <1>1, <1>11 DEF PedirPagina, En, TipoPrincipal
  <2> QED
    BY <1>4, <2>1 DEF TamPedido
<1>12. CASE AgregarEntrada
  <2>1. principal.paso = "agregar" /\ principal'.tam = principal.tam
    BY <1>1, <1>12 DEF AgregarEntrada, En, TipoPrincipal
  <2> QED
    BY <2>1 DEF TamPedido
<1>13. CASE Descontar
  <2>1. principal.paso = "descontar" /\ principal'.tam = principal.tam
    BY <1>1, <1>13 DEF Descontar, En, TipoPrincipal
  <2> QED
    BY <2>1 DEF TamPedido
<1>14. CASE PartirBloque \/ SumarLiberado
  BY <1>4, <1>14 DEF PartirBloque, SumarLiberado
<1>15. CASE Fin
  BY <1>2, <1>15 DEF Fin, LiberarRecursos, TomarLista, DestruirEntrada, SoltarLista
<1>16. CASE UNCHANGED vars
  BY <1>2, <1>16 DEF vars
<1> QED
  BY <1>3, <1>5, <1>6, <1>7, <1>8, <1>9, <1>10, <1>11, <1>12, <1>13, <1>14, <1>15, <1>16
     DEF Next, Alocar, Liberar

\* What a used block reserves.
Reserva(n, h, b) == [pagina |-> n - 1, inicio |-> h + TamMeta, tam |-> b[h].tam]

LEMMA EsReserva ==
  ASSUME NEW p \in Pids, NEW x
  PROVE  x \in ReservasDe(p) <=>
           \E n \in DOMAIN paginas[p] : \E h \in Offsets :
             paginas[p][n][h].usado /\ x = Reserva(n, h, paginas[p][n])
<1>1. ASSUME x \in ReservasDe(p)
      PROVE  \E n \in DOMAIN paginas[p] : \E h \in Offsets :
               paginas[p][n][h].usado /\ x = Reserva(n, h, paginas[p][n])
  <2>1. PICK u \in UsadosDe(p) : x = Reserva(u[1], u[2], paginas[p][u[1]])
    BY <1>1 DEF ReservasDe, Reserva
  <2>2. u[1] \in DOMAIN paginas[p] /\ u[2] \in Offsets /\ paginas[p][u[1]][u[2]].usado
    BY <2>1 DEF UsadosDe
  <2> QED
    BY <2>1, <2>2
<1>2. ASSUME NEW n \in DOMAIN paginas[p], NEW h \in Offsets, paginas[p][n][h].usado,
             x = Reserva(n, h, paginas[p][n])
      PROVE  x \in ReservasDe(p)
  <2>1. <<n, h>> \in UsadosDe(p)
    BY <1>2 DEF UsadosDe
  <2>2. PICK u \in UsadosDe(p) : u[1] = n /\ u[2] = h
    BY <2>1
  <2>3. x = [pagina |-> u[1] - 1, inicio |-> u[2] + TamMeta, tam |-> paginas[p][u[1]][u[2]].tam]
    BY <1>2, <2>2 DEF Reserva
  <2> QED
    BY <2>3 DEF ReservasDe
<1> QED
  BY <1>1, <1>2

LEMMA EsReservaDespues ==
  ASSUME NEW p \in Pids, NEW x
  PROVE  x \in ReservasDe(p)' <=>
           \E n \in DOMAIN paginas'[p] : \E h \in Offsets :
             paginas'[p][n][h].usado /\ x = Reserva(n, h, paginas'[p][n])
<1>1. ASSUME x \in ReservasDe(p)'
      PROVE  \E n \in DOMAIN paginas'[p] : \E h \in Offsets :
               paginas'[p][n][h].usado /\ x = Reserva(n, h, paginas'[p][n])
  <2>1. PICK u \in UsadosDe(p)' : x = Reserva(u[1], u[2], paginas'[p][u[1]])
    BY <1>1 DEF ReservasDe, Reserva
  <2>2. u[1] \in DOMAIN paginas'[p] /\ u[2] \in Offsets /\ paginas'[p][u[1]][u[2]].usado
    BY <2>1 DEF UsadosDe
  <2> QED
    BY <2>1, <2>2
<1>2. ASSUME NEW n \in DOMAIN paginas'[p], NEW h \in Offsets, paginas'[p][n][h].usado,
             x = Reserva(n, h, paginas'[p][n])
      PROVE  x \in ReservasDe(p)'
  <2>1. <<n, h>> \in UsadosDe(p)'
    BY <1>2 DEF UsadosDe
  <2>2. PICK u \in UsadosDe(p)' : u[1] = n /\ u[2] = h
    BY <2>1
  <2>3. x = [pagina |-> u[1] - 1, inicio |-> u[2] + TamMeta, tam |-> paginas'[p][u[1]][u[2]].tam]
    BY <1>2, <2>2 DEF Reserva
  <2> QED
    BY <2>3 DEF ReservasDe
<1> QED
  BY <1>1, <1>2

\* The used blocks of p, with their sizes, stay.
MismosUsados(p) ==
  /\ \A n \in DOMAIN paginas[p] : \A h \in Offsets : paginas[p][n][h].usado =>
       n \in DOMAIN paginas'[p] /\ paginas'[p][n][h] = paginas[p][n][h]
  /\ \A n \in DOMAIN paginas'[p] : \A h \in Offsets : paginas'[p][n][h].usado =>
       n \in DOMAIN paginas[p] /\ paginas'[p][n][h] = paginas[p][n][h]

\* Steps that neither give nor take a used block reserve the same.
LEMMA MismasReservas ==
  ASSUME NEW p \in Pids, MismosUsados(p)
  PROVE  ReservasDe(p)' = ReservasDe(p)
<1> USE DEF MismosUsados
<1>1. ASSUME NEW x \in ReservasDe(p) PROVE x \in ReservasDe(p)'
  <2>1. PICK n \in DOMAIN paginas[p], h \in Offsets :
          paginas[p][n][h].usado /\ x = Reserva(n, h, paginas[p][n])
    BY <1>1, EsReserva
  <2>2. /\ n \in DOMAIN paginas'[p] /\ paginas'[p][n][h].usado
        /\ Reserva(n, h, paginas'[p][n]) = x
    BY <2>1 DEF Reserva
  <2> QED
    BY <2>2, EsReservaDespues
<1>2. ASSUME NEW x \in ReservasDe(p)' PROVE x \in ReservasDe(p)
  <2>1. PICK n \in DOMAIN paginas'[p], h \in Offsets :
          paginas'[p][n][h].usado /\ x = Reserva(n, h, paginas'[p][n])
    BY <1>2, EsReservaDespues
  <2>2. /\ n \in DOMAIN paginas[p] /\ paginas[p][n][h].usado
        /\ Reserva(n, h, paginas[p][n]) = x
    BY <2>1 DEF Reserva
  <2> QED
    BY <2>2, EsReserva
<1> QED
  BY <1>1, <1>2

\* The mapping stutters where the reservations of all and their pointers stay.
LEMMA Tartamudea ==
  ASSUME \A p \in Pids : ReservasDe(p)' = ReservasDe(p), UNCHANGED punteros
  PROVE  [Reparto!NextAsignador]_(Reparto!varsAsignador)
<1>1. Reparto!varsAsignador' = Reparto!varsAsignador
  BY DEF Reparto!varsAsignador
<1> QED
  BY <1>1

LEMMA MismasPaginasTartamudea ==
  ASSUME UNCHANGED <<paginas, punteros>>
  PROVE  [Reparto!NextAsignador]_(Reparto!varsAsignador)
<1>1. \A p \in Pids : ReservasDe(p)' = ReservasDe(p)
  BY MismasReservas DEF MismosUsados
<1> QED
  BY <1>1, Tartamudea

\* A join takes blocks that nobody has.
LEMMA CompactarUsados ==
  ASSUME IInvHeap, Compactar
  PROVE  \A q \in Pids : MismosUsados(q)
<1> DEFINE b == Actual
           h == principal.offset
           k == Siguiente(b, h)
           c == Juntar(b, h)
           p == principal.pid
           n == principal.pagina + 1
<1>1. principal.paso = "compactar" /\ QuedaOtro
  BY DEF Compactar, En
<1>2. h \in Cabezas(b) /\ k \in Cabezas(b)
  BY <1>1, HayOtro
<1>3. /\ p \in Pids /\ n \in DOMAIN paginas[p] /\ b \in TipoPagina /\ Teselada(b)
      /\ b = paginas[p][n]
  BY <1>1, EnLaPagina DEF PasosEnPagina, Actual
<1>4. CASE UNCHANGED paginas
  BY <1>4 DEF MismosUsados
<1>5. CASE Libres(b, {h, k}) /\ paginas' = [paginas EXCEPT ![p][n] = c]
  <2>1. /\ c \in TipoPagina /\ Cabezas(c) = Cabezas(b) \ {k} /\ c[h].usado = b[h].usado
        /\ \A g \in Offsets \ {h, k} : c[g] = b[g]
    BY <1>2, <1>3, JuntarTesela
  <2>2. ~b[h].usado /\ ~b[k].usado
    BY <1>5 DEF Libres
  <2>3. ~c[k].usado
    BY <1>2, <2>1 DEF Cabezas, SinMeta
  <2> HIDE DEF b, h, k, c, p, n
  <2>4. \A g \in Offsets : (b[g].usado \/ c[g].usado) => c[g] = b[g]
    BY <2>1, <2>2, <2>3
  <2>5. /\ paginas'[p][n] = c
        /\ \A q \in Pids : DOMAIN paginas'[q] = DOMAIN paginas[q]
        /\ \A q \in Pids : \A m \in DOMAIN paginas[q] :
             q # p \/ m # n => paginas'[q][m] = paginas[q][m]
    <3>1. paginas \in [Pids -> Seq(TipoPagina)]
      BY DEF IInvHeap, TiposHeap
    <3> QED
      BY ONLY <1>3, <1>5, <2>1, <3>1, UnaPagina
  <2>6. \A q \in Pids : \A m \in DOMAIN paginas[q] : \A g \in Offsets :
          paginas[q][m][g].usado \/ paginas'[q][m][g].usado =>
            paginas'[q][m][g] = paginas[q][m][g]
    <3>1. ASSUME NEW q \in Pids, NEW m \in DOMAIN paginas[q], NEW g \in Offsets,
                 paginas[q][m][g].usado \/ paginas'[q][m][g].usado
          PROVE  paginas'[q][m][g] = paginas[q][m][g]
      <4>1. CASE q = p /\ m = n
        BY <1>3, <2>4, <2>5, <3>1, <4>1
      <4>2. CASE q # p \/ m # n
        BY <2>5, <4>2
      <4> QED
        BY <4>1, <4>2
    <3> QED
      BY <3>1
  <2> QED
    BY <2>5, <2>6 DEF MismosUsados
<1> QED
  BY <1>2, <1>4, <1>5 DEF Compactar, CambiarPagina

LEMMA CompactarTartamudea ==
  ASSUME IInvHeap, Compactar
  PROVE  [Reparto!NextAsignador]_(Reparto!varsAsignador)
<1>1. UNCHANGED punteros
  BY DEF Compactar
<1> QED
  BY <1>1, CompactarUsados, MismasReservas, Tartamudea

\* A new page is free.
LEMMA PedirPaginaUsados ==
  ASSUME IInvHeap, PedirPagina
  PROVE  \A q \in Pids : MismosUsados(q)
<1> DEFINE p == principal.pid
<1>1. principal.paso = "pedirPagina"
  BY DEF PedirPagina, En
<1>2. p \in Pids /\ paginas \in [Pids -> Seq(TipoPagina)] /\ paginas[p] \in Seq(TipoPagina)
  BY <1>1 DEF IInvHeap, TiposHeap
<1>3. CASE UNCHANGED paginas
  BY <1>3 DEF MismosUsados
<1>4. CASE paginas' = [paginas EXCEPT ![p] = Append(paginas[p], PaginaNueva)]
  <2>1. /\ paginas'[p] = Append(paginas[p], PaginaNueva)
        /\ \A q \in Pids \ {p} : paginas'[q] = paginas[q]
    BY <1>2, <1>4
  <2>2. \A g \in Offsets : ~PaginaNueva[g].usado
    BY PaginaNuevaTeselada DEF Cabezas, SinMeta
  <2>3. \A q \in Pids : \A m \in DOMAIN paginas[q] :
          m \in DOMAIN paginas'[q] /\ paginas'[q][m] = paginas[q][m]
    BY <1>2, <2>1, SMTT(30)
  <2>4. \A q \in Pids : \A m \in DOMAIN paginas'[q] :
          m \in DOMAIN paginas[q] \/ paginas'[q][m] = PaginaNueva
    BY <1>2, <2>1
  <2> QED
    BY <2>2, <2>3, <2>4 DEF MismosUsados
<1> QED
  BY <1>3, <1>4 DEF PedirPagina

LEMMA PedirPaginaTartamudea ==
  ASSUME IInvHeap, PedirPagina
  PROVE  [Reparto!NextAsignador]_(Reparto!varsAsignador)
<1>1. UNCHANGED punteros
  BY DEF PedirPagina
<1> QED
  BY <1>1, PedirPaginaUsados, MismasReservas, Tartamudea

\* Memoria frees the pages of who ends: it has nothing more.
LEMMA LiberarRecursosAcaba ==
  ASSUME IInvHeap, NEW p \in Pids, LiberarRecursos(p)
  PROVE  [Reparto!NextAsignador]_(Reparto!varsAsignador)
<1>1. /\ paginas' = [paginas EXCEPT ![p] = <<>>]
      /\ punteros' = [punteros EXCEPT ![p] = {}]
  BY DEF LiberarRecursos
<1>2. paginas \in [Pids -> Seq(TipoPagina)] /\ punteros \in [Pids -> SUBSET TipoPuntero]
  BY DEF IInvHeap, TiposHeap
<1>3. paginas'[p] = <<>> /\ \A q \in Pids \ {p} : paginas'[q] = paginas[q]
  BY <1>1, <1>2
<1>4. ReservasDe(p)' = {}
  <2>1. \A n \in DOMAIN paginas'[p] : FALSE
    BY <1>3
  <2>2. \A x \in ReservasDe(p)' : FALSE
    BY <2>1, EsReservaDespues
  <2> QED
    BY <2>2
<1>5. \A q \in Pids \ {p} : ReservasDe(q)' = ReservasDe(q)
  BY <1>3, MismasReservas DEF MismosUsados
<1>6. [q \in Pids |-> ReservasDe(q)]'
        = [[q \in Pids |-> ReservasDe(q)] EXCEPT ![p] = {}]
  BY <1>4, <1>5
<1>7. Reparto!Acabar(p)
  BY <1>1, <1>6 DEF Reparto!Acabar
<1> QED
  BY <1>7 DEF Reparto!NextAsignador

\* The reservations of a page lie between its metadata.
LEMMA ReservasAparte ==
  ASSUME NEW b \in TipoPagina, Teselada(b), NEW g \in Cabezas(b), NEW h \in Cabezas(b), g # h,
         NEW n
  PROVE  Reparto!Aparte(Reserva(n, h, b), Reserva(n, g, b))
<1>1. /\ g \in Nat /\ b[g].tam \in Nat /\ h \in Nat /\ b[h].tam \in Nat
      /\ TamMeta \in Nat /\ TamMeta > 0
  BY Metadata DEF HeapAssumption
<1>2. (g < h /\ g + TamMeta + b[g].tam <= h) \/ (h < g /\ h + TamMeta + b[h].tam <= g)
  BY <1>1 DEF Teselada, Siguiente
<1>3. /\ Reparto!Extension(Reserva(n, g, b)) = g..(g + TamMeta + b[g].tam - 1)
      /\ Reparto!Extension(Reserva(n, h, b)) = h..(h + TamMeta + b[h].tam - 1)
  BY <1>1 DEF Reparto!Extension, Reserva
<1>4. (g..(g + TamMeta + b[g].tam - 1)) \cap (h..(h + TamMeta + b[h].tam - 1)) = {}
  BY <1>1, <1>2
<1> QED
  BY <1>3, <1>4 DEF Reparto!Aparte

\* A request that ends gives its program a block that meets nothing that it has.
LEMMA PartirBloqueReserva ==
  ASSUME IInvHeap, TamPedido, PartirBloque, NEW p \in Pids, p = principal.pid
  PROVE  [Reparto!NextAsignador]_(Reparto!varsAsignador)
<1> DEFINE b == Actual
           h == principal.offset
           tam == principal.tam
           c == Partir(b, h, tam)
           k == h + TamMeta + tam
           n == principal.pagina + 1
           x == Reserva(n, h, c)
<1>1. /\ principal.paso = "partir" /\ paginas' = [paginas EXCEPT ![p][n] = c]
      /\ \/ UNCHANGED punteros
         \/ punteros' = [punteros EXCEPT ![p] = @ \cup
              {[pagina |-> principal.pagina, offset |-> h + TamMeta]}]
  BY DEF PartirBloque, CambiarPagina, En
<1>2. /\ p \in Pids /\ n \in DOMAIN paginas[p] /\ b \in TipoPagina /\ Teselada(b)
      /\ h \in Nat /\ tam \in Nat /\ principal.pagina \in Nat /\ b = paginas[p][n]
  BY <1>1, EnLaPagina DEF PasosEnPagina, Actual
<1>3. h \in Cabezas(b) /\ ~b[h].usado /\ b[h].tam >= tam + TamMeta /\ h \in Offsets
  BY <1>1 DEF IInvHeap, LugarEnPagina, Cabezas
<1>4. /\ c \in TipoPagina /\ Teselada(c) /\ Cabezas(c) = Cabezas(b) \cup {k}
      /\ k \in Offsets /\ k \notin Cabezas(b)
      /\ c[h] = [usado |-> TRUE, tam |-> tam]
      /\ \A g \in Offsets \ {h, k} : c[g] = b[g]
  BY <1>2, <1>3, PartirTesela, SMTT(30)
<1>5. c[h].usado /\ c[h].tam = tam
  BY <1>4
<1>6. ~b[k].usado /\ ~c[k].usado
  <2>1. ~b[k].usado
    BY <1>4 DEF Cabezas, SinMeta
  <2>2. k # h
    BY <1>3, <1>4
  <2> DEFINE m == [usado |-> TRUE, tam |-> tam]
             l == [usado |-> FALSE, tam |-> b[h].tam - tam - TamMeta]
  <2>3. c = [[b EXCEPT ![h] = m] EXCEPT ![k] = l] /\ ~l.usado /\ DOMAIN b = Offsets
    BY <1>2 DEF Partir, TipoPagina
  <2> HIDE DEF m, l, b, h, tam, c, k
  <2>4. ~c[k].usado
    BY <1>4, <2>2, <2>3
  <2> QED
    BY <2>1, <2>4
<1>7. tam \in Tamanios
  BY <1>1 DEF TamPedido
<1>8. /\ principal.pagina = n - 1 /\ TamMeta \in Nat /\ TamPagina \in Nat
      /\ k = h + TamMeta + tam
  BY <1>2 DEF HeapAssumption
<1> HIDE DEF b, h, tam, c, k, n
<1>9. x = [pagina |-> n - 1, inicio |-> h + TamMeta, tam |-> tam]
  BY <1>5 DEF Reserva
<1>10. /\ paginas'[p][n] = c
       /\ \A q \in Pids : DOMAIN paginas'[q] = DOMAIN paginas[q]
       /\ \A q \in Pids : \A m \in DOMAIN paginas[q] :
            q # p \/ m # n => paginas'[q][m] = paginas[q][m]
  <2>1. paginas \in [Pids -> Seq(TipoPagina)]
    BY DEF IInvHeap, TiposHeap
  <2> QED
    BY ONLY <1>1, <1>2, <1>4, <2>1, UnaPagina
<1>11. \A q \in Pids \ {p} : ReservasDe(q)' = ReservasDe(q)
  BY <1>10, MismasReservas DEF MismosUsados
<1>12. \A y \in ReservasDe(p) : y # x /\ y \in ReservasDe(p)' /\ Reparto!Aparte(x, y)
  <2>1. ASSUME NEW y \in ReservasDe(p)
        PROVE  y # x /\ y \in ReservasDe(p)' /\ Reparto!Aparte(x, y)
    <3>1. PICK m \in DOMAIN paginas[p], g \in Offsets :
            paginas[p][m][g].usado /\ y = Reserva(m, g, paginas[p][m])
      BY <1>2, EsReserva
    <3>2. m \in Nat /\ n \in Nat
      BY <1>2 DEF IInvHeap, TiposHeap
    <3>3. CASE m = n
      <4>1. g # h /\ g # k /\ c[g] = b[g] /\ c[g].usado
        BY <1>2, <1>3, <1>4, <1>6, <3>1, <3>3
      <4>2. g \in Cabezas(c) /\ h \in Cabezas(c)
        BY <1>3, <1>4, <4>1 DEF Cabezas, SinMeta
      <4>3. y = Reserva(n, g, c)
        BY <1>2, <3>1, <3>3, <4>1 DEF Reserva
      <4>4. y \in ReservasDe(p)'
        BY <1>2, <1>10, <3>1, <3>3, <4>1, <4>3, EsReservaDespues
      <4>5. y.inicio = g + TamMeta /\ x.inicio = h + TamMeta
        BY <4>3 DEF Reserva
      <4>6. y # x
        BY <1>2, <1>8, <4>1, <4>5 DEF Offsets
      <4>7. Reparto!Aparte(x, y)
        BY <1>4, <4>1, <4>2, <4>3, ReservasAparte
      <4> QED
        BY <4>4, <4>6, <4>7
    <3>4. CASE m # n
      <4>1. paginas'[p][m] = paginas[p][m] /\ m \in DOMAIN paginas'[p]
        BY <1>2, <1>10, <3>4
      <4>2. y \in ReservasDe(p)'
        BY <1>2, <3>1, <4>1, EsReservaDespues
      <4>3. y.pagina # x.pagina
        BY <3>1, <3>2, <3>4 DEF Reserva
      <4> QED
        BY <4>2, <4>3 DEF Reparto!Aparte
    <3> QED
      BY <3>3, <3>4
  <2> QED
    BY <2>1
<1>13. x \in ReservasDe(p)'
  BY <1>2, <1>3, <1>5, <1>10, EsReservaDespues
<1>14. \A y \in ReservasDe(p)' : y = x \/ y \in ReservasDe(p)
  <2>1. ASSUME NEW y \in ReservasDe(p)', y # x PROVE y \in ReservasDe(p)
    <3>1. PICK m \in DOMAIN paginas'[p], g \in Offsets :
            paginas'[p][m][g].usado /\ y = Reserva(m, g, paginas'[p][m])
      BY <1>2, EsReservaDespues
    <3>2. m \in DOMAIN paginas[p]
      BY <1>2, <1>10
    <3>3. CASE m = n
      <4>1. c[g].usado /\ y = Reserva(n, g, c)
        BY <1>10, <3>1, <3>3
      <4>2. g # h /\ g # k
        BY <1>6, <2>1, <4>1
      <4>3. b[g] = c[g]
        BY <1>4, <4>2
      <4> QED
        BY <1>2, <3>2, <3>3, <4>1, <4>3, EsReserva DEF Reserva
    <3>4. CASE m # n
      BY <1>2, <1>10, <3>1, <3>2, <3>4, EsReserva
    <3> QED
      BY <3>3, <3>4
  <2> QED
    BY <2>1
<1>15. ReservasDe(p)' = ReservasDe(p) \cup {x}
  BY <1>12, <1>13, <1>14
<1>16. [q \in Pids |-> ReservasDe(q)]'
         = [[q \in Pids |-> ReservasDe(q)] EXCEPT ![p] = @ \cup {x}]
  BY <1>2, <1>11, <1>15
<1>17. Reparto!Extension(x) \subseteq 0..(TamPagina - 1)
  <2>1. x.inicio = h + TamMeta /\ x.tam = tam
    BY <1>9
  <2>2. x.inicio - TamMeta = h /\ x.inicio + x.tam - 1 = k - 1
    BY ONLY <1>2, <1>8, <2>1
  <2>3. k < TamPagina /\ k \in Nat
    BY <1>2, <1>4, <1>8 DEF Offsets
  <2>4. h..(k - 1) \subseteq 0..(TamPagina - 1)
    BY ONLY <1>2, <1>8, <2>3
  <2> QED
    BY <2>2, <2>4 DEF Reparto!Extension
<1>18. Reparto!Puntero(x) = [pagina |-> principal.pagina, offset |-> h + TamMeta]
  BY <1>8, <1>9 DEF Reparto!Puntero
<1>19. x.tam \in Tamanios
  BY <1>7, <1>9
<1>20. x \in ReservasDe(p)' \ ReservasDe(p)
  BY <1>12, <1>13
<1> HIDE DEF x
<1>21. Reparto!Reservar(p)
  BY <1>1, <1>2, <1>12, <1>16, <1>17, <1>18, <1>19, <1>20 DEF Reparto!Reservar
<1> QED
  BY <1>2, <1>21 DEF Reparto!NextAsignador

\* A release takes the block that the pointer is to, and no other.
LEMMA LiberarBloqueLibera ==
  ASSUME IInvHeap, NEW p \in Pids, NEW r \in punteros[p], LiberarBloque(p, r)
  PROVE  [Reparto!NextAsignador]_(Reparto!varsAsignador)
<1> DEFINE n == r.pagina + 1
           h == r.offset - TamMeta
           b == paginas[p][n]
           c == [b EXCEPT ![h].usado = FALSE]
           x == Reserva(n, h, b)
<1>1. /\ punteros' = [punteros EXCEPT ![p] = @ \ {r}]
      /\ paginas' = [paginas EXCEPT ![p][n] = c]
  BY DEF LiberarBloque
<1>2. /\ r \in TipoPuntero /\ r.pagina \in Nat /\ r.offset \in Nat /\ n \in DOMAIN paginas[p]
      /\ b \in TipoPagina /\ Teselada(b) /\ h \in Cabezas(b) /\ b[h].usado
  BY PunteroEnPagina
<1>3. c \in TipoPagina /\ \A g \in Offsets \ {h} : c[g] = b[g]
  BY <1>2, MismasCabezas
<1>4. h \in Offsets /\ ~c[h].usado
  <2>1. h \in Offsets /\ b \in [Offsets -> TipoBloque] /\ b[h] \in [usado : BOOLEAN, tam : Nat]
    BY <1>2, Metadata DEF Cabezas, TipoPagina
  <2> QED
    BY <2>1
<1>5. r.pagina = n - 1 /\ r.offset = h + TamMeta /\ n \in Nat /\ h \in Nat /\ TamMeta \in Nat
  BY <1>2, <1>4 DEF HeapAssumption, Offsets
<1> HIDE DEF n, h, b, c
<1>6. /\ paginas'[p][n] = c
      /\ \A q \in Pids : DOMAIN paginas'[q] = DOMAIN paginas[q]
      /\ \A q \in Pids : \A m \in DOMAIN paginas[q] :
           q # p \/ m # n => paginas'[q][m] = paginas[q][m]
  <2>1. paginas \in [Pids -> Seq(TipoPagina)]
    BY DEF IInvHeap, TiposHeap
  <2> QED
    BY ONLY <1>1, <1>2, <1>3, <2>1, UnaPagina
<1>7. \A q \in Pids \ {p} : ReservasDe(q)' = ReservasDe(q)
  BY <1>6, MismasReservas DEF MismosUsados
<1>8. x \in ReservasDe(p)
  BY <1>2, <1>4, EsReserva DEF b
<1>9. \A y \in ReservasDe(p) : y = x \/ y \in ReservasDe(p)'
  <2>1. ASSUME NEW y \in ReservasDe(p), y # x PROVE y \in ReservasDe(p)'
    <3>1. PICK m \in DOMAIN paginas[p], g \in Offsets :
            paginas[p][m][g].usado /\ y = Reserva(m, g, paginas[p][m])
      BY EsReserva
    <3>2. CASE m = n
      <4>1. g # h
        BY <2>1, <3>1, <3>2 DEF b
      <4>2. c[g] = paginas[p][n][g]
        BY <1>3, <4>1 DEF b
      <4> QED
        BY <1>6, <3>1, <3>2, <4>2, EsReservaDespues DEF Reserva
    <3>3. CASE m # n
      BY <1>6, <3>1, <3>3, EsReservaDespues
    <3> QED
      BY <3>2, <3>3
  <2> QED
    BY <2>1
<1>10. \A y \in ReservasDe(p)' : y # x /\ y \in ReservasDe(p)
  <2>1. ASSUME NEW y \in ReservasDe(p)' PROVE y # x /\ y \in ReservasDe(p)
    <3>1. PICK m \in DOMAIN paginas'[p], g \in Offsets :
            paginas'[p][m][g].usado /\ y = Reserva(m, g, paginas'[p][m])
      BY EsReservaDespues
    <3>2. m \in DOMAIN paginas[p] /\ m \in Nat
      BY <1>6 DEF IInvHeap, TiposHeap
    <3>3. y.pagina = m - 1 /\ y.inicio = g + TamMeta
          /\ x.pagina = n - 1 /\ x.inicio = h + TamMeta
      BY <3>1 DEF Reserva
    <3>4. CASE m = n
      <4>1. c[g].usado /\ g # h
        BY <1>4, <1>6, <3>1, <3>4
      <4>2. c[g] = paginas[p][n][g]
        BY <1>3, <4>1 DEF b
      <4>3. y \in ReservasDe(p)
        BY <1>6, <3>1, <3>2, <3>4, <4>1, <4>2, EsReserva DEF Reserva
      <4>4. g \in Nat
        BY DEF Offsets
      <4>5. y # x
        BY <1>5, <3>3, <4>1, <4>4
      <4> QED
        BY <4>3, <4>5
    <3>5. CASE m # n
      <4>1. y \in ReservasDe(p)
        BY <1>6, <3>1, <3>2, <3>5, EsReserva
      <4>2. y # x
        BY <1>5, <3>2, <3>3, <3>5
      <4> QED
        BY <4>1, <4>2
    <3> QED
      BY <3>4, <3>5
  <2> QED
    BY <2>1
<1>11. ReservasDe(p)' = ReservasDe(p) \ {x}
  BY <1>9, <1>10
<1>12. [q \in Pids |-> ReservasDe(q)]'
         = [[q \in Pids |-> ReservasDe(q)] EXCEPT ![p] = @ \ {x}]
  BY <1>7, <1>11
<1>13. Reparto!Puntero(x) = r
  <2>1. r = [pagina |-> r.pagina, offset |-> r.offset]
    BY <1>2 DEF TipoPuntero
  <2> QED
    BY <1>5, <2>1 DEF Reparto!Puntero, Reserva
<1> HIDE DEF x
<1>14. Reparto!Liberar(p)
  BY <1>1, <1>8, <1>12, <1>13 DEF Reparto!Liberar
<1> QED
  BY <1>14 DEF Reparto!NextAsignador

LEMMA PasoDelAsignador ==
  ASSUME IInvHeap, TamPedido, [Next]_vars
  PROVE  [Reparto!NextAsignador]_(Reparto!varsAsignador)
<1>1. CASE UNCHANGED vars
  BY <1>1, MismasPaginasTartamudea DEF vars
<1>2. CASE Alocar
  <2>1. CASE Compactar \/ PedirPagina
    BY <2>1, CompactarTartamudea, PedirPaginaTartamudea
  <2>2. CASE PartirBloque
    <3>1. principal.pid \in Pids
      BY <2>2 DEF PartirBloque, En, IInvHeap, TiposHeap
    <3> QED
      BY <2>2, <3>1, PartirBloqueReserva
  <2>3. CASE \E p \in Pids, tam \in Tamanios : PedirBloque(p, tam)
    BY <2>3, MismasPaginasTartamudea DEF PedirBloque
  <2>4. CASE MirarLista \/ TomarEntrada \/ SumarJuntados
    BY <2>4, MismasPaginasTartamudea DEF MirarLista, TomarEntrada, SumarJuntados
  <2>5. CASE BuscarBloque \/ AgregarEntrada \/ Descontar
    BY <2>5, MismasPaginasTartamudea DEF BuscarBloque, AgregarEntrada, Descontar
  <2> QED
    BY <1>2, <2>1, <2>2, <2>3, <2>4, <2>5 DEF Alocar
<1>3. CASE Liberar
  BY <1>3, LiberarBloqueLibera, MismasPaginasTartamudea DEF Liberar, SumarLiberado
<1>4. CASE Fin
  BY <1>4, LiberarRecursosAcaba, MismasPaginasTartamudea
     DEF Fin, TomarLista, DestruirEntrada, SoltarLista
<1> QED
  BY <1>1, <1>2, <1>3, <1>4 DEF Next

\* The heap implements Asignador for pages, metadata, sizes and processes of any number: what
\* gestionarAlocar gives to a program meets nothing that it, or the metadata of another
\* block, has, and stays until it releases it or ends, however compactarPaginaHeap and
\* reservarBloqueHeap (heap.h) join and split the blocks around.
THEOREM HeapImplementaAsignador == Spec => ImplementaAsignador
<1>1. Init => Reparto!InitAsignador
  <2>1. ASSUME Init PROVE Reparto!InitAsignador
    <3>1. \A p \in Pids : DOMAIN paginas[p] = {}
      BY <2>1 DEF Init
    <3>2. \A p \in Pids : ReservasDe(p) = {}
      <4>1. ASSUME NEW p \in Pids, NEW x \in ReservasDe(p) PROVE FALSE
        BY <3>1, <4>1, EsReserva
      <4> QED
        BY <4>1
    <3> QED
      BY <2>1, <3>2 DEF Init, Reparto!InitAsignador
  <2> QED
    BY <2>1
<1>2. Init => TamPedido
  BY DEF Init, TamPedido, Ocioso
<1>3. IInvHeap /\ TamPedido /\ [Next]_vars => TamPedido'
  BY TamPedidoSigue
<1>4. IInvHeap /\ TamPedido /\ [Next]_vars => [Reparto!NextAsignador]_(Reparto!varsAsignador)
  BY PasoDelAsignador
<1> QED
  BY <1>1, <1>2, <1>3, <1>4, InvarianteHeap, PTL
     DEF Spec, ImplementaAsignador, Reparto!SpecAsignador

-----------------------------------------------------------------------------
(* What a compaction leaves                                                *)

\* Up to where the compaction is, no two free blocks lie together.
CompactadaHasta ==
  principal.paso = "compactar" =>
    \A h, k \in Cabezas(Actual) :
      Siguiente(Actual, h) = k /\ Libres(Actual, {h, k}) => k > principal.offset

\* What neither goes on with a compaction nor with a search says nothing of the page.
LEMMA FueraDePagina ==
  ASSUME principal'.paso \notin {"compactar", "buscar"}
  PROVE  CompactadaHasta' /\ Compactada'
BY DEF CompactadaHasta, Compactada

\* A round joins the two blocks, or goes on to the second, that are not both free.
LEMMA CompactarAvanza ==
  ASSUME IInvHeap, CompactadaHasta, Compactar
  PROVE  CompactadaHasta' /\ Compactada'
<1> DEFINE b == Actual
           h == principal.offset
           k == Siguiente(b, h)
           c == Juntar(b, h)
           p == principal.pid
           n == principal.pagina + 1
<1>1. principal.paso = "compactar" /\ QuedaOtro
  BY DEF Compactar, En
<1>2. h \in Cabezas(b) /\ k \in Cabezas(b)
  BY <1>1, HayOtro
<1>3. /\ principal \in TipoPrincipal /\ p \in Pids /\ n \in DOMAIN paginas[p]
      /\ b \in TipoPagina /\ Teselada(b) /\ h \in Nat /\ b = paginas[p][n]
  BY <1>1, EnLaPagina DEF PasosEnPagina, Actual
<1>4. k \in Nat /\ h < k
  BY <1>2, <1>3, Metadata
<1>5. \A g, l \in Cabezas(b) : Siguiente(b, g) = l /\ Libres(b, {g, l}) => l > h
  BY <1>1 DEF CompactadaHasta
<1>6. CASE Libres(b, {h, k})
  <2>1. /\ paginas' = [paginas EXCEPT ![p][n] = c]
        /\ principal' = [principal EXCEPT !.previo = c[h].tam, !.juntados = @ + TamMeta]
    BY <1>2, <1>6 DEF Compactar, CambiarPagina
  <2>2. /\ c \in TipoPagina /\ Teselada(c) /\ Cabezas(c) = Cabezas(b) \ {k}
        /\ c[h].usado = b[h].usado /\ \A g \in Offsets \ {h, k} : c[g] = b[g]
    BY <1>2, <1>3, JuntarTesela
  <2> HIDE DEF b, h, k, c, p, n
  <2>3. /\ principal'.paso = "compactar" /\ principal'.pid = p
        /\ principal'.pagina = principal.pagina /\ principal'.offset = h
    BY <1>1, <1>3, <2>1 DEF TipoPrincipal, p, h
  <2>4. paginas'[p][n] = c
    <3>1. paginas \in [Pids -> Seq(TipoPagina)]
      BY DEF IInvHeap, TiposHeap
    <3> QED
      BY ONLY <1>3, <2>1, <2>2, <3>1, UnaPagina
  <2>5. Actual' = c
    BY <2>3, <2>4 DEF Actual, n
  <2>6. ASSUME NEW g \in Cabezas(c), NEW l \in Cabezas(c), Siguiente(c, g) = l,
               Libres(c, {g, l})
        PROVE  l > h
    <3>1. g \in Cabezas(b) /\ l \in Cabezas(b) /\ g # k /\ l # k
      BY <2>2
    <3>2. g \in Nat /\ l \in Nat /\ g < l
      BY <2>2, <2>6, Metadata
    <3>3. CASE g = h
      BY <3>2, <3>3
    <3>4. CASE g # h
      <4>1. c[g] = b[g] /\ (l # h => c[l] = b[l])
        BY <2>2, <3>1, <3>4 DEF Cabezas
      <4>2. Siguiente(b, g) = l /\ Libres(b, {g, l})
        BY <2>2, <2>6, <4>1 DEF Siguiente, Libres
      <4> QED
        BY <1>5, <3>1, <4>2
    <3> QED
      BY <3>3, <3>4
  <2> QED
    BY <2>3, <2>5, <2>6 DEF CompactadaHasta, Compactada
<1>7. CASE ~Libres(b, {h, k})
  <2>1. /\ UNCHANGED paginas
        /\ principal' = [principal EXCEPT !.offset = k, !.previo = b[k].tam]
    BY <1>2, <1>7 DEF Compactar
  <2>2. /\ principal'.paso = "compactar" /\ principal'.pid = p
        /\ principal'.pagina = principal.pagina /\ principal'.offset = k
    BY <1>1, <1>3, <2>1 DEF TipoPrincipal
  <2>3. Actual' = b
    BY <2>1, <2>2 DEF Actual
  <2>4. ASSUME NEW g \in Cabezas(b), NEW l \in Cabezas(b), Siguiente(b, g) = l,
               Libres(b, {g, l})
        PROVE  l > k
    <3>1. l > h /\ g \in Nat /\ l \in Nat /\ g < l
      BY <1>3, <1>5, <2>4, Metadata
    <3>2. g # h
      BY <1>7, <2>4
    <3>3. ~(g < h)
      BY <1>2, <1>3, <2>4, <3>1 DEF Teselada
    <3>4. h < g
      BY <1>3, <3>1, <3>2, <3>3
    <3>5. k <= g
      BY <1>2, <1>3, <3>4 DEF Teselada
    <3> QED
      BY <1>4, <3>1, <3>5
  <2> QED
    BY <2>2, <2>3, <2>4 DEF CompactadaHasta, Compactada
<1> QED
  BY <1>6, <1>7

\* The loop ends at the last block, or at the one before an empty one at the very end.
LEMMA SumarJuntadosAcaba ==
  ASSUME IInvHeap, CompactadaHasta, SumarJuntados
  PROVE  CompactadaHasta' /\ Compactada'
<1> DEFINE b == Actual
           h == principal.offset
<1>1. /\ principal.paso = "compactar" /\ ~QuedaOtro /\ UNCHANGED paginas
      /\ principal' = [principal EXCEPT !.paso = "buscar", !.offset = 0, !.previo = 0,
                                        !.juntados = 0]
  BY DEF SumarJuntados, En
<1>2. /\ principal \in TipoPrincipal /\ b \in TipoPagina /\ Teselada(b) /\ h \in Nat
      /\ principal.previo \in Nat
  BY <1>1, EnLaPagina DEF PasosEnPagina
<1>3. h \in Cabezas(b) /\ (principal.previo = b[h].tam \/ (h = 0 /\ principal.previo = 0))
  BY <1>1 DEF IInvHeap, LugarEnPagina
<1>4. TamPagina \in Nat /\ TamMeta \in Nat /\ TamMeta > 0 /\ TamPagina > 2 * TamMeta
  BY DEF HeapAssumption
<1>5. h + TamMeta + principal.previo >= TamPagina - TamMeta
  BY <1>1, <1>2, <1>4 DEF QuedaOtro
<1>6. principal.previo = b[h].tam
  BY <1>2, <1>3, <1>4, <1>5
<1>7. Siguiente(b, h) >= TamPagina - TamMeta
  BY <1>5, <1>6 DEF Siguiente
<1>8. principal'.paso = "buscar" /\ Actual' = b
  BY <1>1, <1>2 DEF Actual, TipoPrincipal
<1>9. ASSUME NEW g \in Cabezas(b), NEW l \in Cabezas(b), Siguiente(b, g) = l, Libres(b, {g, l})
      PROVE  l = TamPagina - TamMeta
  <2>1. l > h
    BY <1>1, <1>9 DEF CompactadaHasta
  <2>2. /\ l \in Nat /\ b[l].tam \in Nat /\ Siguiente(b, h) \in Nat
        /\ Siguiente(b, l) = l + TamMeta + b[l].tam
    BY <1>2, <1>3, Metadata DEF Siguiente
  <2>3. Siguiente(b, h) <= l
    BY <1>2, <1>3, <2>1 DEF Teselada
  <2>4. Siguiente(b, l) <= TamPagina
    BY <1>2, DentroDePagina
  <2> QED
    BY ONLY <1>4, <1>7, <2>2, <2>3, <2>4
<1> QED
  BY <1>8, <1>9 DEF CompactadaHasta, Compactada

LEMMA CompactadaInductiva ==
  ASSUME IInvHeap, CompactadaHasta, Compactada, [Next]_vars
  PROVE  CompactadaHasta' /\ Compactada'
<1>1. principal \in TipoPrincipal
  BY DEF IInvHeap, TiposHeap
<1>2. ASSUME UNCHANGED <<paginas, principal>>
      PROVE  CompactadaHasta' /\ Compactada'
  BY <1>2 DEF CompactadaHasta, Compactada, Actual
<1>3. CASE \E p \in Pids, tam \in Tamanios : PedirBloque(p, tam)
  <2>1. UNCHANGED <<paginas, principal>> \/ principal'.paso = "mirar"
    BY <1>3 DEF PedirBloque, Ocioso
  <2> QED
    BY <1>2, <2>1, FueraDePagina
<1>4. CASE MirarLista
  <2>1. principal'.paso \in {"tomar", "pedirPagina"}
    BY <1>1, <1>4 DEF MirarLista, TipoPrincipal
  <2> QED
    BY <2>1, FueraDePagina
<1>5. CASE TomarEntrada
  <2>1. \/ UNCHANGED <<paginas, principal>>
        \/ principal'.paso = "mirar"
        \/ principal'.paso = "compactar" /\ principal'.offset = 0
    BY <1>1, <1>5 DEF TomarEntrada, TipoPrincipal
  <2>2. ASSUME principal'.paso = "compactar", principal'.offset = 0
        PROVE  CompactadaHasta' /\ Compactada'
    <3>1. IInvHeap'
      BY <1>5, TomarEntradaConserva
    <3>2. Actual' \in TipoPagina
      <4>1. /\ principal'.pid \in Pids /\ paginas'[principal'.pid] \in Seq(TipoPagina)
            /\ principal'.pagina + 1 \in DOMAIN paginas'[principal'.pid]
        BY <2>2, <3>1 DEF IInvHeap, TiposHeap, LugarEnPagina, PasosEnPagina
      <4>2. principal'.pagina + 1 \in 1..Len(paginas'[principal'.pid])
        BY <4>1
      <4>3. paginas'[principal'.pid][principal'.pagina + 1] \in TipoPagina
        BY ONLY <4>1, <4>2, ElementOfSeq
      <4> QED
        BY <4>3 DEF Actual
    <3> QED
      BY <2>2, <3>2, Metadata DEF CompactadaHasta, Compactada
  <2> QED
    BY <1>2, <2>1, <2>2, FueraDePagina
<1>6. CASE Compactar
  BY <1>6, CompactarAvanza
<1>7. CASE SumarJuntados
  BY <1>7, SumarJuntadosAcaba
<1>8. CASE BuscarBloque
  <2>1. UNCHANGED paginas /\ principal.paso = "buscar"
    BY <1>8 DEF BuscarBloque, En
  <2>2. \/ principal'.paso \in {"mirar", "descontar"}
        \/ /\ principal'.paso = "buscar" /\ principal'.pid = principal.pid
           /\ principal'.pagina = principal.pagina
    BY <1>1, <1>8, <2>1 DEF BuscarBloque, TipoPrincipal
  <2>3. ASSUME principal'.paso = "buscar", principal'.pid = principal.pid,
               principal'.pagina = principal.pagina
        PROVE  CompactadaHasta' /\ Compactada'
    BY <2>1, <2>3 DEF CompactadaHasta, Compactada, Actual
  <2> QED
    BY <2>2, <2>3, FueraDePagina
<1>9. CASE PedirPagina
  <2>1. UNCHANGED <<paginas, principal>> \/ principal'.paso \in {"libre", "agregar"}
    <3>1. \/ principal' = Ocioso
          \/ principal' = [principal EXCEPT !.paso = "agregar", !.offset = 0,
                              !.pagina = contable[principal.pid].paginas, !.nueva = TRUE]
          \/ UNCHANGED <<paginas, principal>>
      BY <1>9 DEF PedirPagina
    <3>2. Ocioso.paso = "libre"
      BY DEF Ocioso
    <3>3. CASE principal' = [principal EXCEPT !.paso = "agregar", !.offset = 0,
                               !.pagina = contable[principal.pid].paginas, !.nueva = TRUE]
      BY <1>1, <3>3 DEF TipoPrincipal
    <3> QED
      BY <3>1, <3>2, <3>3
  <2> QED
    BY <1>2, <2>1, FueraDePagina
<1>10. CASE AgregarEntrada \/ Descontar
  <2>1. principal'.paso \in {"descontar", "partir"}
    BY <1>1, <1>10 DEF AgregarEntrada, Descontar, TipoPrincipal
  <2> QED
    BY <2>1, FueraDePagina
<1>11. CASE PartirBloque \/ SumarLiberado
  <2>1. principal'.paso = "libre"
    <3>1. principal' = Ocioso
      BY <1>11 DEF PartirBloque, SumarLiberado
    <3> QED
      BY <3>1 DEF Ocioso
  <2> QED
    BY <2>1, FueraDePagina
<1>12. CASE \E p \in Pids : \E r \in punteros[p] : LiberarBloque(p, r)
  <2>1. principal'.paso = "liberar"
    BY <1>12 DEF LiberarBloque, Ocioso
  <2> QED
    BY <2>1, FueraDePagina
<1>13. CASE Fin
  <2>1. CASE \E p \in Pids : LiberarRecursos(p)
    <3>1. principal' = principal /\ principal.paso \notin ConMutexMemoria
      BY <2>1 DEF LiberarRecursos
    <3> QED
      BY <3>1, FueraDePagina DEF ConMutexMemoria
  <2>2. CASE TomarLista \/ DestruirEntrada \/ SoltarLista
    BY <1>2, <2>2 DEF TomarLista, DestruirEntrada, SoltarLista
  <2> QED
    BY <1>13, <2>1, <2>2 DEF Fin
<1>14. CASE UNCHANGED vars
  BY <1>2, <1>14 DEF vars
<1> QED
  BY <1>3, <1>4, <1>5, <1>6, <1>7, <1>8, <1>9, <1>10, <1>11, <1>12, <1>13, <1>14
     DEF Next, Alocar, Liberar

\* compactarPaginaHeap (heap.h) leaves no two free blocks together in the page that
\* paginaHeapBloqueSuficiente then looks at, whatever blocks it had, but for an empty one at
\* its very end; the search finds it so, however many rounds it takes.
THEOREM CompactacionCompleta == Spec => []Compactada
<1>1. Init => CompactadaHasta /\ Compactada
  BY DEF Init, Ocioso, CompactadaHasta, Compactada
<1>2. IInvHeap /\ CompactadaHasta /\ Compactada /\ [Next]_vars => CompactadaHasta' /\ Compactada'
  BY CompactadaInductiva
<1> QED
  BY <1>1, <1>2, InvarianteHeap, PTL DEF Spec

-----------------------------------------------------------------------------
(* The accounts of a process                                               *)

\* What the accounts of p say, with the bytes as a sum over its used blocks.
TamUsado(p) == [u \in UsadosDe(p) |-> paginas[p][u[1]][u[2]].tam]
CuentaDe(p) ==
  /\ contable[p].bloques = Cardinality(UsadosDe(p))
  /\ contable[p].bytes = SumFunctionOnSet(TamUsado(p), UsadosDe(p))

\* ... and with a request of tam bytes more, that was refused.
CuentaDeMas(p, tam) ==
  /\ contable[p].bloques = Cardinality(UsadosDe(p)) + 1
  /\ contable[p].bytes = SumFunctionOnSet(TamUsado(p), UsadosDe(p)) + tam

CuentaEnRegla(p) ==
  /\ proceso[p] \in {"activo", "saliendo"} => CuentaDe(p)
  /\ proceso[p] = "rechazado" => \E tam \in 0..(TamPagina - 2 * TamMeta) : CuentaDeMas(p, tam)

LEMMA CuentaPorBloques ==
  CuentaExacta <=> \A p \in Pids : CuentaEnRegla(p)
<1>1. \A p \in Pids : BytesDe(p) = SumFunctionOnSet(TamUsado(p), UsadosDe(p))
  BY DEF BytesDe, Suma, FoldFunction, SumFunctionOnSet, FoldFunctionOnSet, MapThenFoldSet, TamUsado
<1> QED
  BY <1>1 DEF CuentaExacta, CuentaEnRegla, CuentaDe, CuentaDeMas

LEMMA UsadosFinitos ==
  ASSUME TiposHeap, NEW p \in Pids
  PROVE  /\ IsFiniteSet(UsadosDe(p)) /\ Cardinality(UsadosDe(p)) \in Nat
         /\ \A u \in UsadosDe(p) : TamUsado(p)[u] \in Int
<1>1. paginas[p] \in Seq(TipoPagina)
  BY DEF TiposHeap
<1>2. DOMAIN paginas[p] = 1..Len(paginas[p]) /\ Len(paginas[p]) \in Nat
  BY <1>1
<1>3. /\ 0 \in Int /\ 1 \in Int /\ Len(paginas[p]) \in Int
      /\ TamPagina - 1 \in Int
  BY <1>2 DEF HeapAssumption
<1>4. IsFiniteSet(1..Len(paginas[p])) /\ IsFiniteSet(0..(TamPagina - 1))
  BY <1>3, FS_Interval
<1>5. IsFiniteSet((DOMAIN paginas[p]) \X Offsets)
  BY <1>2, <1>4, FS_Product DEF Offsets
<1>6. UsadosDe(p) \in SUBSET ((DOMAIN paginas[p]) \X Offsets)
  BY DEF UsadosDe
<1>7. IsFiniteSet(UsadosDe(p))
  BY <1>5, <1>6, FS_Subset
<1>8. ASSUME NEW u \in UsadosDe(p) PROVE TamUsado(p)[u] \in Int
  <2>1. u[1] \in 1..Len(paginas[p]) /\ u[2] \in Offsets /\ paginas[p][u[1]][u[2]].usado
    BY <1>2 DEF UsadosDe
  <2>2. paginas[p][u[1]] \in TipoPagina
    BY ONLY <1>1, <2>1, ElementOfSeq
  <2>3. u[2] \in Cabezas(paginas[p][u[1]])
    BY <2>1 DEF Cabezas, SinMeta
  <2>4. paginas[p][u[1]][u[2]].tam \in Nat
    BY <2>2, <2>3, Metadata
  <2> QED
    BY <2>4 DEF TamUsado
<1> QED
  BY <1>7, <1>8, FS_CardinalityType

LEMMA CuentaPorBloquesDespues ==
  CuentaExacta' <=> \A p \in Pids : CuentaEnRegla(p)'
<1>1. \A p \in Pids : BytesDe(p)' = SumFunctionOnSet(TamUsado(p)', UsadosDe(p)')
  BY DEF BytesDe, Suma, FoldFunction, SumFunctionOnSet, FoldFunctionOnSet, MapThenFoldSet, TamUsado
<1> QED
  BY <1>1 DEF CuentaExacta, CuentaEnRegla, CuentaDe, CuentaDeMas

\* The used blocks of p stay, with their sizes, but for the one at h in page n.
OtrosUsados(p, n, h) ==
  /\ DOMAIN paginas'[p] = DOMAIN paginas[p]
  /\ \A m \in DOMAIN paginas[p] : \A g \in Offsets :
       m # n \/ g # h =>
         (paginas[p][m][g].usado \/ paginas'[p][m][g].usado =>
            paginas'[p][m][g] = paginas[p][m][g])

\* Used blocks that stay.
LEMMA UsadosSiguen ==
  ASSUME TiposHeap, NEW p \in Pids, MismosUsados(p)
  PROVE  /\ UsadosDe(p)' = UsadosDe(p)
         /\ SumFunctionOnSet(TamUsado(p)', UsadosDe(p)') = SumFunctionOnSet(TamUsado(p), UsadosDe(p))
<1> DEFINE D == UsadosDe(p)
           f == TamUsado(p)
           g == TamUsado(p)'
<1>1. UsadosDe(p)' = D
  BY DEF UsadosDe, MismosUsados
<1>2. IsFiniteSet(D) /\ \A u \in D : f[u] \in Int
  BY UsadosFinitos
<1>3. \A u \in D : g[u] = f[u]
  BY <1>1 DEF TamUsado, UsadosDe, MismosUsados
<1>4. SumFunctionOnSet(f, D) = SumFunctionOnSet(g, D)
  <2> HIDE DEF D, f, g
  <2> QED
    BY <1>2, <1>3, SumaMismos
<1> QED
  BY <1>1, <1>4

\* Who goes on as it was, has to end for the size it asked for, or ends.
ProcesoSigue(p) ==
  \/ proceso'[p] = proceso[p]
  \/ proceso[p] = "activo" /\ proceso'[p] = "saliendo"
  \/ proceso'[p] \in {"terminando", "terminado"}

\* Used blocks that stay, and accounts that do.
LEMMA CuentaSigue ==
  ASSUME TiposHeap, NEW p \in Pids, CuentaEnRegla(p), MismosUsados(p), ProcesoSigue(p),
         contable'[p].bloques = contable[p].bloques, contable'[p].bytes = contable[p].bytes
  PROVE  CuentaEnRegla(p)'
<1>1. /\ UsadosDe(p)' = UsadosDe(p)
      /\ SumFunctionOnSet(TamUsado(p)', UsadosDe(p)') = SumFunctionOnSet(TamUsado(p), UsadosDe(p))
  BY UsadosSiguen
<1>2. CuentaDe(p) => CuentaDe(p)'
  BY <1>1 DEF CuentaDe
<1>3. \A tam \in 0..(TamPagina - 2 * TamMeta) : CuentaDeMas(p, tam) => CuentaDeMas(p, tam)'
  BY <1>1 DEF CuentaDeMas
<1>4. proceso'[p] \in {"activo", "saliendo"} => proceso[p] \in {"activo", "saliendo"}
  BY DEF ProcesoSigue
<1>5. proceso'[p] = "rechazado" => proceso[p] = "rechazado"
  BY DEF ProcesoSigue
<1> QED
  BY <1>2, <1>3, <1>4, <1>5 DEF CuentaEnRegla

\* A block more ...
LEMMA CuentaMas ==
  ASSUME TiposHeap, NEW p \in Pids, CuentaDe(p), NEW n \in DOMAIN paginas[p], NEW h \in Offsets,
         OtrosUsados(p, n, h), ~paginas[p][n][h].usado, paginas'[p][n][h].usado,
         paginas'[p][n][h].tam \in Nat,
         contable'[p].bloques = contable[p].bloques + 1,
         contable'[p].bytes = contable[p].bytes + paginas'[p][n][h].tam
  PROVE  CuentaDe(p)'
<1> DEFINE D == UsadosDe(p)
           f == TamUsado(p)
           g == TamUsado(p)'
           x == <<n, h>>
<1>1. x \notin D /\ UsadosDe(p)' = D \cup {x}
  BY DEF UsadosDe, OtrosUsados
<1>2. IsFiniteSet(D) /\ \A u \in D : f[u] \in Int
  BY UsadosFinitos
<1>3. ASSUME NEW u \in D PROVE g[u] = f[u]
  <2>1. /\ u[1] \in DOMAIN paginas[p] /\ u[2] \in Offsets /\ u = <<u[1], u[2]>>
        /\ paginas[p][u[1]][u[2]].usado /\ (u[1] # n \/ u[2] # h)
    BY <1>1 DEF UsadosDe
  <2>2. paginas'[p][u[1]][u[2]] = paginas[p][u[1]][u[2]]
    BY <2>1 DEF OtrosUsados
  <2>3. u \in D /\ u \in UsadosDe(p)'
    BY <1>1
  <2> QED
    BY <2>2, <2>3 DEF TamUsado
<1>4. g[x] = paginas'[p][n][h].tam
  BY <1>1 DEF TamUsado
<1>5. SumFunctionOnSet(g, D \cup {x}) = SumFunctionOnSet(f, D) + g[x]
  <2>1. g[x] \in Int
    BY <1>4
  <2> HIDE DEF D, f, g, x
  <2> QED
    BY <1>1, <1>2, <1>3, <2>1, SumaMas
<1>6. Cardinality(D \cup {x}) = Cardinality(D) + 1
  BY <1>1, <1>2, FS_AddElement
<1> QED
  BY <1>1, <1>4, <1>5, <1>6 DEF CuentaDe

\* ... and one less.
LEMMA CuentaMenos ==
  ASSUME TiposHeap, NEW p \in Pids, CuentaDe(p), NEW n \in DOMAIN paginas[p], NEW h \in Offsets,
         OtrosUsados(p, n, h), paginas[p][n][h].usado, ~paginas'[p][n][h].usado,
         contable'[p].bloques = contable[p].bloques - 1,
         contable'[p].bytes = contable[p].bytes - paginas[p][n][h].tam
  PROVE  CuentaDe(p)'
<1> DEFINE D == UsadosDe(p)
           f == TamUsado(p)
           g == TamUsado(p)'
           x == <<n, h>>
           E == D \ {x}
<1>1. x \in D /\ UsadosDe(p)' = E
  BY DEF UsadosDe, OtrosUsados
<1>2. IsFiniteSet(D) /\ \A u \in D : f[u] \in Int
  BY UsadosFinitos
<1>3. IsFiniteSet(E) /\ Cardinality(E) = Cardinality(D) - 1
  BY <1>1, <1>2, FS_RemoveElement
<1>4. ASSUME NEW u \in E PROVE g[u] = f[u]
  <2>1. /\ u[1] \in DOMAIN paginas[p] /\ u[2] \in Offsets /\ u = <<u[1], u[2]>>
        /\ paginas[p][u[1]][u[2]].usado /\ (u[1] # n \/ u[2] # h)
    BY <1>1 DEF UsadosDe
  <2>2. paginas'[p][u[1]][u[2]] = paginas[p][u[1]][u[2]]
    BY <2>1 DEF OtrosUsados
  <2>3. u \in D /\ u \in UsadosDe(p)'
    BY <1>1
  <2> QED
    BY <2>2, <2>3 DEF TamUsado
<1>5. f[x] = paginas[p][n][h].tam
  BY <1>1 DEF TamUsado
<1>6. SumFunctionOnSet(f, D) = f[x] + SumFunctionOnSet(f, E)
  <2> HIDE DEF f, x, D
  <2> QED
    BY <1>1, <1>2, SumaQuita
<1>7. SumFunctionOnSet(f, E) = SumFunctionOnSet(g, E) /\ SumFunctionOnSet(f, E) \in Int
  <2>1. \A u \in E : f[u] \in Int
    BY <1>2
  <2> HIDE DEF f, g, E
  <2> QED
    BY <1>3, <1>4, <2>1, SumaMismos, SumaEntera
<1>8. f[x] \in Int
  BY <1>1, <1>2
<1>9. SumFunctionOnSet(g, E) = SumFunctionOnSet(f, D) - f[x]
  BY ONLY <1>6, <1>7, <1>8
<1> QED
  BY <1>1, <1>3, <1>5, <1>9 DEF CuentaDe

\* A split gives its block to the process, and the rest of it to nobody ...
LEMMA PartirBloqueUsados ==
  ASSUME IInvHeap, PartirBloque, NEW p \in Pids, p = principal.pid,
         NEW n, n = principal.pagina + 1, NEW h, h = principal.offset
  PROVE  /\ n \in DOMAIN paginas[p] /\ h \in Offsets /\ OtrosUsados(p, n, h)
         /\ ~paginas[p][n][h].usado /\ paginas'[p][n][h].usado
         /\ paginas'[p][n][h].tam = principal.tam /\ principal.tam \in Nat
         /\ \A q \in Pids \ {p} : MismosUsados(q)
<1> DEFINE b == Actual
           tam == principal.tam
           c == Partir(b, h, tam)
           k == h + TamMeta + tam
<1>1. principal.paso = "partir" /\ paginas' = [paginas EXCEPT ![p][n] = c]
  BY DEF PartirBloque, CambiarPagina, En
<1>2. /\ n \in DOMAIN paginas[p] /\ b \in TipoPagina /\ Teselada(b)
      /\ h \in Nat /\ tam \in Nat /\ b = paginas[p][n]
  BY <1>1, EnLaPagina DEF PasosEnPagina, Actual
<1>3. h \in Cabezas(b) /\ ~b[h].usado /\ b[h].tam >= tam + TamMeta /\ h \in Offsets
  BY <1>1 DEF IInvHeap, LugarEnPagina, Cabezas
<1>4. /\ c \in TipoPagina /\ k \in Offsets /\ k \notin Cabezas(b)
      /\ c[h] = [usado |-> TRUE, tam |-> tam]
      /\ \A g \in Offsets \ {h, k} : c[g] = b[g]
  BY <1>2, <1>3, PartirTesela
<1>5. ~b[k].usado /\ ~c[k].usado
  <2>1. ~b[k].usado /\ k # h
    BY <1>3, <1>4 DEF Cabezas, SinMeta
  <2> DEFINE m == [usado |-> TRUE, tam |-> tam]
             l == [usado |-> FALSE, tam |-> b[h].tam - tam - TamMeta]
  <2>2. c = [[b EXCEPT ![h] = m] EXCEPT ![k] = l] /\ ~l.usado /\ DOMAIN b = Offsets
    BY <1>2 DEF Partir, TipoPagina
  <2> HIDE DEF m, l, b, tam, c, k
  <2> QED
    BY <1>4, <2>1, <2>2
<1>6. c[h].usado /\ c[h].tam = tam
  BY <1>4
<1> HIDE DEF b, c, k
<1>7. /\ paginas'[p][n] = c
      /\ \A q \in Pids : DOMAIN paginas'[q] = DOMAIN paginas[q]
      /\ \A q \in Pids : \A m \in DOMAIN paginas[q] :
           q # p \/ m # n => paginas'[q][m] = paginas[q][m]
  <2>1. paginas \in [Pids -> Seq(TipoPagina)]
    BY DEF IInvHeap, TiposHeap
  <2> QED
    BY ONLY <1>1, <1>2, <1>4, <2>1, UnaPagina
<1>8. \A g \in Offsets : g # h => (b[g].usado \/ c[g].usado => c[g] = b[g])
  BY <1>4, <1>5
<1>9. OtrosUsados(p, n, h)
  BY <1>2, <1>7, <1>8 DEF OtrosUsados
<1>10. \A q \in Pids \ {p} : MismosUsados(q)
  BY <1>7 DEF MismosUsados
<1> QED
  BY <1>2, <1>3, <1>6, <1>7, <1>9, <1>10

\* ... and a release takes the one of its pointer from it.
LEMMA LiberarBloqueUsados ==
  ASSUME IInvHeap, NEW p \in Pids, NEW r \in punteros[p], LiberarBloque(p, r),
         NEW n, n = r.pagina + 1, NEW h, h = r.offset - TamMeta
  PROVE  /\ n \in DOMAIN paginas[p] /\ h \in Offsets /\ OtrosUsados(p, n, h)
         /\ paginas[p][n][h].usado /\ ~paginas'[p][n][h].usado /\ paginas[p][n][h].tam \in Nat
         /\ \A q \in Pids \ {p} : MismosUsados(q)
<1> DEFINE b == paginas[p][n]
           c == [b EXCEPT ![h].usado = FALSE]
<1>1. paginas' = [paginas EXCEPT ![p][n] = c]
  BY DEF LiberarBloque
<1>2. /\ n \in DOMAIN paginas[p] /\ b \in TipoPagina /\ Teselada(b)
      /\ h \in Cabezas(b) /\ b[h].usado
  BY PunteroEnPagina
<1>3. c \in TipoPagina /\ \A g \in Offsets \ {h} : c[g] = b[g]
  BY <1>2, MismasCabezas
<1>4. h \in Offsets /\ ~c[h].usado /\ b[h].tam \in Nat
  <2>1. h \in Offsets /\ b \in [Offsets -> TipoBloque] /\ b[h] \in [usado : BOOLEAN, tam : Nat]
    BY <1>2, Metadata DEF Cabezas, TipoPagina
  <2> QED
    BY <2>1
<1> HIDE DEF c
<1>5. /\ paginas'[p][n] = c
      /\ \A q \in Pids : DOMAIN paginas'[q] = DOMAIN paginas[q]
      /\ \A q \in Pids : \A m \in DOMAIN paginas[q] :
           q # p \/ m # n => paginas'[q][m] = paginas[q][m]
  <2>1. paginas \in [Pids -> Seq(TipoPagina)]
    BY DEF IInvHeap, TiposHeap
  <2> QED
    BY ONLY <1>1, <1>2, <1>3, <2>1, UnaPagina
<1>6. OtrosUsados(p, n, h)
  BY <1>2, <1>3, <1>5 DEF OtrosUsados
<1>7. \A q \in Pids \ {p} : MismosUsados(q)
  BY <1>5 DEF MismosUsados
<1> QED
  BY <1>2, <1>4, <1>5, <1>6, <1>7

LEMMA ContarSuma ==
  ASSUME TiposHeap, NEW p \in Pids, NEW bloques \in Int, NEW bytes \in Int,
         Contar(p, bloques, bytes)
  PROVE  /\ contable'[p].bloques = contable[p].bloques + bloques
         /\ contable'[p].bytes = contable[p].bytes + bytes
         /\ \A q \in Pids \ {p} : contable'[q] = contable[q]
<1> DEFINE e == [contable[p] EXCEPT !.bloques = @ + bloques, !.bytes = @ + bytes]
<1>1. contable \in [Pids -> TipoCuenta] /\ contable[p] \in TipoCuenta
  BY DEF TiposHeap
<1>2. e.bloques = contable[p].bloques + bloques /\ e.bytes = contable[p].bytes + bytes
  BY <1>1 DEF TipoCuenta
<1>3. contable' = [contable EXCEPT ![p] = e]
  BY DEF Contar
<1> HIDE DEF e
<1> QED
  BY <1>1, <1>2, <1>3

\* What gives and takes no block, and counts none, keeps the accounts.
LEMMA CuentasSiguen ==
  ASSUME TiposHeap, CuentaExacta, \A p \in Pids : MismosUsados(p),
         \A p \in Pids : contable'[p].bloques = contable[p].bloques
                         /\ contable'[p].bytes = contable[p].bytes,
         \A p \in Pids : ProcesoSigue(p)
  PROVE  CuentaExacta'
<1>1. \A p \in Pids : CuentaEnRegla(p)'
  BY CuentaPorBloques, CuentaSigue
<1> QED
  BY <1>1, CuentaPorBloquesDespues

\* Nobody is active again, nor alive.
LEMMA NadieVuelve ==
  ASSUME TiposHeap, [Next]_vars
  PROVE  \A p \in Pids : /\ proceso'[p] = "activo" => proceso[p] = "activo"
                         /\ proceso'[p] \in Vivos => proceso[p] \in Vivos
                         /\ ProcesoSigue(p) \/ (PedirPagina /\ proceso'[p] = "rechazado")
<1>1. /\ (principal.paso # "libre" => proceso[principal.pid] = "activo")
      /\ proceso \in [Pids -> Vivos \cup {"terminando", "terminado"}]
      /\ (principal.paso # "libre" => principal.pid \in Pids)
      /\ (fin.paso # "libre" => fin.pid \in Pids)
  BY DEF TiposHeap
<1>2. \/ UNCHANGED proceso
      \/ \E q \in Pids, v \in {"saliendo", "rechazado", "terminando", "terminado"} :
           /\ proceso' = [proceso EXCEPT ![q] = v]
           /\ v \in {"saliendo", "rechazado"} => proceso[q] = "activo"
           /\ v = "rechazado" => PedirPagina
  <2>1. CASE \E p \in Pids, tam \in Tamanios : PedirBloque(p, tam)
    BY <2>1 DEF PedirBloque
  <2>2. CASE MirarLista \/ TomarEntrada \/ Compactar \/ SumarJuntados \/ BuscarBloque
             \/ AgregarEntrada \/ Descontar \/ SumarLiberado
    BY <2>2 DEF MirarLista, TomarEntrada, Compactar, SumarJuntados, BuscarBloque,
                AgregarEntrada, Descontar, SumarLiberado
  <2>3. CASE PedirPagina
    BY <1>1, <2>3 DEF PedirPagina, En
  <2>4. CASE PartirBloque
    BY <1>1, <2>4 DEF PartirBloque, En
  <2>5. CASE \E p \in Pids : \E r \in punteros[p] : LiberarBloque(p, r)
    BY <2>5 DEF LiberarBloque
  <2>6. CASE Fin
    BY <1>1, <2>6 DEF Fin, LiberarRecursos, TomarLista, DestruirEntrada, SoltarLista
  <2>7. CASE UNCHANGED vars
    BY <2>7 DEF vars
  <2> QED
    BY <2>1, <2>2, <2>3, <2>4, <2>5, <2>6, <2>7 DEF Next, Alocar, Liberar
<1> QED
  BY <1>1, <1>2 DEF Vivos, ProcesoSigue

LEMMA PartirBloqueCuenta ==
  ASSUME IInvHeap, CuentaExacta, PartirBloque, NEW p \in Pids, p = principal.pid,
         NEW n, n = principal.pagina + 1, NEW h, h = principal.offset
  PROVE  CuentaExacta'
<1>1. TiposHeap /\ p \in Pids /\ proceso[p] = "activo" /\ Contar(p, 1, principal.tam)
      /\ UNCHANGED proceso
  BY DEF IInvHeap, TiposHeap, PartirBloque, En
<1>2. /\ n \in DOMAIN paginas[p] /\ h \in Offsets /\ OtrosUsados(p, n, h)
      /\ ~paginas[p][n][h].usado /\ paginas'[p][n][h].usado
      /\ paginas'[p][n][h].tam = principal.tam /\ principal.tam \in Nat
      /\ \A q \in Pids \ {p} : MismosUsados(q)
  BY PartirBloqueUsados
<1>3. 1 \in Int /\ principal.tam \in Int
  BY <1>2
<1>4. /\ contable'[p].bloques = contable[p].bloques + 1
      /\ contable'[p].bytes = contable[p].bytes + paginas'[p][n][h].tam
      /\ \A q \in Pids \ {p} : contable'[q] = contable[q]
  BY <1>1, <1>2, <1>3, ContarSuma
<1>5. CuentaDe(p)'
  <2>1. CuentaDe(p)
    BY <1>1, CuentaPorBloques DEF CuentaEnRegla
  <2>2. /\ n \in DOMAIN paginas[p] /\ h \in Offsets /\ OtrosUsados(p, n, h)
        /\ ~paginas[p][n][h].usado /\ paginas'[p][n][h].usado
        /\ paginas'[p][n][h].tam \in Nat
    BY <1>2
  <2>3. /\ contable'[p].bloques = contable[p].bloques + 1
        /\ contable'[p].bytes = contable[p].bytes + paginas'[p][n][h].tam
    BY <1>4
  <2> QED
    BY <1>1, <2>1, <2>2, <2>3, CuentaMas
<1>6. \A q \in Pids \ {p} : CuentaEnRegla(q)'
  <2>1. \A q \in Pids \ {p} : CuentaEnRegla(q) /\ ProcesoSigue(q)
    BY <1>1, CuentaPorBloques DEF ProcesoSigue
  <2> QED
    BY <1>1, <1>2, <1>4, <2>1, CuentaSigue
<1>7. CuentaEnRegla(p)'
  BY <1>1, <1>5 DEF CuentaEnRegla
<1> QED
  BY <1>6, <1>7, CuentaPorBloquesDespues

LEMMA LiberarBloqueCuenta ==
  ASSUME IInvHeap, CuentaExacta, NEW p \in Pids, NEW r \in punteros[p], LiberarBloque(p, r)
  PROVE  CuentaExacta'
<1> DEFINE n == r.pagina + 1
           h == r.offset - TamMeta
           tam == paginas[p][n][h].tam
<1>1. TiposHeap /\ proceso[p] = "activo" /\ Contar(p, -1, -tam) /\ UNCHANGED proceso
  BY DEF IInvHeap, LiberarBloque
<1> HIDE DEF n, h, tam
<1>2. /\ n \in DOMAIN paginas[p] /\ h \in Offsets /\ OtrosUsados(p, n, h)
      /\ paginas[p][n][h].usado /\ ~paginas'[p][n][h].usado /\ tam \in Nat
      /\ \A q \in Pids \ {p} : MismosUsados(q)
  BY LiberarBloqueUsados DEF n, h, tam
<1>3. -1 \in Int /\ -tam \in Int
  BY <1>2
<1>4. /\ contable'[p].bloques = contable[p].bloques + -1
      /\ contable'[p].bytes = contable[p].bytes + -tam
      /\ \A q \in Pids \ {p} : contable'[q] = contable[q]
  BY <1>1, <1>3, ContarSuma
<1>5. /\ contable'[p].bloques = contable[p].bloques - 1
      /\ contable'[p].bytes = contable[p].bytes - tam
  <2>1. contable[p].bloques \in Int /\ contable[p].bytes \in Int
    BY <1>1 DEF TiposHeap, TipoCuenta
  <2> QED
    BY <1>2, <1>4, <2>1
<1>6. CuentaDe(p)'
  <2>1. CuentaDe(p)
    BY <1>1, CuentaPorBloques DEF CuentaEnRegla
  <2> QED
    BY <1>1, <1>2, <1>5, <2>1, CuentaMenos DEF tam
<1>7. \A q \in Pids \ {p} : CuentaEnRegla(q)'
  <2>1. \A q \in Pids \ {p} : CuentaEnRegla(q) /\ ProcesoSigue(q)
    BY <1>1, CuentaPorBloques DEF ProcesoSigue
  <2> QED
    BY <1>1, <1>2, <1>4, <2>1, CuentaSigue
<1>8. CuentaEnRegla(p)'
  BY <1>1, <1>6 DEF CuentaEnRegla
<1> QED
  BY <1>7, <1>8, CuentaPorBloquesDespues

LEMMA PedirPaginaCuenta ==
  ASSUME IInvHeap, CuentaExacta, PedirPagina, NEW p, p = principal.pid,
         NEW tam, tam = principal.tam
  PROVE  CuentaExacta'
<1>1. TiposHeap /\ p \in Pids /\ proceso[p] = "activo" /\ tam \in Nat /\ ~Demasiado(tam)
  BY DEF IInvHeap, TiposHeap, TipoPrincipal, LugarEnPagina, PedirPagina, En
<1>2. \A q \in Pids : MismosUsados(q)
  BY PedirPaginaUsados
<1>4. CASE UNCHANGED <<proceso, contable>>
  BY <1>1, <1>2, <1>4, CuentasSiguen DEF ProcesoSigue
<1>5. CASE proceso' = [proceso EXCEPT ![p] = "rechazado"] /\ Contar(p, 1, tam)
  <2>1. /\ proceso'[p] = "rechazado"
        /\ \A q \in Pids \ {p} : proceso'[q] = proceso[q]
    BY <1>1, <1>5 DEF TiposHeap
  <2>2. /\ contable'[p].bloques = contable[p].bloques + 1
        /\ contable'[p].bytes = contable[p].bytes + tam
        /\ \A q \in Pids \ {p} : contable'[q] = contable[q]
    <3>1. 1 \in Int /\ tam \in Int
      BY <1>1
    <3> QED
      BY <1>1, <1>5, <3>1, ContarSuma
  <2>3. \A q \in Pids \ {p} : CuentaEnRegla(q)'
    <3>1. \A q \in Pids \ {p} : CuentaEnRegla(q) /\ ProcesoSigue(q)
      BY <2>1, CuentaPorBloques DEF ProcesoSigue
    <3> QED
      BY <1>1, <1>2, <2>2, <3>1, CuentaSigue
  <2>4. CuentaDe(p)
    BY <1>1, CuentaPorBloques DEF CuentaEnRegla
  <2>5. CuentaDeMas(p, tam)'
    <3>1. /\ UsadosDe(p)' = UsadosDe(p)
          /\ SumFunctionOnSet(TamUsado(p)', UsadosDe(p)') = SumFunctionOnSet(TamUsado(p), UsadosDe(p))
      BY <1>1, <1>2, UsadosSiguen
    <3> QED
      BY <2>2, <2>4, <3>1 DEF CuentaDe, CuentaDeMas
  <2>6. tam \in 0..(TamPagina - 2 * TamMeta)
    BY <1>1 DEF Demasiado, HeapAssumption
  <2>7. CuentaEnRegla(p)'
    BY <2>1, <2>5, <2>6 DEF CuentaEnRegla
  <2> QED
    BY <2>3, <2>7, CuentaPorBloquesDespues
<1>6. \/ UNCHANGED <<proceso, contable>>
      \/ proceso' = [proceso EXCEPT ![p] = "rechazado"] /\ Contar(p, 1, tam)
  BY DEF PedirPagina
<1> QED
  BY <1>4, <1>5, <1>6

\* Memoria frees the pages of who ends, of which the accounts say no more.
LEMMA LiberarRecursosCuenta ==
  ASSUME IInvHeap, CuentaExacta, NEW p \in Pids, LiberarRecursos(p)
  PROVE  CuentaExacta'
<1>1. /\ TiposHeap /\ UNCHANGED contable
      /\ proceso' = [proceso EXCEPT ![p] = "terminando"]
      /\ paginas' = [paginas EXCEPT ![p] = <<>>]
  BY DEF IInvHeap, LiberarRecursos
<1>2. /\ proceso'[p] = "terminando"
      /\ \A q \in Pids \ {p} : proceso'[q] = proceso[q] /\ paginas'[q] = paginas[q]
  BY <1>1 DEF TiposHeap
<1>3. \A q \in Pids \ {p} : MismosUsados(q)
  BY <1>2 DEF MismosUsados
<1>4. \A q \in Pids \ {p} : CuentaEnRegla(q)'
  <2>1. \A q \in Pids \ {p} : CuentaEnRegla(q) /\ ProcesoSigue(q)
    BY <1>2, CuentaPorBloques DEF ProcesoSigue
  <2> QED
    BY <1>1, <1>3, <2>1, CuentaSigue
<1>5. CuentaEnRegla(p)'
  BY <1>2 DEF CuentaEnRegla
<1> QED
  BY <1>4, <1>5, CuentaPorBloquesDespues

LEMMA CuentaInductiva ==
  ASSUME IInvHeap, CuentaExacta, [Next]_vars
  PROVE  CuentaExacta'
<1>0. PedirPagina => CuentaExacta'
  <2>1. \A p, tam : p = principal.pid /\ tam = principal.tam /\ PedirPagina => CuentaExacta'
    BY PedirPaginaCuenta
  <2> QED
    BY <2>1
<1> SUFFICES ASSUME ~PedirPagina PROVE CuentaExacta'
  BY <1>0
<1>1. TiposHeap /\ \A p \in Pids : ProcesoSigue(p)
  BY NadieVuelve DEF IInvHeap
<1>2. ASSUME UNCHANGED <<paginas, contable>> PROVE CuentaExacta'
  <2>1. \A p \in Pids : MismosUsados(p)
    BY <1>2 DEF MismosUsados
  <2> QED
    BY <1>1, <1>2, <2>1, CuentasSiguen
<1>3. CASE \E p \in Pids, tam \in Tamanios : PedirBloque(p, tam)
  BY <1>2, <1>3 DEF PedirBloque
<1>4. CASE MirarLista \/ TomarEntrada \/ SumarJuntados
  BY <1>2, <1>4 DEF MirarLista, TomarEntrada, SumarJuntados
<1>5. CASE BuscarBloque \/ Descontar \/ SumarLiberado
  BY <1>2, <1>5 DEF BuscarBloque, Descontar, SumarLiberado
<1>6. CASE Compactar
  <2>1. UNCHANGED contable
    BY <1>6 DEF Compactar
  <2> QED
    BY <1>1, <1>6, <2>1, CompactarUsados, CuentasSiguen
<1>8. CASE AgregarEntrada
  <2> DEFINE p == principal.pid
             e == [contable[p] EXCEPT !.paginas = @ + 1]
  <2>1. UNCHANGED paginas /\ contable' = [contable EXCEPT ![p] = e] /\ p \in Pids
        /\ contable \in [Pids -> TipoCuenta]
    BY <1>1, <1>8 DEF AgregarEntrada, En, TiposHeap
  <2>2. e.bloques = contable[p].bloques /\ e.bytes = contable[p].bytes
    BY <2>1 DEF TipoCuenta
  <2> HIDE DEF e, p
  <2>3. \A q \in Pids : contable'[q].bloques = contable[q].bloques
                        /\ contable'[q].bytes = contable[q].bytes
    BY <2>1, <2>2
  <2>4. \A q \in Pids : MismosUsados(q)
    BY <2>1 DEF MismosUsados
  <2> QED
    BY <1>1, <2>3, <2>4, CuentasSiguen
<1>9. CASE PartirBloque
  <2>1. principal.pid \in Pids
    BY <1>1, <1>9 DEF PartirBloque, En, TiposHeap
  <2> QED
    BY <1>9, <2>1, PartirBloqueCuenta
<1>10. CASE \E p \in Pids : \E r \in punteros[p] : LiberarBloque(p, r)
  BY <1>10, LiberarBloqueCuenta
<1>11. CASE \E p \in Pids : LiberarRecursos(p)
  BY <1>11, LiberarRecursosCuenta
<1>12. CASE TomarLista \/ DestruirEntrada \/ SoltarLista
  BY <1>2, <1>12 DEF TomarLista, DestruirEntrada, SoltarLista
<1>13. CASE UNCHANGED vars
  BY <1>2, <1>13 DEF vars
<1> QED
  BY <1>3, <1>4, <1>5, <1>6, <1>8, <1>9, <1>10, <1>11, <1>12, <1>13
     DEF Next, Alocar, Liberar, Fin

\* What listaContable says at the end that a process did not release (planificacion.h:289
\* takes the difference) are the used blocks of its pages and their bytes, however many:
\* gestionarAlocar and the release count each block once, compactarPaginaHeap none, and the
\* pages and requests of others do not matter.  Of who ends for a request that found no
\* frame it says one block more, never two: that request, that gestionarAlocar
\* (Kernel.c:525) counts although heap.h:85 refused it.
THEOREM CuentasDeLosQueViven == Spec => []CuentaExacta
<1>1. Init => CuentaExacta
  <2>1. ASSUME Init PROVE CuentaExacta
    <3>1. ASSUME NEW p \in Pids PROVE CuentaDe(p)
      <4>1. UsadosDe(p) = {} /\ contable[p].bloques = 0 /\ contable[p].bytes = 0
        BY <2>1 DEF Init, UsadosDe
      <4> QED
        BY <4>1, SumaVacia, FS_EmptySet DEF CuentaDe
    <3>2. \A p \in Pids : CuentaEnRegla(p)
      BY <2>1, <3>1 DEF CuentaEnRegla, Init
    <3> QED
      BY <3>2, CuentaPorBloques
  <2> QED
    BY <2>1
<1>2. IInvHeap /\ CuentaExacta /\ [Next]_vars => CuentaExacta'
  BY CuentaInductiva
<1> QED
  BY <1>1, <1>2, InvarianteHeap, PTL DEF Spec
-----------------------------------------------------------------------------
(* How much of a page is free                                              *)

LibresDe(b) == {h \in Cabezas(b) : ~b[h].usado}
TamLibre(b) == [h \in LibresDe(b) |-> b[h].tam]

\* The free bytes as a sum over free blocks, which are finitely many.
LEMMA LibrePorBloques ==
  ASSUME NEW b \in TipoPagina
  PROVE  /\ LibreEn(b) = SumFunctionOnSet(TamLibre(b), LibresDe(b))
         /\ IsFiniteSet(LibresDe(b)) /\ \A h \in LibresDe(b) : TamLibre(b)[h] \in Int
         /\ LibreEn(b) \in Int
<1>1. LibreEn(b) = SumFunctionOnSet(TamLibre(b), LibresDe(b))
  BY DEF LibreEn, Suma, FoldFunction, SumFunctionOnSet, FoldFunctionOnSet, MapThenFoldSet,
         TamLibre, LibresDe
<1>2. IsFiniteSet(LibresDe(b))
  <2>1. 0 \in Int /\ TamPagina - 1 \in Int
    BY DEF HeapAssumption
  <2>2. IsFiniteSet(0..(TamPagina - 1))
    BY <2>1, FS_Interval
  <2>3. LibresDe(b) \in SUBSET (0..(TamPagina - 1))
    BY DEF LibresDe, Cabezas, Offsets
  <2> QED
    BY <2>2, <2>3, FS_Subset
<1>3. \A h \in LibresDe(b) : TamLibre(b)[h] \in Int
  BY Metadata DEF LibresDe, TamLibre
<1> QED
  BY <1>1, <1>2, <1>3, SumaEntera

\* A join frees the metadata of the second block.
LEMMA LibreAlJuntar ==
  ASSUME NEW b \in TipoPagina, Teselada(b), NEW h \in Cabezas(b), NEW k \in Cabezas(b),
         k = Siguiente(b, h), ~b[h].usado, ~b[k].usado, NEW c, c = Juntar(b, h)
  PROVE  c \in TipoPagina /\ LibreEn(c) = LibreEn(b) + TamMeta
<1> DEFINE D == LibresDe(b)
           E == D \ {k}
           f == TamLibre(b)
           g == TamLibre(c)
<1>1. /\ c \in TipoPagina /\ Cabezas(c) = Cabezas(b) \ {k}
      /\ c[h].usado = b[h].usado /\ c[h].tam = b[h].tam + TamMeta + b[k].tam
      /\ \A x \in Offsets \ {h, k} : c[x] = b[x]
  BY JuntarTesela
<1>2. /\ h \in Nat /\ k \in Nat /\ h # k /\ b[h].tam \in Nat /\ b[k].tam \in Nat
      /\ TamMeta \in Nat /\ h \in Offsets
  BY Metadata DEF HeapAssumption, Cabezas
<1>3. h \in E /\ k \in D /\ LibresDe(c) = E
  BY <1>1, <1>2 DEF LibresDe, Cabezas
<1>4. /\ LibreEn(b) = SumFunctionOnSet(f, D) /\ IsFiniteSet(D) /\ \A x \in D : f[x] \in Int
      /\ LibreEn(c) = SumFunctionOnSet(g, E) /\ IsFiniteSet(E) /\ \A x \in E : g[x] \in Int
  BY <1>1, <1>3, LibrePorBloques
<1>5. f[h] = b[h].tam /\ f[k] = b[k].tam /\ g[h] = b[h].tam + TamMeta + b[k].tam
  BY <1>1, <1>3 DEF TamLibre
<1>6. \A x \in E \ {h} : g[x] = f[x]
  BY <1>1, <1>3 DEF TamLibre, LibresDe, Cabezas
<1> HIDE DEF D, E, f, g
<1>7. SumFunctionOnSet(f, D) = f[k] + SumFunctionOnSet(f, D \ {k})
  BY <1>3, <1>4, SumaQuita
<1>8. SumFunctionOnSet(g, E) = SumFunctionOnSet(f, E) + g[h] - f[h]
  <2>1. \A x \in E : f[x] \in Int /\ g[x] \in Int
    BY <1>4 DEF E
  <2> QED
    BY <1>3, <1>4, <1>6, <2>1, SumaCambia
<1>9. SumFunctionOnSet(f, E) \in Int
  <2>1. \A x \in E : f[x] \in Int
    BY <1>4 DEF E
  <2> QED
    BY <1>4, <2>1, SumaEntera
<1>10. SumFunctionOnSet(f, D) = f[k] + SumFunctionOnSet(f, E)
  BY <1>7 DEF E
<1>11. LibreEn(c) = LibreEn(b) + TamMeta
  BY ONLY <1>2, <1>4, <1>5, <1>8, <1>9, <1>10
<1> QED
  BY <1>1, <1>11

\* A split takes the block and a metadata.
LEMMA LibreAlPartir ==
  ASSUME NEW b \in TipoPagina, Teselada(b), NEW h \in Cabezas(b), NEW tam \in Nat,
         ~b[h].usado, b[h].tam >= tam + TamMeta, NEW c, c = Partir(b, h, tam)
  PROVE  c \in TipoPagina /\ LibreEn(c) = LibreEn(b) - (tam + TamMeta)
<1> DEFINE k == h + TamMeta + tam
           D == LibresDe(b)
           E == D \ {h}
           f == TamLibre(b)
           g == TamLibre(c)
<1>1. /\ c \in TipoPagina /\ Cabezas(c) = Cabezas(b) \cup {k}
      /\ k \in Offsets /\ k \notin Cabezas(b)
      /\ c[h] = [usado |-> TRUE, tam |-> tam]
      /\ \A x \in Offsets \ {h, k} : c[x] = b[x]
  BY PartirTesela
<1>2. b[h].tam \in Nat /\ TamMeta \in Nat /\ h \in Offsets /\ h # k
  BY <1>1, Metadata DEF HeapAssumption, Cabezas
<1>3. c[h].usado
  BY <1>1
<1>4. ~c[k].usado /\ c[k].tam = b[h].tam - tam - TamMeta
  <2> DEFINE m == [usado |-> TRUE, tam |-> tam]
             l == [usado |-> FALSE, tam |-> b[h].tam - tam - TamMeta]
  <2>1. /\ c = [[b EXCEPT ![h] = m] EXCEPT ![k] = l] /\ DOMAIN b = Offsets
        /\ ~l.usado /\ l.tam = b[h].tam - tam - TamMeta
    BY DEF Partir, TipoPagina
  <2> HIDE DEF m, l, k
  <2> QED
    BY <1>1, <1>2, <2>1
<1> HIDE DEF k
<1>5. h \in D /\ k \notin E /\ LibresDe(c) = E \cup {k}
  BY <1>1, <1>2, <1>3, <1>4 DEF LibresDe, Cabezas
<1>6. /\ LibreEn(b) = SumFunctionOnSet(f, D) /\ IsFiniteSet(D) /\ \A x \in D : f[x] \in Int
      /\ LibreEn(c) = SumFunctionOnSet(g, E \cup {k})
      /\ \A x \in E \cup {k} : g[x] \in Int
  BY <1>1, <1>5, LibrePorBloques
<1>7. f[h] = b[h].tam /\ g[k] = b[h].tam - tam - TamMeta
  BY <1>4, <1>5 DEF TamLibre
<1>8. \A x \in E : g[x] = f[x]
  BY <1>1, <1>5 DEF TamLibre, LibresDe, Cabezas
<1>9. IsFiniteSet(E) /\ \A x \in E : f[x] \in Int
  BY <1>6, FS_RemoveElement
<1> HIDE DEF D, E, f, g
<1>10. SumFunctionOnSet(f, D) = f[h] + SumFunctionOnSet(f, E)
  BY <1>5, <1>6, SumaQuita DEF E
<1>11. SumFunctionOnSet(g, E \cup {k}) = SumFunctionOnSet(f, E) + g[k]
  <2>1. g[k] \in Int
    BY <1>6
  <2>2. \A x \in E : f[x] \in Int /\ g[x] = f[x]
    BY <1>8, <1>9
  <2> QED
    BY <1>5, <1>9, <2>1, <2>2, SumaMas
<1>12. SumFunctionOnSet(f, E) \in Int
  BY <1>9, SumaEntera
<1>13. LibreEn(c) = LibreEn(b) - (tam + TamMeta)
  BY ONLY <1>2, <1>6, <1>7, <1>10, <1>11, <1>12, tam \in Nat
<1> QED
  BY <1>1, <1>13

\* A release frees the block.
LEMMA LibreAlLiberar ==
  ASSUME NEW b \in TipoPagina, NEW h \in Cabezas(b), b[h].usado,
         NEW c \in TipoPagina, Cabezas(c) = Cabezas(b), ~c[h].usado, c[h].tam = b[h].tam,
         \A x \in Offsets \ {h} : c[x] = b[x]
  PROVE  LibreEn(c) = LibreEn(b) + b[h].tam
<1> DEFINE D == LibresDe(b)
           f == TamLibre(b)
           g == TamLibre(c)
<1>1. h \notin D /\ LibresDe(c) = D \cup {h}
  BY DEF LibresDe, Cabezas
<1>2. /\ LibreEn(b) = SumFunctionOnSet(f, D) /\ IsFiniteSet(D) /\ \A x \in D : f[x] \in Int
      /\ LibreEn(c) = SumFunctionOnSet(g, D \cup {h})
      /\ \A x \in D \cup {h} : g[x] \in Int
  BY <1>1, LibrePorBloques
<1>3. g[h] = b[h].tam /\ \A x \in D : g[x] = f[x]
  BY <1>1 DEF TamLibre, LibresDe, Cabezas
<1> HIDE DEF D, f, g
<1>4. SumFunctionOnSet(g, D \cup {h}) = SumFunctionOnSet(f, D) + g[h]
  <2>1. g[h] \in Int
    BY <1>2
  <2>2. \A x \in D : f[x] \in Int /\ g[x] = f[x]
    BY <1>2, <1>3
  <2>3. h \notin D /\ IsFiniteSet(D)
    BY <1>1, <1>2
  <2> QED
    BY ONLY <2>1, <2>2, <2>3, SumaMas, ZenonT(30)
<1> QED
  BY <1>2, <1>3, <1>4

\* A new page is free but for its first metadata.
LEMMA LibreAlEmpezar == LibreEn(PaginaNueva) = TamPagina - TamMeta
<1> DEFINE f == TamLibre(PaginaNueva)
<1>1. /\ PaginaNueva \in TipoPagina /\ Cabezas(PaginaNueva) = {0}
      /\ PaginaNueva[0] = [usado |-> FALSE, tam |-> TamPagina - TamMeta]
      /\ TamPagina - TamMeta \in Int
  BY PaginaNuevaTeselada DEF HeapAssumption
<1>2. LibresDe(PaginaNueva) = {0} /\ f[0] = TamPagina - TamMeta
  BY <1>1 DEF LibresDe, TamLibre
<1>3. LibreEn(PaginaNueva) = SumFunctionOnSet(f, {0}) /\ IsFiniteSet({0})
      /\ \A x \in {0} : f[x] \in Int
  BY <1>1, <1>2, LibrePorBloques
<1> HIDE DEF f
<1>4. SumFunctionOnSet(f, {0}) = f[0] + SumFunctionOnSet(f, {0} \ {0})
  BY <1>3, SumaQuita
<1>5. {0} \ {0} = {}
  OBVIOUS
<1>6. SumFunctionOnSet(f, {0}) = f[0] + 0
  BY <1>4, <1>5, SumaVacia
<1> QED
  BY <1>1, <1>2, <1>3, <1>6

-----------------------------------------------------------------------------
(* The entries of listaAdmHeap                                             *)

\* Page n of p has an entry, no other, and it says how much of the page is free.
EsSuya(i, p, n) == lista[i].pid = p /\ lista[i].pagina = n - 1
EntradaDe(p, n) ==
  \E i \in DOMAIN lista :
    /\ EsSuya(i, p, n) /\ \A j \in DOMAIN lista : EsSuya(j, p, n) => j = i
    /\ lista[i].libre + EnCurso(p, n - 1) = LibreEn(paginas[p][n])

EntradasUnicas ==
  \A p \in Pids : proceso[p] \in Vivos => \A n \in 1..contable[p].paginas : EntradaDe(p, n)

\* An entry is of a page that is counted ...
EntradasAdmitidas ==
  \A i \in DOMAIN lista : proceso[lista[i].pid] \in Vivos =>
    lista[i].pagina < contable[lista[i].pid].paginas

\* ... after it is added, until when nobody touches the new page.
NuevaPagina ==
  principal.paso = "agregar" =>
    Actual = PaginaNueva /\ principal.pagina = contable[principal.pid].paginas

IInvEntradas == EntradasUnicas /\ EntradasAdmitidas /\ NuevaPagina

LEMMA EntradasUnicasDan ==
  ASSUME EntradasUnicas, TiposHeap
  PROVE  LibreExacto
<1> SUFFICES ASSUME NEW p \in Pids, proceso[p] \in Vivos, NEW n \in 1..contable[p].paginas,
                    NEW suyas, suyas = {i \in DOMAIN lista : lista[i].pid = p
                                                             /\ lista[i].pagina = n - 1}
             PROVE  /\ Cardinality(suyas) = 1
                    /\ \A i \in suyas : lista[i].libre + EnCurso(p, n - 1) = LibreEn(paginas[p][n])
  BY DEF LibreExacto
<1>1. PICK i \in DOMAIN lista :
        /\ EsSuya(i, p, n) /\ \A j \in DOMAIN lista : EsSuya(j, p, n) => j = i
        /\ lista[i].libre + EnCurso(p, n - 1) = LibreEn(paginas[p][n])
  BY DEF EntradasUnicas, EntradaDe
<1>2. suyas = {i}
  BY <1>1 DEF EsSuya
<1>3. Cardinality({i}) = 1
  BY FS_Singleton
<1> QED
  BY <1>1, <1>2, <1>3

\* Only a compaction, a split and a release leave the entry behind.
LEMMA EnCursoNada ==
  ASSUME principal.paso \notin {"compactar", "partir", "liberar"}
  PROVE  \A p, n : EnCurso(p, n) = 0
BY DEF EnCurso

LEMMA EnCursoNadaDespues ==
  ASSUME principal'.paso \notin {"compactar", "partir", "liberar"}
  PROVE  \A p, n : EnCurso(p, n)' = 0
BY DEF EnCurso

LEMMA EnCursoDeOtra ==
  ASSUME NEW p, NEW n, principal.pid # p \/ principal.pagina # n
  PROVE  EnCurso(p, n) = 0
BY DEF EnCurso

LEMMA EnCursoDeOtraDespues ==
  ASSUME NEW p, NEW n, principal'.pid # p \/ principal'.pagina # n
  PROVE  EnCurso(p, n)' = 0
BY DEF EnCurso

LEMMA EnCursoEntero ==
  ASSUME TiposHeap, NEW p, NEW n
  PROVE  EnCurso(p, n) \in Int
<1>1. /\ principal.tam \in Nat /\ principal.juntados \in Nat /\ TamMeta \in Nat
  BY DEF TiposHeap, TipoPrincipal, HeapAssumption
<1>2. principal.tam + TamMeta \in Nat
  BY <1>1
<1> QED
  BY <1>1, <1>2 DEF EnCurso

\* The list stays, and what becomes free is accounted as in progress.
LEMMA EntradaAcompania ==
  ASSUME TiposHeap, NEW p \in Pids, NEW n \in DOMAIN paginas[p], EntradaDe(p, n),
         UNCHANGED lista, NEW d \in Int,
         LibreEn(paginas'[p][n]) = LibreEn(paginas[p][n]) + d,
         EnCurso(p, n - 1)' = EnCurso(p, n - 1) + d
  PROVE  EntradaDe(p, n)'
<1>1. PICK i \in DOMAIN lista :
        /\ EsSuya(i, p, n) /\ \A j \in DOMAIN lista : EsSuya(j, p, n) => j = i
        /\ lista[i].libre + EnCurso(p, n - 1) = LibreEn(paginas[p][n])
  BY DEF EntradaDe
<1>2. lista[i].libre \in Int /\ EnCurso(p, n - 1) \in Int
  BY EnLista, EnCursoEntero DEF TiposHeap
<1>3. lista'[i].libre + EnCurso(p, n - 1)' = LibreEn(paginas'[p][n])
  BY <1>1, <1>2
<1>4. i \in DOMAIN lista' /\ EsSuya(i, p, n)' /\ \A j \in DOMAIN lista' : EsSuya(j, p, n)' => j = i
  BY <1>1 DEF EsSuya
<1> QED
  BY <1>3, <1>4 DEF EntradaDe

\* What is added to the entry that the main thread means is taken from what is in progress.
LEMMA EntradaSumada ==
  ASSUME TiposHeap, NEW cuanto \in Int, SumarLibre(cuanto), UNCHANGED paginas,
         NEW p \in Pids, NEW n \in DOMAIN paginas[p], EntradaDe(p, n),
         principal.pid = p /\ principal.pagina = n - 1,
         EnCurso(p, n - 1)' = EnCurso(p, n - 1) - cuanto
  PROVE  EntradaDe(p, n)'
<1>1. PICK i \in DOMAIN lista :
        /\ EsSuya(i, p, n) /\ \A j \in DOMAIN lista : EsSuya(j, p, n) => j = i
        /\ lista[i].libre + EnCurso(p, n - 1) = LibreEn(paginas[p][n])
  BY DEF EntradaDe
<1>2. lista[i] \in TipoEntrada /\ lista[i].libre \in Int /\ EnCurso(p, n - 1) \in Int
  BY EnLista, EnCursoEntero DEF TiposHeap
<1>3. \A j \in DOMAIN lista : Entrada(lista[j]) <=> EsSuya(j, p, n)
  BY DEF Entrada, EsSuya
<1> DEFINE e == [lista[i] EXCEPT !.libre = lista[i].libre + cuanto]
<1>4. lista' = [lista EXCEPT ![i] = e]
  BY <1>1, <1>3 DEF SumarLibre
<1>5. e.pid = lista[i].pid /\ e.pagina = lista[i].pagina /\ e.libre = lista[i].libre + cuanto
  BY <1>2 DEF TipoEntrada
<1> HIDE DEF e
<1>6. /\ DOMAIN lista' = DOMAIN lista /\ lista'[i] = e
      /\ \A j \in DOMAIN lista \ {i} : lista'[j] = lista[j]
  BY <1>4
<1>7. \A j \in DOMAIN lista : EsSuya(j, p, n)' <=> EsSuya(j, p, n)
  BY <1>5, <1>6 DEF EsSuya
<1>8. lista'[i].libre + EnCurso(p, n - 1)' = LibreEn(paginas'[p][n])
  BY <1>1, <1>2, <1>5, <1>6
<1> QED
  BY <1>1, <1>6, <1>7, <1>8 DEF EntradaDe

\* The entries of other pages are not touched.
LEMMA EntradaDeOtraSigue ==
  ASSUME TiposHeap, NEW cuanto \in Int, SumarLibre(cuanto), UNCHANGED paginas,
         NEW p \in Pids, NEW n \in DOMAIN paginas[p], EntradaDe(p, n),
         principal.pid # p \/ principal.pagina # n - 1,
         EnCurso(p, n - 1)' = EnCurso(p, n - 1)
  PROVE  EntradaDe(p, n)'
<1>1. PICK i \in DOMAIN lista :
        /\ EsSuya(i, p, n) /\ \A j \in DOMAIN lista : EsSuya(j, p, n) => j = i
        /\ lista[i].libre + EnCurso(p, n - 1) = LibreEn(paginas[p][n])
  BY DEF EntradaDe
<1>2. CASE UNCHANGED lista
  BY <1>1, <1>2 DEF EntradaDe, EsSuya
<1>3. ASSUME NEW k \in DOMAIN lista, Entrada(lista[k]),
             lista' = [lista EXCEPT ![k].libre = @ + cuanto]
      PROVE  EntradaDe(p, n)'
  <2> DEFINE e == [lista[k] EXCEPT !.libre = lista[k].libre + cuanto]
  <2>1. lista[k] \in TipoEntrada
    BY EnLista DEF TiposHeap
  <2>2. lista' = [lista EXCEPT ![k] = e]
    BY <1>3
  <2>3. e.pid = lista[k].pid /\ e.pagina = lista[k].pagina
    BY <2>1 DEF TipoEntrada
  <2> HIDE DEF e
  <2>4. /\ DOMAIN lista' = DOMAIN lista /\ lista'[k] = e
        /\ \A j \in DOMAIN lista \ {k} : lista'[j] = lista[j]
    BY <2>2
  <2>5. \A j \in DOMAIN lista : EsSuya(j, p, n)' <=> EsSuya(j, p, n)
    BY <2>3, <2>4 DEF EsSuya
  <2>6. i # k
    BY <1>1, <1>3 DEF Entrada, EsSuya
  <2>7. lista'[i].libre + EnCurso(p, n - 1)' = LibreEn(paginas'[p][n])
    BY <1>1, <2>4, <2>6
  <2> QED
    BY <1>1, <2>4, <2>5, <2>7 DEF EntradaDe
<1> QED
  BY <1>2, <1>3 DEF SumarLibre

\* The pages that are counted are there.
LEMMA PaginaContada ==
  ASSUME IInvHeap, NEW p \in Pids, proceso[p] \in Vivos, NEW n \in 1..contable[p].paginas
  PROVE  /\ n \in Nat /\ n - 1 \in Nat /\ n \in DOMAIN paginas[p]
         /\ paginas[p][n] \in TipoPagina /\ LibreEn(paginas[p][n]) \in Int
<1>1. /\ contable[p].paginas \in Nat /\ paginas[p] \in Seq(TipoPagina)
  BY DEF IInvHeap, TiposHeap, TipoCuenta
<1>2. contable[p].paginas <= Len(paginas[p]) /\ Len(paginas[p]) \in Nat
  BY <1>1 DEF IInvHeap, PaginasContadas
<1>3. n \in 1..Len(paginas[p]) /\ n \in Nat /\ n - 1 \in Nat
  BY <1>1, <1>2
<1>4. paginas[p][n] \in TipoPagina
  BY ONLY <1>1, <1>3, ElementOfSeq
<1> QED
  BY <1>1, <1>3, <1>4, LibrePorBloques

\* What touches no page and no entry, and leaves as much in progress.
LEMMA EntradasSiguen ==
  ASSUME IInvHeap, IInvEntradas, [Next]_vars, UNCHANGED <<lista, paginas>>,
         \A p \in Pids : contable'[p].paginas = contable[p].paginas,
         \A p \in Pids, n \in Nat : EnCurso(p, n)' = EnCurso(p, n),
         NuevaPagina'
  PROVE  IInvEntradas'
<1>1. \A p \in Pids : proceso'[p] \in Vivos => proceso[p] \in Vivos
  BY NadieVuelve DEF IInvHeap
<1>2. EntradasUnicas'
  <2>1. ASSUME NEW p \in Pids, proceso'[p] \in Vivos, NEW n \in 1..contable'[p].paginas
        PROVE  EntradaDe(p, n)'
    <3>1. proceso[p] \in Vivos /\ n \in 1..contable[p].paginas
      BY <1>1, <2>1
    <3>2. n - 1 \in Nat /\ EntradaDe(p, n)
      BY <3>1, PaginaContada DEF IInvEntradas, EntradasUnicas
    <3>3. EnCurso(p, n - 1)' = EnCurso(p, n - 1)
      BY <3>2
    <3> QED
      BY <3>2, <3>3 DEF EntradaDe, EsSuya
  <2> QED
    BY <2>1 DEF EntradasUnicas
<1>3. EntradasAdmitidas'
  <2>1. \A i \in DOMAIN lista : lista[i].pid \in Pids
    BY EnLista DEF IInvHeap, TiposHeap
  <2> QED
    BY <1>1, <2>1 DEF IInvEntradas, EntradasAdmitidas
<1> QED
  BY <1>2, <1>3 DEF IInvEntradas

\* Steps of the main thread that look at the list or at a page.
LEMMA MirarEntradas ==
  ASSUME IInvHeap, IInvEntradas, [Next]_vars, UNCHANGED <<lista, paginas>>,
         \A p \in Pids : contable'[p].paginas = contable[p].paginas,
         principal.paso \notin {"compactar", "partir", "liberar"},
         \/ principal'.paso \notin {"compactar", "partir", "liberar", "agregar"}
         \/ principal'.paso = "compactar" /\ principal'.juntados = 0
  PROVE  IInvEntradas'
<1>1. \A p \in Pids, n \in Nat : EnCurso(p, n) = 0 /\ EnCurso(p, n)' = 0
  <2>1. ASSUME principal'.paso = "compactar", principal'.juntados = 0
        PROVE  \A p, n : EnCurso(p, n)' = 0
    BY <2>1 DEF EnCurso
  <2> QED
    BY <2>1, EnCursoNada, EnCursoNadaDespues
<1>2. NuevaPagina'
  BY DEF NuevaPagina
<1> QED
  BY <1>1, <1>2, EntradasSiguen

\* Steps of the thread that ends processes.
LEMMA FinEntradas ==
  ASSUME IInvHeap, IInvEntradas, [Next]_vars,
         UNCHANGED <<lista, paginas, contable, principal>>
  PROVE  IInvEntradas'
<1>1. \A p \in Pids, n \in Nat : EnCurso(p, n)' = EnCurso(p, n)
  BY DEF EnCurso
<1>2. NuevaPagina'
  BY DEF IInvEntradas, NuevaPagina, Actual
<1> QED
  BY <1>1, <1>2, EntradasSiguen

\* What the main thread adds to an entry.
LEMMA SumarEntradas ==
  ASSUME IInvHeap, IInvEntradas, [Next]_vars, NEW cuanto \in Int, SumarLibre(cuanto),
         UNCHANGED <<paginas, contable>>, principal'.paso # "agregar",
         \A p \in Pids, n \in Nat :
           EnCurso(p, n)' = EnCurso(p, n)
             - (IF principal.pid = p /\ principal.pagina = n THEN cuanto ELSE 0)
  PROVE  IInvEntradas'
<1>1. TiposHeap /\ \A p \in Pids : proceso'[p] \in Vivos => proceso[p] \in Vivos
  BY NadieVuelve DEF IInvHeap
<1>2. EntradasUnicas'
  <2>1. ASSUME NEW p \in Pids, proceso'[p] \in Vivos, NEW n \in 1..contable'[p].paginas
        PROVE  EntradaDe(p, n)'
    <3>1. proceso[p] \in Vivos /\ n \in 1..contable[p].paginas
      BY <1>1, <2>1
    <3>2. n - 1 \in Nat /\ n \in DOMAIN paginas[p] /\ EntradaDe(p, n)
      BY <3>1, PaginaContada DEF IInvEntradas, EntradasUnicas
    <3>3. EnCurso(p, n - 1)' = EnCurso(p, n - 1)
            - (IF principal.pid = p /\ principal.pagina = n - 1 THEN cuanto ELSE 0)
      BY <3>2
    <3>4. EnCurso(p, n - 1) \in Int
      BY <1>1, EnCursoEntero
    <3>5. CASE principal.pid = p /\ principal.pagina = n - 1
      <4>1. EnCurso(p, n - 1)' = EnCurso(p, n - 1) - cuanto
        BY <3>3, <3>5
      <4> QED
        BY <1>1, <3>2, <3>5, <4>1, EntradaSumada
    <3>6. CASE principal.pid # p \/ principal.pagina # n - 1
      <4>1. EnCurso(p, n - 1)' = EnCurso(p, n - 1)
        BY <3>3, <3>4, <3>6
      <4> QED
        BY <1>1, <3>2, <3>6, <4>1, EntradaDeOtraSigue
    <3> QED
      BY <3>5, <3>6
  <2> QED
    BY <2>1 DEF EntradasUnicas
<1>3. EntradasAdmitidas'
  <2>1. ASSUME NEW i \in DOMAIN lista', proceso'[lista'[i].pid] \in Vivos
        PROVE  lista'[i].pagina < contable'[lista'[i].pid].paginas
    <3>1. PICK j \in DOMAIN lista :
            lista'[i].pid = lista[j].pid /\ lista'[i].pagina = lista[j].pagina
      BY <1>1, SumarLibreEntradas DEF TiposHeap
    <3>2. lista[j].pid \in Pids
      BY <1>1, EnLista DEF TiposHeap
    <3> QED
      BY <1>1, <2>1, <3>1, <3>2 DEF IInvEntradas, EntradasAdmitidas
  <2> QED
    BY <2>1 DEF EntradasAdmitidas
<1>4. NuevaPagina'
  BY DEF NuevaPagina
<1> QED
  BY <1>2, <1>3, <1>4 DEF IInvEntradas

\* A page that changes by d, with d more in progress.
LEMMA CambioEntradas ==
  ASSUME IInvHeap, IInvEntradas, [Next]_vars, UNCHANGED lista,
         NEW p \in Pids, NEW n \in DOMAIN paginas[p], NEW d \in Int,
         LibreEn(paginas'[p][n]) = LibreEn(paginas[p][n]) + d,
         EnCurso(p, n - 1)' = EnCurso(p, n - 1) + d,
         \A q \in Pids : \A m \in DOMAIN paginas[q] :
           q # p \/ m # n =>
             paginas'[q][m] = paginas[q][m] /\ EnCurso(q, m - 1)' = EnCurso(q, m - 1),
         \A q \in Pids : contable'[q].paginas = contable[q].paginas,
         principal'.paso # "agregar"
  PROVE  IInvEntradas'
<1>1. TiposHeap /\ \A q \in Pids : proceso'[q] \in Vivos => proceso[q] \in Vivos
  BY NadieVuelve DEF IInvHeap
<1>2. EntradasUnicas'
  <2>1. ASSUME NEW q \in Pids, proceso'[q] \in Vivos, NEW m \in 1..contable'[q].paginas
        PROVE  EntradaDe(q, m)'
    <3>1. proceso[q] \in Vivos /\ m \in 1..contable[q].paginas
      BY <1>1, <2>1
    <3>2. /\ m \in DOMAIN paginas[q] /\ EntradaDe(q, m) /\ LibreEn(paginas[q][m]) \in Int
      BY <3>1, PaginaContada DEF IInvEntradas, EntradasUnicas
    <3>3. CASE q = p /\ m = n
      BY <1>1, <3>2, <3>3, EntradaAcompania
    <3>4. CASE q # p \/ m # n
      <4>1. paginas'[q][m] = paginas[q][m] /\ EnCurso(q, m - 1)' = EnCurso(q, m - 1)
        BY <3>2, <3>4
      <4> QED
        BY <3>2, <4>1 DEF EntradaDe, EsSuya
    <3> QED
      BY <3>3, <3>4
  <2> QED
    BY <2>1 DEF EntradasUnicas
<1>3. EntradasAdmitidas'
  <2>1. \A i \in DOMAIN lista : lista[i].pid \in Pids
    BY <1>1, EnLista DEF TiposHeap
  <2> QED
    BY <1>1, <2>1 DEF IInvEntradas, EntradasAdmitidas
<1>4. NuevaPagina'
  BY DEF NuevaPagina
<1> QED
  BY <1>2, <1>3, <1>4 DEF IInvEntradas

LEMMA SumarJuntadosEntradas ==
  ASSUME IInvHeap, IInvEntradas, SumarJuntados
  PROVE  IInvEntradas'
<1>1. /\ principal.paso = "compactar" /\ SumarLibre(principal.juntados)
      /\ UNCHANGED <<paginas, contable>> /\ [Next]_vars
      /\ principal' = [principal EXCEPT !.paso = "buscar", !.offset = 0, !.previo = 0,
                                        !.juntados = 0]
  BY DEF SumarJuntados, En, Next, Alocar
<1>2. principal \in TipoPrincipal /\ principal.juntados \in Nat
  BY DEF IInvHeap, TiposHeap, TipoPrincipal
<1>3. principal'.paso = "buscar" /\ principal.juntados \in Int
  BY <1>1, <1>2 DEF TipoPrincipal
<1>4. \A p, n : EnCurso(p, n)' = 0
  BY <1>3, EnCursoNadaDespues
<1>5. ASSUME NEW p \in Pids, NEW n \in Nat
      PROVE  EnCurso(p, n)' = EnCurso(p, n)
        - (IF principal.pid = p /\ principal.pagina = n THEN principal.juntados ELSE 0)
  <2>1. EnCurso(p, n) = IF principal.pid = p /\ principal.pagina = n
                        THEN principal.juntados ELSE 0
    BY <1>1 DEF EnCurso
  <2> QED
    BY <1>3, <1>4, <2>1
<1>6. principal'.paso # "agregar"
  BY <1>3
<1>7. UNCHANGED contable
  BY <1>1
<1> QED
  BY <1>1, <1>3, <1>5, <1>6, SumarEntradas

LEMMA SumarLiberadoEntradas ==
  ASSUME IInvHeap, IInvEntradas, SumarLiberado
  PROVE  IInvEntradas'
<1>1. /\ principal.paso = "liberar" /\ SumarLibre(principal.tam) /\ principal' = Ocioso
      /\ UNCHANGED <<paginas, contable>> /\ [Next]_vars
  BY DEF SumarLiberado, En, Next, Liberar
<1>2. principal.tam \in Int /\ principal'.paso = "libre"
  BY <1>1 DEF IInvHeap, TiposHeap, TipoPrincipal, Ocioso
<1>3. \A p, n : EnCurso(p, n)' = 0
  BY <1>2, EnCursoNadaDespues
<1>4. ASSUME NEW p \in Pids, NEW n \in Nat
      PROVE  EnCurso(p, n)' = EnCurso(p, n)
        - (IF principal.pid = p /\ principal.pagina = n THEN principal.tam ELSE 0)
  <2>1. EnCurso(p, n) = IF principal.pid = p /\ principal.pagina = n
                        THEN principal.tam ELSE 0
    BY <1>1 DEF EnCurso
  <2> QED
    BY <1>2, <1>3, <2>1
<1>5. principal'.paso # "agregar"
  BY <1>2
<1> QED
  BY <1>1, <1>2, <1>4, <1>5, SumarEntradas

LEMMA DescontarEntradas ==
  ASSUME IInvHeap, IInvEntradas, Descontar
  PROVE  IInvEntradas'
<1>1. /\ principal.paso = "descontar" /\ SumarLibre(-Descuento)
      /\ UNCHANGED <<paginas, contable>> /\ [Next]_vars
      /\ principal' = [principal EXCEPT !.paso = "partir"]
  BY DEF Descontar, En, Next, Alocar
<1>2. principal \in TipoPrincipal /\ principal.tam \in Nat /\ TamMeta \in Nat
  BY DEF IInvHeap, TiposHeap, TipoPrincipal, HeapAssumption
<1>3. Descuento \in Int /\ -Descuento \in Int /\ Descuento = principal.tam + TamMeta
  BY <1>2 DEF Descuento
<1>4. /\ principal'.paso = "partir" /\ principal'.pid = principal.pid
      /\ principal'.pagina = principal.pagina /\ principal'.tam = principal.tam
  BY <1>1, <1>2 DEF TipoPrincipal
<1>5. \A p, n : EnCurso(p, n) = 0
  BY <1>1, EnCursoNada
<1>6. ASSUME NEW p \in Pids, NEW n \in Nat
      PROVE  EnCurso(p, n)' = EnCurso(p, n)
        - (IF principal.pid = p /\ principal.pagina = n THEN -Descuento ELSE 0)
  <2>1. EnCurso(p, n)' = IF principal.pid = p /\ principal.pagina = n
                         THEN principal.tam + TamMeta ELSE 0
    BY <1>4 DEF EnCurso
  <2> QED
    BY <1>2, <1>3, <1>5, <2>1
<1>7. principal'.paso # "agregar"
  BY <1>4
<1> QED
  BY <1>1, <1>3, <1>6, <1>7, SumarEntradas

LEMMA CompactarEntradas ==
  ASSUME IInvHeap, IInvEntradas, Compactar, NEW p \in Pids, p = principal.pid,
         NEW n, n = principal.pagina + 1
  PROVE  IInvEntradas'
<1> DEFINE b == Actual
           h == principal.offset
           k == Siguiente(b, h)
           c == Juntar(b, h)
<1>1. /\ principal.paso = "compactar" /\ QuedaOtro /\ UNCHANGED <<lista, contable>>
      /\ [Next]_vars
  BY DEF Compactar, En, Next, Alocar
<1>2. h \in Cabezas(b) /\ k \in Cabezas(b)
  BY <1>1, HayOtro
<1>3. /\ principal \in TipoPrincipal /\ n \in DOMAIN paginas[p]
      /\ b \in TipoPagina /\ Teselada(b) /\ b = paginas[p][n] /\ principal.pagina \in Nat
      /\ principal.juntados \in Nat /\ TamMeta \in Nat
  BY <1>1, EnLaPagina DEF PasosEnPagina, Actual, HeapAssumption
<1>4. principal.pagina = n - 1
  BY <1>3
<1>5. \A q \in Pids : \A m \in DOMAIN paginas[q] : m \in Nat
  BY DEF IInvHeap, TiposHeap
<1>6. CASE Libres(b, {h, k})
  <2>1. /\ paginas' = [paginas EXCEPT ![p][n] = c]
        /\ principal' = [principal EXCEPT !.previo = c[h].tam, !.juntados = @ + TamMeta]
    BY <1>2, <1>6 DEF Compactar, CambiarPagina
  <2>2. c \in TipoPagina /\ LibreEn(c) = LibreEn(b) + TamMeta
    <3>1. ~b[h].usado /\ ~b[k].usado
      BY <1>6 DEF Libres
    <3> QED
      BY <1>2, <1>3, <3>1, LibreAlJuntar
  <2> HIDE DEF b, h, k, c
  <2>3. /\ paginas'[p][n] = c
        /\ \A q \in Pids : \A m \in DOMAIN paginas[q] :
             q # p \/ m # n => paginas'[q][m] = paginas[q][m]
    <3>1. paginas \in [Pids -> Seq(TipoPagina)]
      BY DEF IInvHeap, TiposHeap
    <3> QED
      BY ONLY <1>3, <2>1, <2>2, <3>1, UnaPagina
  <2>4. /\ principal'.paso = "compactar" /\ principal'.pid = p
        /\ principal'.pagina = principal.pagina
        /\ principal'.juntados = principal.juntados + TamMeta
    BY <1>1, <1>3, <2>1 DEF TipoPrincipal
  <2>5. EnCurso(p, n - 1)' = EnCurso(p, n - 1) + TamMeta
    BY <1>1, <1>4, <2>4 DEF EnCurso
  <2>6. ASSUME NEW q \in Pids, NEW m \in DOMAIN paginas[q], q # p \/ m # n
        PROVE  paginas'[q][m] = paginas[q][m] /\ EnCurso(q, m - 1)' = EnCurso(q, m - 1)
    <3>1. principal.pid # q \/ principal.pagina # m - 1
      BY <1>3, <1>5, <2>6
    <3>2. EnCurso(q, m - 1) = 0 /\ EnCurso(q, m - 1)' = 0
      BY <2>4, <3>1 DEF EnCurso
    <3> QED
      BY <2>3, <2>6, <3>2
  <2>7. LibreEn(paginas'[p][n]) = LibreEn(paginas[p][n]) + TamMeta
    BY <1>3, <2>2, <2>3
  <2>8. TamMeta \in Int /\ principal'.paso # "agregar"
    BY <1>3, <2>4
  <2> QED
    BY <1>1, <1>3, <2>5, <2>6, <2>7, <2>8, CambioEntradas
<1>7. CASE ~Libres(b, {h, k})
  <2>1. /\ UNCHANGED paginas
        /\ principal' = [principal EXCEPT !.offset = k, !.previo = b[k].tam]
    BY <1>2, <1>7 DEF Compactar
  <2>2. /\ principal'.paso = "compactar" /\ principal'.pid = principal.pid
        /\ principal'.pagina = principal.pagina /\ principal'.juntados = principal.juntados
    BY <1>1, <1>3, <2>1 DEF TipoPrincipal
  <2>3. \A q \in Pids, m \in Nat : EnCurso(q, m)' = EnCurso(q, m)
    BY <1>1, <2>2 DEF EnCurso
  <2>4. NuevaPagina'
    BY <2>2 DEF NuevaPagina
  <2> QED
    BY <1>1, <2>1, <2>3, <2>4, EntradasSiguen
<1> QED
  BY <1>6, <1>7

LEMMA PartirBloqueEntradas ==
  ASSUME IInvHeap, IInvEntradas, PartirBloque, NEW p \in Pids, p = principal.pid,
         NEW n, n = principal.pagina + 1
  PROVE  IInvEntradas'
<1> DEFINE b == Actual
           h == principal.offset
           tam == principal.tam
           c == Partir(b, h, tam)
           d == -(tam + TamMeta)
<1>1. /\ principal.paso = "partir" /\ paginas' = [paginas EXCEPT ![p][n] = c]
      /\ principal' = Ocioso /\ UNCHANGED lista /\ Contar(p, 1, tam) /\ [Next]_vars
  BY DEF PartirBloque, CambiarPagina, En, Next, Alocar
<1>2. /\ n \in DOMAIN paginas[p] /\ b \in TipoPagina /\ Teselada(b)
      /\ tam \in Nat /\ b = paginas[p][n] /\ principal.pagina \in Nat /\ TamMeta \in Nat
  BY <1>1, EnLaPagina DEF PasosEnPagina, Actual, HeapAssumption
<1>3. h \in Cabezas(b) /\ ~b[h].usado /\ b[h].tam >= tam + TamMeta
  BY <1>1 DEF IInvHeap, LugarEnPagina
<1>4. c \in TipoPagina /\ LibreEn(c) = LibreEn(b) - (tam + TamMeta)
  BY <1>2, <1>3, LibreAlPartir
<1>5. LibreEn(b) \in Int
  BY <1>2, LibrePorBloques
<1>6. principal.pagina = n - 1
  BY <1>2
<1>7. \A q \in Pids : contable'[q].paginas = contable[q].paginas
  <2>1. 1 \in Int /\ tam \in Int
    BY <1>2
  <2> HIDE DEF tam
  <2> QED
    BY <1>1, <2>1, ContarConserva
<1>8. \A q \in Pids : \A m \in DOMAIN paginas[q] : m \in Nat
  BY DEF IInvHeap, TiposHeap
<1> HIDE DEF b, c
<1>9. /\ paginas'[p][n] = c
      /\ \A q \in Pids : \A m \in DOMAIN paginas[q] :
           q # p \/ m # n => paginas'[q][m] = paginas[q][m]
  <2>1. paginas \in [Pids -> Seq(TipoPagina)]
    BY DEF IInvHeap, TiposHeap
  <2> QED
    BY ONLY <1>1, <1>2, <1>4, <2>1, UnaPagina
<1>10. principal'.paso = "libre"
  BY <1>1 DEF Ocioso
<1>11. \A q, m : EnCurso(q, m)' = 0
  BY <1>10, EnCursoNadaDespues
<1>12. EnCurso(p, n - 1) = tam + TamMeta
  BY <1>1, <1>6 DEF EnCurso
<1>13. d \in Int /\ EnCurso(p, n - 1)' = EnCurso(p, n - 1) + d
  BY <1>2, <1>11, <1>12
<1>14. LibreEn(paginas'[p][n]) = LibreEn(paginas[p][n]) + d
  <2>1. LibreEn(c) = LibreEn(b) + d
    BY <1>2, <1>4, <1>5
  <2> QED
    BY <1>2, <1>9, <2>1
<1>15. ASSUME NEW q \in Pids, NEW m \in DOMAIN paginas[q], q # p \/ m # n
       PROVE  paginas'[q][m] = paginas[q][m] /\ EnCurso(q, m - 1)' = EnCurso(q, m - 1)
  <2>1. principal.pid # q \/ principal.pagina # m - 1
    BY <1>2, <1>8, <1>15
  <2>2. EnCurso(q, m - 1) = 0
    BY <2>1 DEF EnCurso
  <2> QED
    BY <1>9, <1>11, <1>15, <2>2
<1>16. principal'.paso # "agregar"
  BY <1>10
<1> HIDE DEF d, tam, h
<1> QED
  BY <1>1, <1>2, <1>7, <1>13, <1>14, <1>15, <1>16, CambioEntradas

LEMMA LiberarBloqueEntradas ==
  ASSUME IInvHeap, IInvEntradas, NEW p \in Pids, NEW r \in punteros[p], LiberarBloque(p, r),
         NEW n, n = r.pagina + 1
  PROVE  IInvEntradas'
<1> DEFINE h == r.offset - TamMeta
           b == paginas[p][n]
           c == [b EXCEPT ![h].usado = FALSE]
           tam == b[h].tam
<1>1. /\ principal.paso = "libre" /\ UNCHANGED lista /\ Contar(p, -1, -tam) /\ [Next]_vars
      /\ paginas' = [paginas EXCEPT ![p][n] = c]
      /\ principal' = [Ocioso EXCEPT !.paso = "liberar", !.pid = p, !.pagina = r.pagina,
                                     !.tam = tam]
  BY DEF LiberarBloque, En, Next, Liberar
<1>2. /\ n \in DOMAIN paginas[p] /\ b \in TipoPagina /\ Teselada(b) /\ r.pagina \in Nat
      /\ h \in Cabezas(b) /\ b[h].usado
  BY PunteroEnPagina
<1>3. /\ c \in TipoPagina /\ Cabezas(c) = Cabezas(b) /\ Teselada(c)
      /\ \A g \in Cabezas(b) : Siguiente(c, g) = Siguiente(b, g)
      /\ \A g \in Offsets \ {h} : c[g] = b[g]
  BY <1>2, MismasCabezas
<1>4. ~c[h].usado /\ c[h].tam = tam /\ tam \in Nat
  <2>1. h \in Offsets /\ b \in [Offsets -> TipoBloque] /\ b[h] \in [usado : BOOLEAN, tam : Nat]
    BY <1>2, Metadata DEF Cabezas, TipoPagina
  <2> QED
    BY <2>1
<1>5. r.pagina = n - 1
  BY <1>2
<1> HIDE DEF h, b, c, tam
<1>6. LibreEn(c) = LibreEn(b) + tam
  BY <1>2, <1>3, <1>4, LibreAlLiberar DEF tam
<1>7. \A q \in Pids : contable'[q].paginas = contable[q].paginas
  <2>1. -1 \in Int /\ -tam \in Int
    BY <1>4
  <2> QED
    BY <1>1, <2>1, ContarConserva
<1>8. \A q \in Pids : \A m \in DOMAIN paginas[q] : m \in Nat
  BY DEF IInvHeap, TiposHeap
<1>9. /\ paginas'[p][n] = c
      /\ \A q \in Pids : \A m \in DOMAIN paginas[q] :
           q # p \/ m # n => paginas'[q][m] = paginas[q][m]
  <2>1. paginas \in [Pids -> Seq(TipoPagina)]
    BY DEF IInvHeap, TiposHeap
  <2> QED
    BY ONLY <1>1, <1>2, <1>3, <2>1, UnaPagina
<1>10. /\ principal'.paso = "liberar" /\ principal'.pid = p /\ principal'.pagina = r.pagina
       /\ principal'.tam = tam
  BY <1>1 DEF Ocioso
<1>11. \A q, m : EnCurso(q, m) = 0
  BY <1>1, EnCursoNada
<1>12. EnCurso(p, n - 1)' = EnCurso(p, n - 1) + tam
  <2>1. EnCurso(p, n - 1)' = tam
    BY <1>5, <1>10 DEF EnCurso
  <2> QED
    BY <1>4, <1>11, <2>1
<1>13. LibreEn(paginas'[p][n]) = LibreEn(paginas[p][n]) + tam
  BY <1>6, <1>9 DEF b
<1>14. ASSUME NEW q \in Pids, NEW m \in DOMAIN paginas[q], q # p \/ m # n
       PROVE  paginas'[q][m] = paginas[q][m] /\ EnCurso(q, m - 1)' = EnCurso(q, m - 1)
  <2>1. principal'.pid # q \/ principal'.pagina # m - 1
    BY <1>2, <1>8, <1>10, <1>14
  <2>2. EnCurso(q, m - 1)' = 0
    BY <2>1 DEF EnCurso
  <2> QED
    BY <1>9, <1>11, <1>14, <2>2
<1>15. principal'.paso # "agregar" /\ tam \in Int
  BY <1>4, <1>10
<1> QED
  BY <1>1, <1>2, <1>7, <1>12, <1>13, <1>14, <1>15, CambioEntradas

\* A new page is counted, and has its entry, one step later.
LEMMA PedirPaginaEntradas ==
  ASSUME IInvHeap, IInvEntradas, PedirPagina, NEW p \in Pids, p = principal.pid
  PROVE  IInvEntradas'
<1>1. /\ principal.paso = "pedirPagina" /\ UNCHANGED lista /\ [Next]_vars
      /\ TiposHeap /\ principal \in TipoPrincipal /\ proceso[p] = "activo"
      /\ contable[p].paginas \in Nat /\ paginas[p] \in Seq(TipoPagina)
      /\ paginas \in [Pids -> Seq(TipoPagina)]
  BY DEF PedirPagina, En, Next, Alocar, IInvHeap, TiposHeap, TipoCuenta
<1>2. \A q, m : EnCurso(q, m) = 0
  BY <1>1, EnCursoNada
<1>3. CASE UNCHANGED <<paginas, principal>> /\ UNCHANGED contable
  <2>1. \A q \in Pids, m \in Nat : EnCurso(q, m)' = EnCurso(q, m)
    BY <1>3 DEF EnCurso
  <2>2. NuevaPagina'
    BY <1>1, <1>3 DEF NuevaPagina
  <2> QED
    BY <1>1, <1>3, <2>1, <2>2, EntradasSiguen
<1>4. CASE Contar(p, 1, principal.tam) /\ principal' = Ocioso /\ UNCHANGED paginas
  <2>1. 1 \in Int /\ principal.tam \in Int
    BY <1>1 DEF TipoPrincipal
  <2>2. \A q \in Pids : contable'[q].paginas = contable[q].paginas
    BY <1>4, <2>1, ContarConserva
  <2>3. principal'.paso = "libre"
    BY <1>4 DEF Ocioso
  <2>4. \A q \in Pids, m \in Nat : EnCurso(q, m)' = EnCurso(q, m)
    BY <1>2, <2>3, EnCursoNadaDespues
  <2>5. NuevaPagina'
    BY <2>3 DEF NuevaPagina
  <2> QED
    BY <1>1, <1>4, <2>2, <2>4, <2>5, EntradasSiguen
<1>5. CASE /\ contable[p].paginas = Len(paginas[p]) /\ UNCHANGED <<proceso, contable>>
           /\ paginas' = [paginas EXCEPT ![p] = Append(paginas[p], PaginaNueva)]
           /\ principal' = [principal EXCEPT !.paso = "agregar", !.offset = 0,
                              !.pagina = contable[p].paginas, !.nueva = TRUE]
  <2>1. /\ paginas'[p] = Append(paginas[p], PaginaNueva)
        /\ \A q \in Pids \ {p} : paginas'[q] = paginas[q]
    BY <1>1, <1>5
  <2>2. /\ principal'.paso = "agregar" /\ principal'.pid = p
        /\ principal'.pagina = contable[p].paginas
    BY <1>1, <1>5 DEF TipoPrincipal
  <2>3. NuevaPagina'
    <3>1. paginas'[p][contable[p].paginas + 1] = PaginaNueva
      BY <1>1, <1>5, <2>1
    <3> QED
      BY <1>5, <2>2, <3>1 DEF NuevaPagina, Actual
  <2>4. ASSUME NEW q \in Pids, NEW m \in DOMAIN paginas[q]
        PROVE  paginas'[q][m] = paginas[q][m]
    <3>1. CASE q = p
      <4>1. m \in 1..Len(paginas[p])
        BY <1>1, <3>1
      <4> QED
        BY <1>1, <2>1, <3>1, <4>1
    <3> QED
      BY <2>1, <3>1
  <2>5. \A q, m : EnCurso(q, m)' = 0
    BY <2>2, EnCursoNadaDespues
  <2>6. EntradasUnicas'
    <3>1. ASSUME NEW q \in Pids, proceso'[q] \in Vivos, NEW m \in 1..contable'[q].paginas
          PROVE  EntradaDe(q, m)'
      <4>1. proceso[q] \in Vivos /\ m \in 1..contable[q].paginas
        BY <1>5, <3>1
      <4>2. m \in DOMAIN paginas[q] /\ EntradaDe(q, m)
        BY <4>1, PaginaContada DEF IInvEntradas, EntradasUnicas
      <4>3. /\ paginas'[q][m] = paginas[q][m]
            /\ EnCurso(q, m - 1) = 0 /\ EnCurso(q, m - 1)' = 0
        BY <1>2, <2>4, <2>5, <4>2
      <4> QED
        BY <1>1, <4>2, <4>3 DEF EntradaDe, EsSuya
    <3> QED
      BY <3>1 DEF EntradasUnicas
  <2>7. EntradasAdmitidas'
    BY <1>1, <1>5 DEF IInvEntradas, EntradasAdmitidas
  <2> QED
    BY <2>3, <2>6, <2>7 DEF IInvEntradas
<1> QED
  BY <1>3, <1>4, <1>5 DEF PedirPagina

\* The new entry is of the page that is counted with it, and the page is all free.
LEMMA AgregarEntradas ==
  ASSUME IInvHeap, IInvEntradas, AgregarEntrada, NEW p \in Pids, p = principal.pid,
         NEW n, n = contable[p].paginas + 1
  PROVE  IInvEntradas'
<1> DEFINE e == [pagina |-> principal.pagina, pid |-> principal.pid, libre |-> TamPagina - TamMeta]
<1>0. PICK l : l = Len(lista)
  OBVIOUS
<1>1. /\ principal.paso = "agregar" /\ lista' = Append(lista, e)
      /\ contable' = [contable EXCEPT ![p].paginas = @ + 1]
      /\ principal' = [principal EXCEPT !.paso = "descontar"]
      /\ UNCHANGED <<paginas, proceso>>
  BY DEF AgregarEntrada, En
<1>2. /\ TiposHeap /\ lista \in Seq(TipoEntrada) /\ contable \in [Pids -> TipoCuenta]
      /\ principal \in TipoPrincipal /\ proceso[p] = "activo"
  BY <1>1 DEF IInvHeap, TiposHeap
<1>3. /\ DOMAIN lista = 1..l /\ l \in Nat /\ DOMAIN lista' = 1..(l + 1)
      /\ lista'[l + 1] = e /\ \A i \in 1..l : lista'[i] = lista[i]
  BY <1>0, <1>1, <1>2
<1>4. contable[p].paginas \in Nat /\ n \in Nat
  BY <1>2 DEF TipoCuenta
<1>5. /\ contable'[p].paginas = n
      /\ \A q \in Pids \ {p} : contable'[q] = contable[q]
  <2> DEFINE x == [contable[p] EXCEPT !.paginas = @ + 1]
  <2>1. x.paginas = n /\ contable' = [contable EXCEPT ![p] = x]
    BY <1>1, <1>2 DEF TipoCuenta
  <2> HIDE DEF x
  <2> QED
    BY <1>2, <2>1
<1>6. /\ principal.pagina = n - 1 /\ paginas[p][n] = PaginaNueva
  <2>1. Actual = PaginaNueva /\ principal.pagina = contable[p].paginas
    BY <1>1 DEF IInvEntradas, NuevaPagina
  <2> QED
    BY <1>4, <2>1 DEF Actual
<1>7. principal'.paso = "descontar"
  BY <1>1, <1>2 DEF TipoPrincipal
<1>8. \A q, m : EnCurso(q, m) = 0 /\ EnCurso(q, m)' = 0
  BY <1>1, <1>7, EnCursoNada, EnCursoNadaDespues
<1>9. e.pid = p /\ e.pagina = n - 1 /\ e.libre = TamPagina - TamMeta
  BY <1>6
<1>10. \A i \in 1..l : lista[i].pid = p => lista[i].pagina < n - 1
  <2>1. ASSUME NEW i \in DOMAIN lista, lista[i].pid = p
        PROVE  lista[i].pagina < contable[p].paginas
    BY <1>2, <2>1 DEF IInvEntradas, EntradasAdmitidas, Vivos
  <2>2. contable[p].paginas = n - 1
    BY <1>4
  <2> QED
    BY <1>3, <2>1, <2>2
<1>11. \A i \in 1..l : lista[i].pagina \in Nat /\ lista[i].pid \in Pids
  BY <1>2, <1>3, EnLista
<1> HIDE DEF e
<1>12. EntradasUnicas'
  <2>1. EntradaDe(p, n)'
    <3>1. \A i \in 1..l : ~EsSuya(i, p, n)'
      BY <1>3, <1>4, <1>10, <1>11 DEF EsSuya
    <3>2. EsSuya(l + 1, p, n)' /\ l + 1 \in DOMAIN lista'
      BY <1>3, <1>9 DEF EsSuya
    <3>3. \A j \in DOMAIN lista' : EsSuya(j, p, n)' => j = l + 1
      BY <1>3, <3>1
    <3>4. TamPagina - TamMeta \in Int
      BY DEF HeapAssumption
    <3>5. lista'[l + 1].libre + EnCurso(p, n - 1)' = LibreEn(paginas'[p][n])
      <4>1. paginas'[p][n] = PaginaNueva
        BY <1>1, <1>6
      <4>2. lista'[l + 1].libre + EnCurso(p, n - 1)' = TamPagina - TamMeta
        BY <1>3, <1>8, <1>9, <3>4
      <4> QED
        BY <4>1, <4>2, LibreAlEmpezar
    <3> QED
      BY <3>2, <3>3, <3>5 DEF EntradaDe
  <2>2. ASSUME NEW q \in Pids, proceso[q] \in Vivos, NEW m \in 1..contable[q].paginas
        PROVE  EntradaDe(q, m)'
    <3>1. EntradaDe(q, m) /\ m \in Nat
      BY <2>2, PaginaContada DEF IInvEntradas, EntradasUnicas
    <3>2. PICK i \in 1..l :
            /\ EsSuya(i, q, m) /\ \A j \in 1..l : EsSuya(j, q, m) => j = i
            /\ lista[i].libre + EnCurso(q, m - 1) = LibreEn(paginas[q][m])
      BY <1>3, <3>1 DEF EntradaDe
    <3>3. ~EsSuya(l + 1, q, m)'
      <4>1. q = p => m - 1 # n - 1
        BY <1>4, <2>2, <3>1
      <4> QED
        BY <1>3, <1>9, <4>1 DEF EsSuya
    <3>4. \A j \in 1..l : EsSuya(j, q, m)' <=> EsSuya(j, q, m)
      BY <1>3 DEF EsSuya
    <3>5. lista'[i].libre + EnCurso(q, m - 1)' = LibreEn(paginas'[q][m])
      BY <1>1, <1>3, <1>8, <3>2
    <3>6. i \in DOMAIN lista' /\ EsSuya(i, q, m)' /\ \A j \in DOMAIN lista' : EsSuya(j, q, m)' => j = i
      BY <1>3, <3>2, <3>3, <3>4
    <3> QED
      BY <3>5, <3>6 DEF EntradaDe
  <2>3. ASSUME NEW q \in Pids, NEW m \in 1..contable'[q].paginas, proceso'[q] \in Vivos
        PROVE  EntradaDe(q, m)'
    <3>1. CASE q = p /\ m = n
      BY <2>1, <3>1
    <3>2. CASE q # p \/ m # n
      <4>1. m \in 1..contable[q].paginas
        BY <1>4, <1>5, <2>3, <3>2
      <4> QED
        BY <1>1, <2>2, <2>3, <4>1
    <3> QED
      BY <3>1, <3>2
  <2> QED
    BY <2>3 DEF EntradasUnicas
<1>13. EntradasAdmitidas'
  <2>1. ASSUME NEW i \in DOMAIN lista', proceso'[lista'[i].pid] \in Vivos
        PROVE  lista'[i].pagina < contable'[lista'[i].pid].paginas
    <3>1. CASE i = l + 1
      <4>1. lista'[i] = e
        BY ONLY <1>3, <3>1
      <4>2. n - 1 < n
        BY ONLY <1>4
      <4> QED
        BY ONLY <1>5, <1>9, <4>1, <4>2
    <3>2. CASE i \in 1..l
      <4>1. lista[i].pagina < contable[lista[i].pid].paginas
        BY <1>1, <1>3, <2>1, <3>2 DEF IInvEntradas, EntradasAdmitidas
      <4>2. CASE lista[i].pid = p
        BY <1>3, <1>4, <1>5, <1>11, <3>2, <4>1, <4>2, SMTT(30)
      <4>3. CASE lista[i].pid # p
        BY <1>3, <1>5, <1>11, <3>2, <4>1, <4>3
      <4> QED
        BY <4>2, <4>3
    <3> QED
      BY <1>3, <2>1, <3>1, <3>2
  <2> QED
    BY <2>1 DEF EntradasAdmitidas
<1>14. NuevaPagina'
  BY <1>7 DEF NuevaPagina
<1> QED
  BY <1>12, <1>13, <1>14 DEF IInvEntradas

\* The pages that Memoria frees are of who is alive no more.
LEMMA LiberarRecursosEntradas ==
  ASSUME IInvHeap, IInvEntradas, NEW p \in Pids, LiberarRecursos(p)
  PROVE  IInvEntradas'
<1>1. /\ UNCHANGED <<lista, contable, principal>> /\ principal.paso \notin ConMutexMemoria
      /\ proceso' = [proceso EXCEPT ![p] = "terminando"]
      /\ paginas' = [paginas EXCEPT ![p] = <<>>]
  BY DEF LiberarRecursos
<1>2. /\ proceso'[p] \notin Vivos
      /\ \A q \in Pids \ {p} : proceso'[q] = proceso[q] /\ paginas'[q] = paginas[q]
  BY <1>1 DEF IInvHeap, TiposHeap, Vivos
<1>3. EntradasUnicas'
  <2>1. ASSUME NEW q \in Pids, proceso'[q] \in Vivos, NEW m \in 1..contable'[q].paginas
        PROVE  EntradaDe(q, m)'
    <3>1. q # p /\ proceso[q] \in Vivos /\ m \in 1..contable[q].paginas
      BY <1>1, <1>2, <2>1
    <3>2. EntradaDe(q, m) /\ paginas'[q] = paginas[q]
      BY <1>2, <3>1 DEF IInvEntradas, EntradasUnicas
    <3>3. EnCurso(q, m - 1)' = EnCurso(q, m - 1)
      BY <1>1 DEF EnCurso
    <3> QED
      BY <1>1, <3>2, <3>3 DEF EntradaDe, EsSuya
  <2> QED
    BY <2>1 DEF EntradasUnicas
<1>4. EntradasAdmitidas'
  <2>1. \A i \in DOMAIN lista : lista[i].pid \in Pids
    BY EnLista DEF IInvHeap, TiposHeap
  <2> QED
    BY <1>1, <1>2, <2>1 DEF IInvEntradas, EntradasAdmitidas
<1>5. NuevaPagina'
  BY <1>1 DEF NuevaPagina, ConMutexMemoria
<1> QED
  BY <1>3, <1>4, <1>5 DEF IInvEntradas

\* The thread that ends a process takes entries of that process alone.
LEMMA DestruirEntradaEntradas ==
  ASSUME IInvHeap, IInvEntradas, DestruirEntrada
  PROVE  IInvEntradas'
<1>1. /\ UNCHANGED <<paginas, contable, proceso, principal>> /\ [Next]_vars
      /\ fin.paso # "libre" /\ fin.indice < Len(lista)
      /\ lista' = IF lista[fin.indice + 1].pid = fin.pid
                  THEN RemoveAt(lista, fin.indice + 1) ELSE lista
  BY DEF DestruirEntrada, Next, Fin
<1>2. /\ TiposHeap /\ lista \in Seq(TipoEntrada) /\ fin \in TipoFin
      /\ proceso[fin.pid] = "terminando"
  BY <1>1 DEF IInvHeap, TiposHeap
<1>3. CASE UNCHANGED lista
  BY <1>1, <1>3, FinEntradas
<1>4. CASE lista[fin.indice + 1].pid = fin.pid
  <2>1. PICK k : k = fin.indice + 1
    OBVIOUS
  <2>2. PICK t : t = Len(lista)
    OBVIOUS
  <2>3. /\ k \in 1..t /\ t \in Nat /\ DOMAIN lista = 1..t
        /\ lista[k].pid = fin.pid /\ proceso[lista[k].pid] \notin Vivos
    BY <1>1, <1>2, <1>4, <2>1, <2>2 DEF TipoFin, Vivos
  <2>4. lista' = RemoveAt(lista, k)
    BY <1>1, <1>4, <2>1
  <2>5. /\ DOMAIN lista' = 1..(t - 1)
        /\ \A j \in 1..(t - 1) : lista'[j] = IF j < k THEN lista[j] ELSE lista[j + 1]
    <3>1. k \in 1..Len(lista)
      BY <2>2, <2>3
    <3>2. lista' \in Seq(TipoEntrada) /\ Len(lista') = t - 1
      BY <1>2, <2>2, <2>4, <3>1, QuitarLugar
    <3>3. \A j \in 1..(t - 1) : lista'[j] = IF j < k THEN lista[j] ELSE lista[j + 1]
      BY <1>2, <2>2, <2>4, <3>1, QuedanEnOrden
    <3> QED
      BY <3>2, <3>3
  <2>6. ASSUME NEW p \in Pids, proceso[p] \in Vivos, NEW n \in 1..contable[p].paginas
        PROVE  EntradaDe(p, n)'
    <3>1. EntradaDe(p, n)
      BY <2>6 DEF IInvEntradas, EntradasUnicas
    <3>2. PICK i \in 1..t :
            /\ EsSuya(i, p, n) /\ \A j \in 1..t : EsSuya(j, p, n) => j = i
            /\ lista[i].libre + EnCurso(p, n - 1) = LibreEn(paginas[p][n])
      BY <2>3, <3>1 DEF EntradaDe
    <3>3. i # k
      BY <2>3, <2>6, <3>2 DEF EsSuya
    <3>4. PICK c : c = IF i < k THEN i ELSE i - 1
      OBVIOUS
    <3>5. c \in 1..(t - 1) /\ lista'[c] = lista[i]
      <4>1. CASE i < k
        BY <2>3, <2>5, <3>4, <4>1
      <4>2. CASE i > k
        <5>1. c = i - 1 /\ c \in 1..(t - 1) /\ ~(c < k) /\ c + 1 = i
          BY <2>3, <3>4, <4>2
        <5> QED
          BY <2>5, <5>1
      <4> QED
        BY <2>3, <3>3, <4>1, <4>2
    <3>6. \A j \in 1..(t - 1) : EsSuya(j, p, n)' => j = c
      <4>1. ASSUME NEW j \in 1..(t - 1), EsSuya(j, p, n)' PROVE j = c
        <5>1. CASE j < k
          <6>1. j \in 1..t /\ EsSuya(j, p, n)
            BY <2>3, <2>5, <4>1, <5>1 DEF EsSuya
          <6> QED
            BY <3>2, <3>4, <5>1, <6>1
        <5>2. CASE ~(j < k)
          <6>1. j + 1 \in 1..t /\ EsSuya(j + 1, p, n)
            BY <2>3, <2>5, <4>1, <5>2 DEF EsSuya
          <6>2. j + 1 = i
            BY <3>2, <6>1
          <6> QED
            BY <2>3, <3>4, <5>2, <6>2
        <5> QED
          BY <5>1, <5>2
      <4> QED
        BY <4>1
    <3>7. EnCurso(p, n - 1)' = EnCurso(p, n - 1)
      BY <1>1 DEF EnCurso
    <3>8. lista'[c].libre + EnCurso(p, n - 1)' = LibreEn(paginas'[p][n])
      BY <1>1, <3>2, <3>5, <3>7
    <3>9. c \in DOMAIN lista' /\ EsSuya(c, p, n)'
      BY <2>5, <3>2, <3>5, <3>4 DEF EsSuya
    <3> QED
      BY <2>5, <3>6, <3>8, <3>9 DEF EntradaDe
  <2>7. EntradasAdmitidas'
    <3>1. ASSUME NEW i \in DOMAIN lista', proceso'[lista'[i].pid] \in Vivos
          PROVE  lista'[i].pagina < contable'[lista'[i].pid].paginas
      <4>1. PICK j \in DOMAIN lista : lista'[i] = lista[j]
        <5>1. i \in 1..(t - 1) /\ i \in 1..t /\ i + 1 \in 1..t
          BY <2>3, <2>5
        <5> QED
          BY <2>3, <2>5, <5>1
      <4> QED
        BY <1>1, <3>1, <4>1 DEF IInvEntradas, EntradasAdmitidas
    <3> QED
      BY <3>1 DEF EntradasAdmitidas
  <2>8. EntradasUnicas'
    BY <1>1, <2>6 DEF EntradasUnicas
  <2>9. NuevaPagina'
    BY <1>1 DEF IInvEntradas, NuevaPagina, Actual
  <2> QED
    BY <2>7, <2>8, <2>9 DEF IInvEntradas
<1> QED
  BY <1>1, <1>3, <1>4

LEMMA EntradasInductivas ==
  ASSUME IInvHeap, IInvEntradas, [Next]_vars
  PROVE  IInvEntradas'
<1>1. /\ TiposHeap /\ principal \in TipoPrincipal
      /\ (principal.paso # "libre" => principal.pid \in Pids)
  BY DEF IInvHeap, TiposHeap
<1>2. CASE \E p \in Pids, tam \in Tamanios : PedirBloque(p, tam)
  <2>1. /\ UNCHANGED <<lista, paginas, contable>> /\ principal.paso = "libre"
        /\ principal'.paso \in {"libre", "mirar"}
    BY <1>2 DEF PedirBloque, En, Ocioso
  <2>2. \A p \in Pids : contable'[p].paginas = contable[p].paginas
    BY <2>1
  <2> QED
    BY <2>1, <2>2, MirarEntradas
<1>3. CASE MirarLista
  <2>1. /\ UNCHANGED <<lista, paginas, contable>> /\ principal.paso = "mirar"
        /\ principal'.paso \in {"tomar", "pedirPagina"}
    BY <1>1, <1>3 DEF MirarLista, En, TipoPrincipal
  <2>2. \A p \in Pids : contable'[p].paginas = contable[p].paginas
    BY <2>1
  <2> QED
    BY <2>1, <2>2, MirarEntradas
<1>4. CASE TomarEntrada
  <2>1. UNCHANGED <<lista, paginas, contable>> /\ principal.paso = "tomar"
    BY <1>4 DEF TomarEntrada, En
  <2>2. \/ principal'.paso \in {"tomar", "mirar"}
        \/ principal'.paso = "compactar" /\ principal'.juntados = 0
    BY <1>1, <1>4, <2>1 DEF TomarEntrada, TipoPrincipal
  <2>3. \A p \in Pids : contable'[p].paginas = contable[p].paginas
    BY <2>1
  <2> QED
    BY <2>1, <2>2, <2>3, MirarEntradas
<1>5. CASE Compactar
  <2>1. principal.pid \in Pids
    BY <1>1, <1>5 DEF Compactar, En
  <2>2. PICK p, n : p \in Pids /\ p = principal.pid /\ n = principal.pagina + 1
    BY <2>1
  <2> QED
    BY <1>5, <2>2, CompactarEntradas
<1>6. CASE SumarJuntados
  BY <1>6, SumarJuntadosEntradas
<1>7. CASE BuscarBloque
  <2>1. UNCHANGED <<lista, paginas, contable>> /\ principal.paso = "buscar"
    BY <1>7 DEF BuscarBloque, En
  <2>2. principal'.paso \in {"mirar", "buscar", "descontar"}
    BY <1>1, <1>7, <2>1 DEF BuscarBloque, TipoPrincipal
  <2>3. \A p \in Pids : contable'[p].paginas = contable[p].paginas
    BY <2>1
  <2> QED
    BY <2>1, <2>2, <2>3, MirarEntradas
<1>8. CASE PedirPagina
  <2>1. PICK p \in Pids : p = principal.pid
    BY <1>1, <1>8 DEF PedirPagina, En
  <2> QED
    BY <1>8, <2>1, PedirPaginaEntradas
<1>9. CASE AgregarEntrada
  <2>1. principal.pid \in Pids
    BY <1>1, <1>9 DEF AgregarEntrada, En
  <2>2. PICK p, n : p \in Pids /\ p = principal.pid /\ n = contable[p].paginas + 1
    BY <2>1
  <2> QED
    BY <1>9, <2>2, AgregarEntradas
<1>10. CASE Descontar
  BY <1>10, DescontarEntradas
<1>11. CASE PartirBloque
  <2>1. principal.pid \in Pids
    BY <1>1, <1>11 DEF PartirBloque, En
  <2>2. PICK p, n : p \in Pids /\ p = principal.pid /\ n = principal.pagina + 1
    BY <2>1
  <2> QED
    BY <1>11, <2>2, PartirBloqueEntradas
<1>12. CASE \E p \in Pids : \E r \in punteros[p] : LiberarBloque(p, r)
  <2>1. PICK p \in Pids : \E r \in punteros[p] : LiberarBloque(p, r)
    BY <1>12
  <2>2. PICK r \in punteros[p] : LiberarBloque(p, r)
    BY <2>1
  <2>3. PICK n : n = r.pagina + 1
    OBVIOUS
  <2> QED
    BY <2>2, <2>3, LiberarBloqueEntradas
<1>13. CASE SumarLiberado
  BY <1>13, SumarLiberadoEntradas
<1>14. CASE \E p \in Pids : LiberarRecursos(p)
  BY <1>14, LiberarRecursosEntradas
<1>15. CASE TomarLista \/ SoltarLista
  <2>1. UNCHANGED <<lista, paginas, contable, principal>>
    BY <1>15 DEF TomarLista, SoltarLista
  <2> QED
    BY <2>1, FinEntradas
<1>16. CASE DestruirEntrada
  BY <1>16, DestruirEntradaEntradas
<1>17. CASE UNCHANGED vars
  <2>1. UNCHANGED <<lista, paginas, contable, principal>>
    BY <1>17 DEF vars
  <2> QED
    BY <2>1, FinEntradas
<1> QED
  BY <1>2, <1>3, <1>4, <1>5, <1>6, <1>7, <1>8, <1>9, <1>10, <1>11, <1>12, <1>13, <1>14, <1>15,
     <1>16, <1>17 DEF Next, Alocar, Liberar, Fin

\* Every page of a process that lives has one entry in listaAdmHeap, and the entry says how
\* much of the page is free but for what the request in progress has still to write there
\* (heap.h): also while administrarFinProcesos takes the entries of other processes from
\* under verificarEspacioLibreHeap, which reads them without the mutex.
THEOREM ListaAdmExacta == Spec => []LibreExacto
<1>1. Init => IInvEntradas
  BY DEF Init, Ocioso, IInvEntradas, EntradasUnicas, EntradasAdmitidas, NuevaPagina
<1>2. IInvHeap /\ IInvEntradas /\ [Next]_vars => IInvEntradas'
  BY EntradasInductivas
<1>3. IInvHeap /\ IInvEntradas => LibreExacto
  BY EntradasUnicasDan DEF IInvHeap, IInvEntradas
<1> QED
  BY <1>1, <1>2, <1>3, InvarianteHeap, PTL DEF Spec
=============================================================================
