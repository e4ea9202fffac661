------------------------- MODULE PropiedadesArchivos -------------------------
(***************************************************************************)
(* What the two tables of the file layer owe each other and the programs.  *)
(***************************************************************************)
EXTENDS Archivos

TipoGlobal == [ruta : Rutas, open : Int]
TipoEntrada == [fd : Nat, flags : Banderas, indice : Nat \ {0}, puntero : Nat, archivo : Rutas]
TipoPedido ==
  {Libre}
  \cup [paso : {"agregar", "buscar"}, pid : Pids, ruta : Rutas, flags : Banderas,
        indice : {0}]
  \cup [paso : {"aumentar", "registrar"}, pid : Pids, ruta : Rutas, flags : Banderas,
        indice : Nat \ {0}]
  \cup [paso : {"disminuir", "verificar", "borrar"}, pid : Pids, ruta : Rutas,
        indice : Nat \ {0}]

\* Every variable keeps its type: no index and no request is left without value,
\* but for the falls named in fallo.
TiposArchivos ==
  /\ tablaGlobal \in Seq(TipoGlobal)
  /\ tablas \in [Pids -> Seq(TipoEntrada)]
  /\ estado \in [Pids -> {"nuevo", "vivo", "terminando", "terminado"}]
  /\ fin \in [Pids -> [i : Nat, cont : Nat]]
  /\ pedido \in TipoPedido
  /\ existentes \in SUBSET Rutas
  /\ fallo \in {"ninguno", "sinEntrada", "entradaNula"}

Uno(b) == IF b THEN 1 ELSE 0

\* Descriptors of p whose opening still counts: the walk that ends a process has
\* given back one opening per round.
Deben(p) == Len(tablas[p]) - (IF estado[p] = "terminando" THEN fin[p].cont ELSE 0)

\* The openings the global table counts are the descriptors there are, up to the
\* one being opened or closed, even when they count for the wrong file: no
\* interleaving of requests and ends loses or invents an opening.
AperturasContadas ==
  Anda => SumFunction([i \in DOMAIN tablaGlobal |-> tablaGlobal[i].open])
            = SumFunction([p \in Pids |-> Deben(p)])
              + Uno(pedido.paso \in {"registrar", "disminuir"})

TieneAbierto(p, r) == \E k \in DOMAIN tablas[p] : tablas[p][k].archivo = r

\* An index leads to the entry of the file it was taken for, the only one there is.
Lleva(i, r) == DeRuta(r) = {i}

\* The descriptors still to be given back.
Vigentes ==
  {d \in Pids \X (1..MaxAbiertos) :
     /\ d[2] \in DOMAIN tablas[d[1]] /\ d[2] >= fin[d[1]].i
     /\ fin[d[1]].cont < Len(tablas[d[1]])}
Entrada(d) == tablas[d[1]][d[2]]

\* The indices that descriptors and the request in hand go by are right, and the table of
\* all counts them. A walk has not given back the descriptor it stands at.
Acuerdo ==
  /\ \A d \in Vigentes : Lleva(Entrada(d).indice, Entrada(d).archivo)
  /\ pedido.paso \in {"aumentar", "registrar", "disminuir", "verificar", "borrar"} =>
       Lleva(pedido.indice, pedido.ruta)
  /\ pedido.paso = "buscar" => DeRuta(pedido.ruta) # {}
  /\ \A i \in DOMAIN tablaGlobal :
       tablaGlobal[i].open = Cardinality({d \in Vigentes : Entrada(d).indice = i})
         + Uno(pedido.paso \in {"registrar", "disminuir"} /\ pedido.indice = i)
  /\ \A p \in Pids : fin[p].cont < Len(tablas[p]) => fin[p].i = fin[p].cont + 1

\* An open file is opened again and its entry moves; a file that was deleted gets a second
\* entry; an end walks in the middle of a request; a walk that removed an entry with others
\* left stays at the same index.
Reabre == /\ pedido.paso = "aumentar" /\ tablaGlobal' # tablaGlobal
          /\ Primera(DeRuta(pedido.ruta)) # Len(tablaGlobal)
Recrea == pedido.paso = "agregar" /\ DeRuta(pedido.ruta) # {}
Interrumpe == pedido # Libre /\ fin' # fin
Repite == \E p \in Pids : /\ fin'[p].cont # fin[p].cont /\ fin'[p].i = fin[p].i
                          /\ fin'[p].cont < Len(tablas[p])

\* The tables come to disagree in four ways only: an open file is opened again
\* (capaFilesystem.h:522), a deleted one is created again, an end walks during a request, or
\* goes on after it removed an entry. No other opening, closing, deletion, access or end does
\* it, however many files each process has and whatever was removed before.
SinOtroDesacuerdo ==
  [][Acuerdo /\ ~(Reabre \/ Recrea \/ Interrumpe \/ Repite) => Acuerdo']_vars

\* capaFilesystem.h:174: a process cannot delete a file that it does not have open.
BorraLoQueAbrio ==
  Anda /\ pedido.paso = "borrar" /\ pedido.indice \in DOMAIN tablaGlobal =>
    TieneAbierto(pedido.pid, tablaGlobal[pedido.indice].ruta)

\* While the tables agree, a file that another living process has open is not deleted,
\* though openings are counted and looked at by position, and others end between the check
\* and the deletion.
BorraSoloElUnico ==
  [][\A r \in existentes \ existentes', p \in Pids :
       Acuerdo /\ estado[p] = "vivo" /\ p # pedido.pid => ~TieneAbierto(p, r)]_vars

\* The walk that ends a process never asks for an entry its table does not have,
\* though it moves on or not by what it finds in the table of all.
RecorridoEnTabla ==
  \A p \in Pids :
    /\ fin[p].i \in 1..(fin[p].cont + 1)
    /\ estado[p] \in {"nuevo", "vivo"} => fin[p].cont = 0
    /\ estado[p] = "terminando" => fin[p].cont <= Len(tablas[p])

\* A process is not ended in the middle of its own request.
PedidoDeVivo == pedido # Libre => estado[pedido.pid] = "vivo"

\* What is kept together: nothing shortens the table of a process that is being
\* ended, because who asks is alive, and lengths need the types.
IInvArchivos == TiposArchivos /\ RecorridoEnTabla /\ PedidoDeVivo
=============================================================================
