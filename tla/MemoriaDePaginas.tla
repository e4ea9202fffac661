--------------------------- MODULE MemoriaDePaginas ---------------------------
(***************************************************************************)
(* What Memoria promises to who asks: each process has pages numbered from *)
(* 0; what is read in one is what was written in it last; pages are granted *)
(* all or none, and refused only when they do not fit.                     *)
(***************************************************************************)
EXTENDS Integers, Sequences, FiniteSets, Functions

CONSTANTS
  Pids, Conexiones,
  Contenidos,      \* what a page may have; a granted page has anything
  Capacidad,       \* pages there are
  MaxPedido        \* pages asked for at a time, or referred to

VARIABLES
  paginas,         \* of each process, the contents of its pages
  pedido           \* of each connection: idle, writing, or with an answer

varsPaginas == <<paginas, pedido>>

Quieto == [estado |-> "quieto"]
Escrito(p, n) == [estado |-> "escrito", pid |-> p, pagina |-> n]
Respuesta(orden, p, n, res, valor) ==
  [estado |-> "responde", orden |-> orden, pid |-> p, pagina |-> n, res |-> res, valor |-> valor]

\* Page n of p exists.
Tiene(p, n) == n < Len(paginas[p])
Ocupadas == SumFunction([p \in Pids |-> Len(paginas[p])])

InitPaginas ==
  /\ paginas = [p \in Pids |-> <<>>]
  /\ pedido = [c \in Conexiones |-> Quieto]

\* What an answer carries besides the result, where it means nothing, is anything.
Contesta(c, orden, p, n, res) ==
  /\ pedido[c] = Quieto
  /\ \E v \in Contenidos : pedido' = [pedido EXCEPT ![c] = Respuesta(orden, p, n, res, v)]

\* Of a page that there is not nothing is promised.
Leer(c, p, n) ==
  /\ pedido[c] = Quieto
  /\ IF Tiene(p, n)
     THEN pedido' = [pedido EXCEPT ![c] = Respuesta("leer", p, n, TRUE, paginas[p][n + 1])]
     ELSE \E res \in BOOLEAN : Contesta(c, "leer", p, n, res)
  /\ UNCHANGED paginas

Escribir(c, p, n, v) ==
  /\ pedido[c] = Quieto
  /\ pedido' = [pedido EXCEPT ![c] = Escrito(p, n)]
  /\ Tiene(p, n)
  /\ paginas' = [paginas EXCEPT ![p][n + 1] = v]

Confirmar(c) ==
  /\ pedido[c].estado = "escrito"
  /\ \E v \in Contenidos : pedido' =
       [pedido EXCEPT ![c] = Respuesta("escribir", @.pid, @.pagina, TRUE, v)]
  /\ UNCHANGED paginas

\* A write to a page that there is not changes nothing and says so.
NoEscribir(c, p, n) ==
  /\ Contesta(c, "escribir", p, n, FALSE)
  /\ ~Tiene(p, n)
  /\ UNCHANGED paginas

Otorgar(c, p, cant) ==
  /\ Contesta(c, "pedir", p, cant, TRUE)
  /\ Ocupadas + cant <= Capacidad
  /\ \E s \in [1..cant -> Contenidos] : paginas' = [paginas EXCEPT ![p] = @ \o s]

Negar(c, p, cant) ==
  /\ Contesta(c, "pedir", p, cant, FALSE)
  /\ Ocupadas + cant > Capacidad
  /\ UNCHANGED paginas

Terminar(p) ==
  /\ UNCHANGED pedido
  /\ paginas' = [paginas EXCEPT ![p] = <<>>]

Recibir(c) ==
  /\ pedido[c].estado = "responde"
  /\ pedido' = [pedido EXCEPT ![c] = Quieto]
  /\ UNCHANGED paginas

Pedido(c) ==
  \/ \E p \in Pids, n \in 0..(MaxPedido - 1) :
       \/ Leer(c, p, n) \/ NoEscribir(c, p, n)
       \/ \E v \in Contenidos : Escribir(c, p, n, v)
  \/ \E p \in Pids, cant \in 1..MaxPedido : Otorgar(c, p, cant) \/ Negar(c, p, cant)
  \/ Confirmar(c) \/ Recibir(c)

NextPaginas ==
  \/ \E c \in Conexiones : pedido'[c] # pedido[c] /\ Pedido(c)
  \/ pedido' = pedido /\ paginas' # paginas /\ \E p \in Pids : Terminar(p)

SpecPaginas == InitPaginas /\ [][NextPaginas]_varsPaginas
=============================================================================
