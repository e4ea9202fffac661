--------------------------------- MODULE Pcb ---------------------------------
(***************************************************************************)
(* The PCB and how it travels between the Kernel and the CPUs (pcb.h of    *)
(* the Kernel and PCB.h of the CPU, the same code but for the log): a      *)
(* buffer of a size computed beforehand, filled field by field.  A message *)
(* is the sequence of its fields, each with the bytes that it takes.       *)
(***************************************************************************)
EXTENDS Integers, Sequences, SequencesExt

Campo(bytes, valor) == [bytes |-> bytes, valor |-> valor]

Entero(n)    == Campo(4, n)
Letra(c)     == Campo(1, c)
Posicion(p)  == Campo(12, p)       \* t_posMemoria: pagina, offset and size, packed

BytesDe(campos) ==
  SumFunctionOnSet([i \in DOMAIN campos |-> campos[i].bytes], DOMAIN campos)

-----------------------------------------------------------------------------
\* The PCB of a new process: an empty stack, the first instruction, no exit code yet.
crearPcb(pid, programa, TamPagina) ==
  [pid                   |-> pid,
   programCounter        |-> programa.inicio,
   cantidadPaginasCodigo |-> (programa.bytes + TamPagina - 1) \div TamPagina,
   indiceCodigo          |-> programa.indice,
   indiceEtiquetas       |-> programa.etiquetas,
   indiceEtiquetasSize   |-> programa.bytesDeEtiquetas,
   indiceStack           |-> <<>>,
   exitCode              |-> 1]

cantidadInstrucciones(pcb) == Len(pcb.indiceCodigo)

-----------------------------------------------------------------------------
serializarNodo(nodo) ==
  <<Entero(Len(nodo.args))>>
  \o [i \in DOMAIN nodo.args |-> Posicion(nodo.args[i])]
  \o <<Entero(Len(nodo.vars))>>
  \o FlattenSeq([i \in DOMAIN nodo.vars |->
       <<Letra(nodo.vars[i].idVar), Posicion(nodo.vars[i].dirVar)>>])
  \o <<Entero(nodo.retPos), Posicion(nodo.retVar)>>

serializarPcb(pcb) ==
  <<Entero(pcb.pid), Entero(pcb.cantidadPaginasCodigo), Entero(pcb.programCounter),
    Entero(cantidadInstrucciones(pcb))>>
  \o FlattenSeq([i \in DOMAIN pcb.indiceCodigo |->
       <<Entero(pcb.indiceCodigo[i][1]), Entero(pcb.indiceCodigo[i][2])>>])
  \o <<Entero(pcb.indiceEtiquetasSize),
       Campo(pcb.indiceEtiquetasSize, pcb.indiceEtiquetas),
       Entero(Len(pcb.indiceStack))>>
  \o FlattenSeq([i \in DOMAIN pcb.indiceStack |-> serializarNodo(pcb.indiceStack[i])])
  \o <<Entero(pcb.exitCode)>>

\* (mutant first: the name of a variable is left out)
calcularIndiceStackSizeSinNombre(pila) ==
  SumFunctionOnSet(
    [i \in DOMAIN pila |->
       4 * 2 + Len(pila[i].args) * 12 + Len(pila[i].vars) * 12 + 4 + 12],
    DOMAIN pila)

calcularIndiceStackSize(pila) ==
  SumFunctionOnSet(
    [i \in DOMAIN pila |->
       4 * 2 + Len(pila[i].args) * 12 + Len(pila[i].vars) * (1 + 12) + 4 + 12],
    DOMAIN pila)

\* The size of the buffer and of the message.
calcularPcbSerializadoSize(pcb) ==
  4 * 5 + 4 + 4 + cantidadInstrucciones(pcb) * 4 * 2 + pcb.indiceEtiquetasSize
  + calcularIndiceStackSize(pcb.indiceStack)

-----------------------------------------------------------------------------
\* The node that starts at a field, and the field after it.
NodoEn(campos, desde) ==
  LET args  == campos[desde].valor
      enVar == desde + 1 + args
      enRet == enVar + 1 + 2 * campos[enVar].valor
  IN  [nodo  |-> [args   |-> [i \in 1..args |-> campos[desde + i].valor],
                  vars   |-> [i \in 1..campos[enVar].valor |->
                                [idVar  |-> campos[enVar + 2 * i - 1].valor,
                                 dirVar |-> campos[enVar + 2 * i].valor]],
                  retPos |-> campos[enRet].valor,
                  retVar |-> campos[enRet + 1].valor],
       hasta |-> enRet + 2]

\* The nodes read one after the other, and the field after the last.
LeerNodos(campos, cuantos, primero) ==
  LET siguiente[desde \in DOMAIN campos] == NodoEn(campos, desde).hasta
      hasta[n \in 0..cuantos] == IF n = 0 THEN primero ELSE siguiente[hasta[n - 1]]
  IN  [pila  |-> [n \in 1..cuantos |-> NodoEn(campos, hasta[n - 1]).nodo],
       hasta |-> hasta[cuantos]]

deserializarPcb(campos) ==
  LET instrucciones == campos[4].valor
      enEtiquetas   == 5 + 2 * instrucciones
      leido         == LeerNodos(campos, campos[enEtiquetas + 2].valor, enEtiquetas + 3)
  IN  [pid                   |-> campos[1].valor,
       cantidadPaginasCodigo |-> campos[2].valor,
       programCounter        |-> campos[3].valor,
       indiceCodigo          |-> [i \in 1..instrucciones |->
                                    <<campos[3 + 2 * i].valor, campos[4 + 2 * i].valor>>],
       indiceEtiquetasSize   |-> campos[enEtiquetas].valor,
       indiceEtiquetas       |-> campos[enEtiquetas + 1].valor,
       indiceStack           |-> leido.pila,
       exitCode              |-> campos[leido.hasta].valor]
=============================================================================
