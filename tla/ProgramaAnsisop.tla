--------------------------- MODULE ProgramaAnsisop ---------------------------
(***************************************************************************)
(* What the run of a program means, wherever it runs and however often it  *)
(* moves: frames of named variables with a bound on how many live at once, *)
(* a program counter, and one outcome.                                     *)
(***************************************************************************)
EXTENDS Integers, Sequences, FiniteSets, SequencesExt

CONSTANTS
  Nombres,         \* of variables and arguments
  Capacidad,       \* variables that the stack can have
  Valores,         \* what a variable may have, an unknown value among them
  Punteros,
  Argumento,       \* the name of the argument of a function
  CodigoRechazo, CodigoMuerte, CodigoError

VARIABLES
  programa,
  pc,
  marcos,     \* the frames, each with its values by name, and where it returns
  estado      \* the exit code, Vivo or Perdido

vars == <<programa, pc, marcos, estado>>

Vivo == 1

\* Neither runs nor ends.
Perdido == 2

Instruccion == programa.codigo[pc + 1]
Marco       == Last(marcos)
Vivas       == Cardinality({x \in (DOMAIN marcos) \X Nombres : x[2] \in DOMAIN marcos[x[1]].valores})

NuevoMarco(pcVuelta, destino) == [valores |-> <<>>, vuelve |-> pcVuelta, en |-> destino]

Init ==
  /\ pc = programa.inicio
  /\ marcos = <<>>
  /\ estado = Vivo

\* An operand is <<"valor", v>> or <<"variable", name>>.
Definido(operando) == operando[1] = "variable" => operando[2] \in DOMAIN Marco.valores
Valor(operando) == IF operando[1] = "variable" THEN Marco.valores[operando[2]] ELSE operando[2]

Con(valores, nombre, v) == [n \in DOMAIN valores \cup {nombre} |->
                              IF n = nombre THEN v ELSE valores[n]]

En(op) == estado = Vivo /\ Instruccion.op = op

Avanza == pc' = pc + 1 /\ UNCHANGED <<programa, estado>>

-----------------------------------------------------------------------------
\* New variables have any value.
Definir ==
  /\ En("variables")
  /\ Vivas + Len(Instruccion.nombres) <= Capacidad
  /\ LET pila == IF marcos = <<>> THEN <<NuevoMarco(0, <<>>)>> ELSE marcos
         nombres == ToSet(Instruccion.nombres)
     IN  marcos' \in {[pila EXCEPT ![Len(pila)].valores =
                        [n \in DOMAIN @ \cup nombres |->
                           IF n \in nombres THEN nuevos[n] ELSE @[n]]]
                        : nuevos \in [nombres -> Valores]}
  /\ Avanza

Asignar ==
  /\ En("asignar")
  /\ Definido(Instruccion.operando) /\ Instruccion.destino \in DOMAIN Marco.valores
  /\ marcos' = [marcos EXCEPT ![Len(marcos)].valores[Instruccion.destino] =
                  Valor(Instruccion.operando)]
  /\ Avanza

Llamar ==
  /\ En("llamar")
  /\ Definido(Instruccion.operando) /\ Instruccion.destino \in DOMAIN Marco.valores
  /\ Instruccion.etiqueta \in DOMAIN programa.etiquetas
  /\ Vivas + 1 <= Capacidad
  /\ marcos' = Append(marcos, [NuevoMarco(pc, <<Instruccion.destino>>) EXCEPT !.valores =
                                 Con(<<>>, Argumento, Valor(Instruccion.operando))])
  /\ pc' = programa.etiquetas[Instruccion.etiqueta]
  /\ UNCHANGED <<programa, estado>>

Retornar ==
  /\ En("retornar") /\ Len(marcos) > 1
  /\ Definido(Instruccion.operando)
  /\ marcos' = [Front(marcos) EXCEPT ![Len(marcos) - 1].valores[Marco.en[1]] =
                  Valor(Instruccion.operando)]
  /\ pc' = Marco.vuelve + 1
  /\ UNCHANGED <<programa, estado>>

SaltarSiCero ==
  /\ En("saltar") /\ Definido(Instruccion.operando)
  /\ Valor(Instruccion.operando) = 0 => Instruccion.etiqueta \in DOMAIN programa.etiquetas
  /\ pc' = IF Valor(Instruccion.operando) = 0
           THEN programa.etiquetas[Instruccion.etiqueta] ELSE pc + 1
  /\ UNCHANGED <<programa, marcos, estado>>

Esperar ==
  /\ estado = Vivo /\ Instruccion.op \in {"wait", "pedir"}
  /\ UNCHANGED marcos
  /\ Avanza

Alocar ==
  /\ estado = Vivo /\ Instruccion.op \in {"alocar", "abrir"}
  /\ Instruccion.destino \in DOMAIN Marco.valores
  /\ \E puntero \in Punteros :
       marcos' = [marcos EXCEPT ![Len(marcos)].valores[Instruccion.destino] = puntero]
  /\ Avanza

-----------------------------------------------------------------------------
Terminar(codigo) ==
  /\ estado = Vivo
  /\ estado' = codigo /\ pc' = 0 /\ marcos' = <<>>
  /\ UNCHANGED programa

Finalizar == En("fin") /\ Terminar(0)

\* A name that is not there, a label that is not there, or a stack that is full.
Erronea ==
  \/ Instruccion.op = "variables" /\ Vivas + Len(Instruccion.nombres) > Capacidad
  \/ /\ Instruccion.op \in {"asignar", "llamar", "retornar", "saltar"}
     /\ ~Definido(Instruccion.operando)
  \/ /\ Instruccion.op \in {"asignar", "llamar", "alocar", "abrir"}
     /\ Instruccion.destino \notin DOMAIN Marco.valores
  \/ /\ Instruccion.op \in {"llamar", "saltar"}
     /\ Instruccion.etiqueta \notin DOMAIN programa.etiquetas
  \/ Instruccion.op = "llamar" /\ Vivas + 1 > Capacidad

Fallar   == estado = Vivo /\ Erronea /\ Terminar(CodigoError)
Rechazar ==
  estado = Vivo /\ Instruccion.op \in {"pedir", "alocar", "abrir"} /\ Terminar(CodigoRechazo)

\* An answer or a refusal that is not understood.
Perderse ==
  /\ estado = Vivo
  /\ \/ Instruccion.op = "alocar"
     \/ Instruccion.op = "abrir" /\ Instruccion.destino \notin DOMAIN Marco.valores
  /\ Terminar(Perdido)

Morir == Terminar(CodigoMuerte)

Next ==
  \/ Definir \/ Asignar \/ Llamar \/ Retornar \/ SaltarSiCero \/ Esperar \/ Alocar
  \/ Finalizar \/ Fallar \/ Rechazar \/ Perderse \/ Morir

SpecPrograma == Init /\ [][Next]_vars
=============================================================================
