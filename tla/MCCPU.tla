-------------------------------- MODULE MCCPU --------------------------------
(***************************************************************************)
(* Instances of the CPU for TLC: the programs, with the bytes of each      *)
(* instruction in their text after "begin".                                *)
(***************************************************************************)
EXTENDS PropiedadesCPU

Valor(v)    == <<"valor", v>>
Variable(n) == <<"variable", n>>

variables(nombres, largo) == [op |-> "variables", nombres |-> nombres, largo |-> largo]
pone(n, o)     == [op |-> "asignar", destino |-> n, operando |-> o, largo |-> 6]
llama(n, f, o) == [op |-> "llamar", destino |-> n, etiqueta |-> f, operando |-> o, largo |-> 9]
vuelve(o)      == [op |-> "retornar", operando |-> o, largo |-> 9]
salta(o, l)    == [op |-> "saltar", operando |-> o, etiqueta |-> l, largo |-> 7]
alocar(n)      == [op |-> "alocar", destino |-> n, largo |-> 11]
abrir(n)       == [op |-> "abrir", destino |-> n, largo |-> 10]
simple(op, largo) == [op |-> op, largo |-> largo]

Principio(codigo, i) ==
  6 + FoldLeft(LAMBDA n, k : n + codigo[k].largo, 0, [k \in 1..(i - 1) |-> k])

Programa(codigo, etiquetas) ==
  [codigo |-> codigo, inicio |-> 0, etiquetas |-> etiquetas,
   bytes  |-> Principio(codigo, Len(codigo) + 1),
   bytesDeEtiquetas |-> 6 * Cardinality(DOMAIN etiquetas),
   indice |-> [i \in DOMAIN codigo |-> <<Principio(codigo, i), codigo[i].largo>>]]

Fin == simple("fin", 4)

\* A function called twice, a second one from it, semaphores inside and outside.
Llamadas == Programa(
  <<variables(<<"a", "b">>, 15), pone("b", Valor(1)), llama("a", "f", Variable("b")),
    simple("wait", 7), llama("b", "f", Variable("a")), simple("pedir", 9), Fin,
    variables(<<"c">>, 12), pone("c", Variable("0")), simple("wait", 7),
    llama("c", "g", Variable("c")), vuelve(Variable("c")),
    alocar("0"), vuelve(Variable("0"))>>,
  [f |-> 7, g |-> 12])

\* A loop of two rounds, that leaves a variable without a value.
Vueltas == Programa(
  <<variables(<<"a", "b", "c">>, 18), pone("b", Valor(0)), pone("a", Variable("b")),
    pone("b", Valor(1)), salta(Variable("a"), "otra"), pone("a", Variable("c")), Fin>>,
  [otra |-> 2])

\* A function that never ends.
SinFondo == Programa(
  <<variables(<<"a">>, 12), pone("a", Valor(0)), llama("a", "f", Variable("a")), Fin,
    variables(<<"c">>, 12), llama("c", "f", Variable("0")), vuelve(Valor(0))>>,
  [f |-> 4])

\* A function that may call itself, and that has much to do when the call returns.
Recursiva == Programa(
  <<variables(<<"a">>, 12), pone("a", Valor(0)), llama("a", "f", Variable("a")), Fin,
    variables(<<"c">>, 12), alocar("c"), salta(Variable("c"), "otra"),
    simple("wait", 7), vuelve(Variable("c")), llama("c", "f", Variable("0"))>>
    \o [i \in 1..8 |-> pone("c", Valor(i % 2))] \o <<vuelve(Variable("c"))>>,
  [f |-> 4, otra |-> 9])

SinNombre == Programa(
  <<variables(<<"a">>, 12), pone("a", Variable("b")), Fin>>, [f |-> 1])

\* A file, and heap for a name that is not there.
SinLugar == Programa(
  <<variables(<<"a">>, 12), abrir("a"), alocar("b"), Fin>>, [f |-> 1])

\* A file for a name that is not there.
SinArchivo == Programa(<<variables(<<"a">>, 12), abrir("b"), Fin>>, [f |-> 1])

SinEtiqueta == Programa(
  <<variables(<<"a">>, 12), pone("a", Valor(0)), salta(Variable("a"), "f"), Fin>>, [g |-> 1])

VariosProgramas == {Llamadas, Vueltas, SinFondo, Recursiva, SinNombre, SinEtiqueta,
                    SinLugar, SinArchivo}
Nada            == <<>>
DosArgumentos   == <<"0", "1">>
ValoresPosibles == {0, 1, 200, Basura}
=============================================================================
