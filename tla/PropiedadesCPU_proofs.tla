----------------------- MODULE PropiedadesCPU_proofs -----------------------
(***************************************************************************)
(* Proofs about the CPU and its PCB, for every program, page size, stack   *)
(* and quantum: first what the PCB is made of and how it travels, then     *)
(* what the primitives do with it, and then the steps of the CPU.          *)
(***************************************************************************)
EXTENDS PropiedadesCPU, LemasListas

-----------------------------------------------------------------------------
(* The fields of a PCB, with any names N, positions D and labels E.        *)

Campos(N, D, E) == [bytes : Nat, valor : Int \cup N \cup D \cup E]

Vars(N, D) == [idVar : N, dirVar : D]
Nodos(N, D) == [args : Seq(D), vars : Seq(Vars(N, D)), retPos : Int, retVar : D]

Pcbs(N, D, E) ==
  [pid : Int, programCounter : Int, cantidadPaginasCodigo : Int,
   indiceCodigo : Seq(Int \X Int), indiceEtiquetas : E, indiceEtiquetasSize : Nat,
   indiceStack : Seq(Nodos(N, D)), exitCode : Int]

LEMMA CamposTipados ==
  ASSUME NEW N, NEW D, NEW E
  PROVE  /\ \A n \in Int : Entero(n) \in Campos(N, D, E) /\ Entero(n).valor = n
         /\ \A c \in N : Letra(c) \in Campos(N, D, E) /\ Letra(c).valor = c
         /\ \A p \in D : Posicion(p) \in Campos(N, D, E) /\ Posicion(p).valor = p
         /\ \A e \in E : \A b \in Nat : Campo(b, e) \in Campos(N, D, E) /\ Campo(b, e).valor = e
BY DEF Campos, Entero, Letra, Posicion, Campo

\* The fields of a node, with a arguments and v variables.
CamposDeNodo(c, nodo, a, v) ==
  /\ a \in Nat /\ v \in Nat
  /\ Len(c) = 4 + a + 2 * v
  /\ c[1] = Entero(a)
  /\ \A i \in 1..a : c[1 + i] = Posicion(nodo.args[i])
  /\ c[2 + a] = Entero(v)
  /\ \A i \in 1..v : /\ c[1 + a + 2 * i] = Letra(nodo.vars[i].idVar)
                     /\ c[2 + a + 2 * i] = Posicion(nodo.vars[i].dirVar)
  /\ c[3 + a + 2 * v] = Entero(nodo.retPos)
  /\ c[4 + a + 2 * v] = Posicion(nodo.retVar)

LEMMA NodoEscrito ==
  ASSUME NEW N, NEW D, NEW E, NEW nodo \in Nodos(N, D),
         NEW a, a = Len(nodo.args), NEW v, v = Len(nodo.vars)
  PROVE  /\ CamposDeNodo(serializarNodo(nodo), nodo, a, v)
         /\ serializarNodo(nodo) \in Seq(Campos(N, D, E))
<1> DEFINE C == Campos(N, D, E)
           pa == <<Entero(a)>>
           pb == [i \in DOMAIN nodo.args |-> Posicion(nodo.args[i])]
           pc1 == <<Entero(v)>>
           pares == [i \in DOMAIN nodo.vars |->
                       <<Letra(nodo.vars[i].idVar), Posicion(nodo.vars[i].dirVar)>>]
           pd == FlattenSeq(pares)
           pe == <<Entero(nodo.retPos), Posicion(nodo.retVar)>>
<1>1. /\ nodo.args \in Seq(D) /\ nodo.vars \in Seq(Vars(N, D)) /\ nodo.retPos \in Int
      /\ nodo.retVar \in D /\ a \in Nat /\ v \in Nat
      /\ DOMAIN nodo.args = 1..a /\ DOMAIN nodo.vars = 1..v
  BY DEF Nodos
<1>0. a \in Nat /\ v \in Nat
  BY <1>1
<1>2. serializarNodo(nodo) = (((pa \o pb) \o pc1) \o pd) \o pe
  BY DEF serializarNodo
<1>3. pa \in Seq(C) /\ Len(pa) = 1 /\ pa[1] = Entero(a)
  BY <1>1, CamposTipados
<1>4. pb \in Seq(C) /\ Len(pb) = a /\ \A i \in 1..a : pb[i] = Posicion(nodo.args[i])
  <2>1. \A i \in 1..a : nodo.args[i] \in D
    BY <1>1
  <2>2. pb \in [1..a -> C]
    BY <1>1, <2>1, CamposTipados
  <2> QED
    BY <1>1, <2>2
<1>5. pc1 \in Seq(C) /\ Len(pc1) = 1 /\ pc1[1] = Entero(v)
  BY <1>1, CamposTipados
<1>6. \A i \in 1..v : nodo.vars[i].idVar \in N /\ nodo.vars[i].dirVar \in D
  <2>1. \A i \in 1..v : nodo.vars[i] \in Vars(N, D)
    BY <1>1
  <2> QED
    BY <2>1 DEF Vars
<1>7. /\ pares \in Seq(Seq(C)) /\ Len(pares) = v
      /\ \A i \in 1..v : /\ Len(pares[i]) = 2 /\ pares[i][1] = Letra(nodo.vars[i].idVar)
                         /\ pares[i][2] = Posicion(nodo.vars[i].dirVar)
  <2>1. ASSUME NEW i \in 1..v
        PROVE  <<Letra(nodo.vars[i].idVar), Posicion(nodo.vars[i].dirVar)>> \in Seq(C)
    <3>1. Letra(nodo.vars[i].idVar) \in C /\ Posicion(nodo.vars[i].dirVar) \in C
      BY <1>6, CamposTipados
    <3> HIDE DEF C
    <3> QED
      BY <3>1
  <2>2. pares \in [1..v -> Seq(C)]
    BY <1>1, <2>1
  <2> HIDE DEF C
  <2> QED
    BY <1>1, <2>2
<1>8. /\ pd \in Seq(C) /\ Len(pd) = 2 * v
      /\ \A i \in 1..v : /\ pd[2 * i - 1] = Letra(nodo.vars[i].idVar)
                         /\ pd[2 * i] = Posicion(nodo.vars[i].dirVar)
  <2> HIDE DEF C, pares
  <2> QED
    BY <1>7, AplanarPares
<1>9. pe \in Seq(C) /\ Len(pe) = 2 /\ pe[1] = Entero(nodo.retPos) /\ pe[2] = Posicion(nodo.retVar)
  BY <1>1, CamposTipados
<1> DEFINE p2 == pa \o pb
           p3 == p2 \o pc1
           p4 == p3 \o pd
           p5 == p4 \o pe
<1> HIDE DEF C, pa, pb, pc1, pd, pe, p2, p3, p4, p5
<1>10. /\ p2 \in Seq(C) /\ Len(p2) = 1 + a /\ p2[1] = Entero(a)
       /\ \A i \in 1..a : p2[1 + i] = Posicion(nodo.args[i])
  <2>0. pa \in Seq(C) /\ pb \in Seq(C)
    BY <1>3, <1>4
  <2>1. /\ p2 \in Seq(C) /\ Len(p2) = Len(pa) + Len(pb)
        /\ \A i \in 1..Len(pa) : p2[i] = pa[i]
        /\ \A i \in 1..Len(pb) : p2[Len(pa) + i] = pb[i]
    BY ONLY <2>0, Pegar DEF p2
  <2>2. 1 \in 1..1
    OBVIOUS
  <2> QED
    BY ONLY <1>3, <1>4, <2>1, <2>2
<1>11. /\ p3 \in Seq(C) /\ Len(p3) = 2 + a
       /\ \A i \in 1..(1 + a) : p3[i] = p2[i]
       /\ p3[2 + a] = Entero(v)
  <2>0. p2 \in Seq(C) /\ pc1 \in Seq(C)
    BY <1>5, <1>10
  <2>1. /\ p3 \in Seq(C) /\ Len(p3) = Len(p2) + Len(pc1)
        /\ \A i \in 1..Len(p2) : p3[i] = p2[i]
        /\ \A i \in 1..Len(pc1) : p3[Len(p2) + i] = pc1[i]
    BY ONLY <2>0, Pegar DEF p3
  <2>2. 1 \in 1..1 /\ (1 + a) + 1 = 2 + a
    BY <1>0
  <2> QED
    BY ONLY <1>5, <1>10, <2>1, <2>2
<1>12. /\ p4 \in Seq(C) /\ Len(p4) = 2 + a + 2 * v
       /\ \A i \in 1..(2 + a) : p4[i] = p3[i]
       /\ \A i \in 1..(2 * v) : p4[2 + a + i] = pd[i]
  <2>0. p3 \in Seq(C) /\ pd \in Seq(C)
    BY <1>8, <1>11
  <2>1. /\ p4 \in Seq(C) /\ Len(p4) = Len(p3) + Len(pd)
        /\ \A i \in 1..Len(p3) : p4[i] = p3[i]
        /\ \A i \in 1..Len(pd) : p4[Len(p3) + i] = pd[i]
    BY ONLY <2>0, Pegar DEF p4
  <2> QED
    BY ONLY <1>8, <1>11, <2>1
<1>13. /\ p5 \in Seq(C) /\ Len(p5) = 4 + a + 2 * v
       /\ \A i \in 1..(2 + a + 2 * v) : p5[i] = p4[i]
       /\ p5[3 + a + 2 * v] = Entero(nodo.retPos)
       /\ p5[4 + a + 2 * v] = Posicion(nodo.retVar)
  <2>0. p4 \in Seq(C) /\ pe \in Seq(C)
    BY <1>9, <1>12
  <2>1. /\ p5 \in Seq(C) /\ Len(p5) = Len(p4) + Len(pe)
        /\ \A i \in 1..Len(p4) : p5[i] = p4[i]
        /\ \A i \in 1..Len(pe) : p5[Len(p4) + i] = pe[i]
    BY ONLY <2>0, Pegar DEF p5
  <2>2. /\ 1 \in 1..2 /\ 2 \in 1..2
        /\ (2 + a + 2 * v) + 1 = 3 + a + 2 * v /\ (2 + a + 2 * v) + 2 = 4 + a + 2 * v
    BY ONLY <1>0
  <2> QED
    BY ONLY <1>9, <1>12, <2>1, <2>2
<1>14. serializarNodo(nodo) = p5
  BY <1>2 DEF p5, p4, p3, p2
<1>15. p5[1] = Entero(a) /\ p5[2 + a] = Entero(v)
  <2>1. 1 \in 1..(2 + a + 2 * v) /\ 2 + a \in 1..(2 + a + 2 * v) /\ 1 \in 1..(2 + a)
        /\ 2 + a \in 1..(2 + a) /\ 1 \in 1..(1 + a)
    BY ONLY <1>0
  <2> QED
    BY <1>10, <1>11, <1>12, <1>13, <2>1
<1>16. ASSUME NEW i \in 1..a PROVE p5[1 + i] = Posicion(nodo.args[i])
  <2>1. 1 + i \in 1..(2 + a + 2 * v) /\ 1 + i \in 1..(2 + a) /\ 1 + i \in 1..(1 + a)
    BY ONLY <1>0, i \in 1..a
  <2> QED
    BY ZenonT(60), <1>10, <1>11, <1>12, <1>13, <2>1
<1>17. ASSUME NEW i \in 1..v
       PROVE  /\ p5[1 + a + 2 * i] = Letra(nodo.vars[i].idVar)
              /\ p5[2 + a + 2 * i] = Posicion(nodo.vars[i].dirVar)
  <2>1. /\ 2 * i - 1 \in 1..(2 * v) /\ 2 * i \in 1..(2 * v)
        /\ 2 + a + (2 * i - 1) = 1 + a + 2 * i /\ 2 + a + 2 * i = 2 + a + (2 * i)
        /\ 1 + a + 2 * i \in 1..(2 + a + 2 * v) /\ 2 + a + 2 * i \in 1..(2 + a + 2 * v)
    BY ONLY <1>0, i \in 1..v
  <2> QED
    BY ZenonT(60), <1>8, <1>12, <1>13, <2>1
<1> QED
  BY <1>1, <1>13, <1>14, <1>15, <1>16, <1>17 DEF C, CamposDeNodo

\* What is read where a node was written is that node.
LEMMA NodoLeido ==
  ASSUME NEW N, NEW D, NEW nodo \in Nodos(N, D), NEW campos, NEW d \in Nat,
         \A j \in 1..Len(serializarNodo(nodo)) :
           campos[d + j - 1] = serializarNodo(nodo)[j]
  PROVE  /\ NodoEn(campos, d).nodo = nodo
         /\ NodoEn(campos, d).hasta = d + Len(serializarNodo(nodo))
<1>1. PICK a : a = Len(nodo.args)
  OBVIOUS
<1>2. PICK v : v = Len(nodo.vars)
  OBVIOUS
<1> DEFINE c == serializarNodo(nodo)
<1>3. /\ a \in Nat /\ v \in Nat /\ Len(c) = 4 + a + 2 * v
      /\ c[1] = Entero(a) /\ c[2 + a] = Entero(v)
      /\ \A i \in 1..a : c[1 + i] = Posicion(nodo.args[i])
      /\ \A i \in 1..v : /\ c[1 + a + 2 * i] = Letra(nodo.vars[i].idVar)
                         /\ c[2 + a + 2 * i] = Posicion(nodo.vars[i].dirVar)
      /\ c[3 + a + 2 * v] = Entero(nodo.retPos)
      /\ c[4 + a + 2 * v] = Posicion(nodo.retVar)
  <2>1. nodo \in Nodos(N, D)
    OBVIOUS
  <2>2. CamposDeNodo(c, nodo, a, v) /\ c \in Seq(Campos(N, D, {}))
    BY ONLY <1>1, <1>2, <2>1, NodoEscrito
  <2> QED
    BY ONLY <2>2 DEF CamposDeNodo
<1>0. a \in Nat /\ v \in Nat
  BY <1>3
<1> HIDE DEF c
<1>4. \A j \in 1..(4 + a + 2 * v) : campos[d + j - 1] = c[j]
  BY <1>3 DEF c
<1>5. campos[d].valor = a
  <2>1. 1 \in 1..(4 + a + 2 * v) /\ d + 1 - 1 = d
    BY ONLY <1>0, d \in Nat
  <2>2. campos[d] = c[1]
    BY ONLY <1>4, <2>1
  <2> QED
    BY <1>3, <2>2 DEF Entero, Campo
<1>6. ASSUME NEW i \in 1..a PROVE campos[d + i].valor = nodo.args[i]
  <2>1. 1 + i \in 1..(4 + a + 2 * v) /\ d + (1 + i) - 1 = d + i
    BY ONLY <1>0, d \in Nat, i \in 1..a
  <2>2. campos[d + i] = c[1 + i]
    BY ONLY <1>4, <2>1
  <2>3. c[1 + i] = Posicion(nodo.args[i])
    BY ONLY <1>3, i \in 1..a
  <2> QED
    BY ONLY <2>2, <2>3 DEF Posicion, Campo
<1>7. campos[d + 1 + a].valor = v
  <2>1. 2 + a \in 1..(4 + a + 2 * v) /\ d + (2 + a) - 1 = d + 1 + a
    BY ONLY <1>0, d \in Nat
  <2>2. campos[d + 1 + a] = c[2 + a]
    BY ONLY <1>4, <2>1
  <2> QED
    BY <1>3, <2>2 DEF Entero, Campo
<1>8. ASSUME NEW i \in 1..v
      PROVE  /\ campos[(d + 1 + a) + 2 * i - 1].valor = nodo.vars[i].idVar
             /\ campos[(d + 1 + a) + 2 * i].valor = nodo.vars[i].dirVar
  <2>1. /\ 1 + a + 2 * i \in 1..(4 + a + 2 * v) /\ 2 + a + 2 * i \in 1..(4 + a + 2 * v)
        /\ d + (1 + a + 2 * i) - 1 = (d + 1 + a) + 2 * i - 1
        /\ d + (2 + a + 2 * i) - 1 = (d + 1 + a) + 2 * i
    BY ONLY <1>0, d \in Nat, i \in 1..v
  <2>2. /\ campos[(d + 1 + a) + 2 * i - 1] = c[1 + a + 2 * i]
        /\ campos[(d + 1 + a) + 2 * i] = c[2 + a + 2 * i]
    BY ONLY <1>4, <2>1
  <2>3. /\ c[1 + a + 2 * i] = Letra(nodo.vars[i].idVar)
        /\ c[2 + a + 2 * i] = Posicion(nodo.vars[i].dirVar)
    BY ONLY <1>3, i \in 1..v
  <2> QED
    BY ONLY <2>2, <2>3 DEF Posicion, Letra, Campo
<1> DEFINE enRet == (d + 1 + a) + 1 + 2 * v
<1>9. campos[enRet].valor = nodo.retPos /\ campos[enRet + 1].valor = nodo.retVar
  <2>1. /\ 3 + a + 2 * v \in 1..(4 + a + 2 * v) /\ 4 + a + 2 * v \in 1..(4 + a + 2 * v)
        /\ d + (3 + a + 2 * v) - 1 = enRet /\ d + (4 + a + 2 * v) - 1 = enRet + 1
    BY ONLY <1>0, d \in Nat
  <2> HIDE DEF enRet
  <2>2. campos[enRet] = c[3 + a + 2 * v] /\ campos[enRet + 1] = c[4 + a + 2 * v]
    BY ONLY <1>4, <2>1
  <2> QED
    BY <1>3, <2>2 DEF Posicion, Entero, Campo
<1>10. [i \in 1..a |-> campos[d + i].valor] = nodo.args
  <2>1. nodo.args = [i \in 1..a |-> nodo.args[i]]
    BY <1>1 DEF Nodos
  <2> QED
    BY <1>6, <2>1
<1>11. [i \in 1..v |-> [idVar  |-> campos[(d + 1 + a) + 2 * i - 1].valor,
                        dirVar |-> campos[(d + 1 + a) + 2 * i].valor]] = nodo.vars
  <2>1. /\ nodo.vars = [i \in 1..v |-> nodo.vars[i]]
        /\ \A i \in 1..v : nodo.vars[i] \in Vars(N, D)
    BY <1>2 DEF Nodos
  <2>2. \A i \in 1..v : nodo.vars[i] = [idVar |-> nodo.vars[i].idVar, dirVar |-> nodo.vars[i].dirVar]
    BY <2>1 DEF Vars
  <2> QED
    BY <1>8, <2>1, <2>2
<1>12. /\ NodoEn(campos, d).nodo = [args |-> nodo.args, vars |-> nodo.vars,
                                    retPos |-> nodo.retPos, retVar |-> nodo.retVar]
       /\ NodoEn(campos, d).hasta = enRet + 2
  BY <1>5, <1>7, <1>9, <1>10, <1>11 DEF NodoEn
<1>13. nodo = [args |-> nodo.args, vars |-> nodo.vars,
               retPos |-> nodo.retPos, retVar |-> nodo.retVar]
  BY DEF Nodos
<1>14. enRet + 2 = d + (4 + a + 2 * v)
  BY ONLY <1>0, d \in Nat
<1> QED
  BY <1>3, <1>12, <1>13, <1>14 DEF c

-----------------------------------------------------------------------------
(* The bytes of the fields.                                                *)

LEMMA BytesPegados ==
  ASSUME NEW N, NEW D, NEW E, NEW a \in Seq(Campos(N, D, E)), NEW b \in Seq(Campos(N, D, E))
  PROVE  /\ BytesDe(a \o b) = BytesDe(a) + BytesDe(b)
         /\ BytesDe(a) \in Int /\ BytesDe(b) \in Int
<1> DEFINE C == Campos(N, D, E)
<1>1. PICK n \in Nat, m \in Nat : n = Len(a) /\ m = Len(b)
  OBVIOUS
<1>2. DOMAIN a = 1..n /\ DOMAIN b = 1..m /\ DOMAIN (a \o b) = 1..(n + m)
  BY <1>1
<1> DEFINE f == [i \in 1..n |-> a[i].bytes]
           g == [i \in 1..m |-> b[i].bytes]
           h == [i \in 1..(n + m) |-> (a \o b)[i].bytes]
<1>3. \A c \in C : c.bytes \in Int
  BY DEF Campos
<1>4. (\A i \in 1..n : a[i] \in C) /\ (\A i \in 1..m : b[i] \in C)
  BY <1>1
<1>5. (\A i \in 1..n : f[i] \in Int) /\ (\A i \in 1..m : g[i] \in Int)
  BY <1>3, <1>4
<1>6. (\A i \in 1..n : (a \o b)[i] = a[i]) /\ \A i \in 1..m : (a \o b)[n + i] = b[i]
  BY <1>1
<1>7. /\ \A i \in 1..n : h[i] = f[i]
      /\ \A i \in 1..m : h[n + i] = g[i]
  <2>1. (\A i \in 1..n : i \in 1..(n + m)) /\ \A i \in 1..m : n + i \in 1..(n + m)
    OBVIOUS
  <2> QED
    BY <1>6, <2>1
<1> HIDE DEF f, g, h
<1>8. \A i \in 1..(n + m) : h[i] \in Int
  <2>1. ASSUME NEW i \in 1..(n + m) PROVE h[i] \in Int
    <3>1. CASE i <= n
      <4>1. i \in 1..n
        BY <3>1
      <4> QED
        BY <4>1, <1>5, <1>7
    <3>2. CASE i > n
      <4>1. i - n \in 1..m /\ n + (i - n) = i
        BY <3>2
      <4> QED
        BY <4>1, <1>5, <1>7
    <3> QED
      BY <3>1, <3>2
  <2> QED
    BY <2>1
<1>9. SumFunctionOnSet(h, 1..(n + m)) = SumFunctionOnSet(h, 1..n) + SumFunctionOnSet(g, 1..m)
  BY <1>7, <1>8, SumaPartida
<1>10. IsFiniteSet(1..n) /\ IsFiniteSet(1..m)
  BY FS_Interval
<1>11. SumFunctionOnSet(f, 1..n) = SumFunctionOnSet(h, 1..n)
  BY <1>5, <1>7, <1>10, SumaMismos
<1>12. SumFunctionOnSet(f, 1..n) \in Int /\ SumFunctionOnSet(g, 1..m) \in Int
  BY <1>5, <1>10, SumaEntera
<1>13. /\ BytesDe(a) = SumFunctionOnSet(f, 1..n) /\ BytesDe(b) = SumFunctionOnSet(g, 1..m)
       /\ BytesDe(a \o b) = SumFunctionOnSet(h, 1..(n + m))
  BY <1>2 DEF BytesDe, f, g, h
<1> QED
  BY <1>9, <1>11, <1>12, <1>13

\* Fields of the same size.
LEMMA BytesIguales ==
  ASSUME NEW c, NEW n \in Nat, DOMAIN c = 1..n, NEW k \in Int, \A i \in 1..n : c[i].bytes = k
  PROVE  BytesDe(c) = n * k
<1> DEFINE f == [i \in DOMAIN c |-> c[i].bytes]
<1>1. \A i \in 1..n : f[i] = k
  OBVIOUS
<1>2. BytesDe(c) = SumFunctionOnSet(f, 1..n)
  BY DEF BytesDe
<1> HIDE DEF f
<1> QED
  BY <1>1, <1>2, SumaConstante

\* The bytes of what is joined are those of its parts.
LEMMA BytesAplanados ==
  ASSUME NEW N, NEW D, NEW E, NEW s \in Seq(Seq(Campos(N, D, E))),
         NEW f, \A i \in 1..Len(s) : f[i] = BytesDe(s[i])
  PROVE  BytesDe(FlattenSeq(s)) = SumFunctionOnSet(f, 1..Len(s))
<1> DEFINE C == Campos(N, D, E)
           n == Len(s)
<1>1. n \in Nat /\ \A i \in 1..n : s[i] \in Seq(C)
  OBVIOUS
<1>2. BytesDe(<<>>) = 0
  <2>1. DOMAIN <<>> = {}
    OBVIOUS
  <2> QED
    BY <2>1, SumaVacia DEF BytesDe
<1>3. CASE s = <<>>
  <2>1. n = 0 /\ 1..0 = {} /\ FlattenSeq(s) = <<>>
    BY <1>3 DEF FlattenSeq
  <2> QED
    BY <1>2, <2>1, SumaVacia
<1>4. CASE s # <<>>
  <2>1. PICK g \in [1..n -> Seq(C)] :
           /\ g[1] = s[1] /\ FlattenSeq(s) = g[n]
           /\ \A i \in 2..n : g[i] = g[i-1] \o s[i]
    BY <1>4, AplanarEs
  <2>2. \A i \in 1..n : g[i] \in Seq(C)
    BY <2>1
  <2>3. n >= 1
    BY <1>4
  <2> HIDE DEF C
  <2>4. \A i \in 1..n : f[i] \in Int
    <3>1. \A i \in 1..n : BytesDe(s[i]) \in Int
      BY <1>1, BytesPegados DEF C
    <3> QED
      BY <3>1
  <2> DEFINE Sf(k) == SumFunctionOnSet(f, 1..k)
             B == {k \in 0..n : k = 0 \/ BytesDe(g[k]) = Sf(k)}
  <2>5. ASSUME NEW k \in 1..n PROVE Sf(k) = Sf(k-1) + f[k]
    <3>1. k - 1 \in Nat /\ (k - 1) + 1 = k /\ \A i \in 1..k : i \in 1..n
      BY <1>1
    <3>2. \A i \in 1..k : f[i] \in Int
      BY <3>1, <2>4
    <3> QED
      BY ONLY <3>1, <3>2, SumaUltimo
  <2>6. Sf(0) = 0
    <3>1. 1..0 = {}
      OBVIOUS
    <3> QED
      BY <3>1, SumaVacia
  <2> HIDE DEF Sf
  <2>7. 0 \in B /\ B \in SUBSET (0..n)
    BY <1>1
  <2>8. ASSUME NEW k \in 1..n, k - 1 \in B PROVE k \in B
    <3>1. CASE k = 1
      <4>1. BytesDe(g[1]) = f[1] /\ Sf(1) = 0 + f[1] /\ f[1] \in Int
        <5>1. 1 \in 1..n /\ 1 - 1 = 0
          BY <2>3, <1>1
        <5> QED
          BY <5>1, <2>1, <2>4, <2>5, <2>6
      <4> QED
        BY <3>1, <4>1
    <3>2. CASE k # 1
      <4>1. k \in 2..n /\ k - 1 \in 1..n /\ k - 1 # 0
        BY <3>2, <1>1
      <4>2. BytesDe(g[k-1]) = Sf(k-1)
        BY <4>1, <2>8
      <4>3. g[k] = g[k-1] \o s[k] /\ g[k-1] \in Seq(C) /\ s[k] \in Seq(C)
        BY <4>1, <2>1, <2>2, <1>1 DEF C
      <4>4. BytesDe(g[k-1] \o s[k]) = BytesDe(g[k-1]) + BytesDe(s[k])
        <5>1. PICK x \in Seq(C), y \in Seq(C) : x = g[k-1] /\ y = s[k]
          BY <4>3
        <5>2. BytesDe(x \o y) = BytesDe(x) + BytesDe(y)
          BY BytesPegados DEF C
        <5> QED
          BY ONLY <5>1, <5>2
      <4>5. BytesDe(g[k]) = Sf(k)
        BY <4>2, <4>3, <4>4, <2>5
      <4> QED
        BY <4>5
    <3> QED
      BY <3>1, <3>2
  <2>9. B = 0..n
    <3> HIDE DEF B
    <3> QED
      BY <1>1, <2>7, <2>8, HastaN
  <2>10. n \in B /\ n # 0
    BY <1>1, <2>3, <2>9
  <2> QED
    BY <2>1, <2>10 DEF Sf
<1> QED
  BY <1>3, <1>4

LEMMA BytesDeUno ==
  ASSUME NEW N, NEW D, NEW E, NEW x \in Campos(N, D, E)
  PROVE  BytesDe(<<x>>) = x.bytes
<1>1. x.bytes \in Int
  BY DEF Campos
<1>2. DOMAIN <<x>> = 1..1 /\ \A i \in 1..1 : <<x>>[i].bytes = x.bytes
  OBVIOUS
<1>3. PICK w : w = <<x>>
  OBVIOUS
<1>4. BytesDe(w) = 1 * x.bytes
  BY <1>1, <1>2, <1>3, BytesIguales
<1> QED
  BY <1>1, <1>3, <1>4

LEMMA BytesDeUnoMas ==
  ASSUME NEW N, NEW D, NEW E, NEW s \in Seq(Campos(N, D, E)), NEW x \in Campos(N, D, E)
  PROVE  BytesDe(Append(s, x)) = BytesDe(s) + x.bytes
<1> DEFINE C == Campos(N, D, E)
<1>0. <<x>> \in Seq(C)
  OBVIOUS
<1>1. PICK u \in Seq(C) : u = <<x>>
  BY <1>0
<1>2. BytesDe(u) = x.bytes
  BY <1>1, BytesDeUno
<1> HIDE DEF C
<1>3. BytesDe(s \o u) = BytesDe(s) + BytesDe(u)
  BY BytesPegados DEF C
<1>4. Append(s, x) = s \o u
  BY <1>1, AppendIsConcat
<1> QED
  BY <1>2, <1>3, <1>4

LEMMA BytesDeDos ==
  ASSUME NEW N, NEW D, NEW E, NEW x \in Campos(N, D, E), NEW y \in Campos(N, D, E)
  PROVE  BytesDe(<<x, y>>) = x.bytes + y.bytes
<1>1. <<x, y>> = Append(<<x>>, y) /\ <<x>> \in Seq(Campos(N, D, E))
  OBVIOUS
<1>2. PICK s \in Seq(Campos(N, D, E)) : s = <<x>>
  BY <1>1
<1>3. BytesDe(s) = x.bytes
  BY <1>2, BytesDeUno
<1>4. BytesDe(Append(s, y)) = BytesDe(s) + y.bytes
  BY BytesDeUnoMas
<1> QED
  BY ONLY <1>1, <1>2, <1>3, <1>4

LEMMA BytesDeTres ==
  ASSUME NEW N, NEW D, NEW E, NEW x \in Campos(N, D, E), NEW y \in Campos(N, D, E),
         NEW z \in Campos(N, D, E)
  PROVE  BytesDe(<<x, y, z>>) = x.bytes + y.bytes + z.bytes
<1>1. <<x, y, z>> = Append(<<x, y>>, z) /\ <<x, y>> \in Seq(Campos(N, D, E))
  OBVIOUS
<1>2. PICK s \in Seq(Campos(N, D, E)) : s = <<x, y>>
  BY <1>1
<1>3. BytesDe(s) = x.bytes + y.bytes
  BY <1>2, BytesDeDos
<1>4. BytesDe(Append(s, z)) = BytesDe(s) + z.bytes
  BY BytesDeUnoMas
<1> QED
  BY ONLY <1>1, <1>2, <1>3, <1>4

\* The bytes of a node are those that its size counts.
LEMMA BytesDeNodo ==
  ASSUME NEW N, NEW D, NEW E, NEW nodo \in Nodos(N, D)
  PROVE  /\ Len(nodo.args) \in Nat /\ Len(nodo.vars) \in Nat
         /\ BytesDe(serializarNodo(nodo))
              = 4 * 2 + Len(nodo.args) * 12 + Len(nodo.vars) * (1 + 12) + 4 + 12
<1> DEFINE C == Campos(N, D, E)
           pa == <<Entero(Len(nodo.args))>>
           pb == [i \in DOMAIN nodo.args |-> Posicion(nodo.args[i])]
           pc1 == <<Entero(Len(nodo.vars))>>
           pares == [i \in DOMAIN nodo.vars |->
                       <<Letra(nodo.vars[i].idVar), Posicion(nodo.vars[i].dirVar)>>]
           pd == FlattenSeq(pares)
           pe == <<Entero(nodo.retPos), Posicion(nodo.retVar)>>
<1>1. PICK a \in Nat, v \in Nat : a = Len(nodo.args) /\ v = Len(nodo.vars)
  BY DEF Nodos
<1>2. /\ DOMAIN nodo.args = 1..a /\ DOMAIN nodo.vars = 1..v
      /\ nodo.retPos \in Int /\ nodo.retVar \in D
      /\ \A i \in 1..a : nodo.args[i] \in D
      /\ \A i \in 1..v : nodo.vars[i].idVar \in N /\ nodo.vars[i].dirVar \in D
  <2>1. /\ nodo.args \in Seq(D) /\ nodo.vars \in Seq(Vars(N, D))
        /\ nodo.retPos \in Int /\ nodo.retVar \in D
    BY DEF Nodos
  <2>2. \A x \in Vars(N, D) : x.idVar \in N /\ x.dirVar \in D
    BY DEF Vars
  <2>3. \A i \in 1..v : nodo.vars[i] \in Vars(N, D)
    BY <1>1, <2>1
  <2>4. \A i \in 1..a : nodo.args[i] \in D
    BY <1>1, <2>1
  <2>5. DOMAIN nodo.args = 1..a /\ DOMAIN nodo.vars = 1..v
    BY <1>1, <2>1
  <2> QED
    BY <2>1, <2>2, <2>3, <2>4, <2>5
<1>3. serializarNodo(nodo) = (((pa \o pb) \o pc1) \o pd) \o pe
  BY DEF serializarNodo
<1>4. pa \in Seq(C) /\ BytesDe(pa) = 4 /\ pc1 \in Seq(C) /\ BytesDe(pc1) = 4
  <2>1. Entero(a) \in C /\ Entero(v) \in C /\ Entero(a).bytes = 4 /\ Entero(v).bytes = 4
    BY <1>1, CamposTipados DEF Entero, Campo
  <2>2. pa = <<Entero(a)>> /\ pc1 = <<Entero(v)>>
    BY <1>1
  <2> HIDE DEF C, pa, pc1
  <2>3. BytesDe(<<Entero(a)>>) = Entero(a).bytes /\ BytesDe(<<Entero(v)>>) = Entero(v).bytes
    BY <2>1, BytesDeUno DEF C
  <2> QED
    BY <2>1, <2>2, <2>3
<1>5. pe \in Seq(C) /\ BytesDe(pe) = 16
  <2>0. /\ Entero(nodo.retPos) \in C /\ Posicion(nodo.retVar) \in C
        /\ Entero(nodo.retPos).bytes = 4 /\ Posicion(nodo.retVar).bytes = 12
    BY <1>2, CamposTipados DEF Entero, Posicion, Campo
  <2>1. PICK x \in C, y \in C : /\ x = Entero(nodo.retPos) /\ y = Posicion(nodo.retVar)
                                /\ x.bytes = 4 /\ y.bytes = 12
    BY <2>0
  <2> HIDE DEF C
  <2>2. BytesDe(<<x, y>>) = x.bytes + y.bytes
    BY BytesDeDos DEF C
  <2> QED
    BY <2>1, <2>2
<1>6. pb \in Seq(C) /\ BytesDe(pb) = a * 12
  <2>1. pb \in [1..a -> C] /\ \A i \in 1..a : pb[i].bytes = 12
    BY <1>2, CamposTipados DEF Posicion, Campo
  <2>2. pb \in Seq(C) /\ DOMAIN pb = 1..a
    BY <1>1, <2>1
  <2> HIDE DEF pb
  <2> QED
    BY <2>1, <2>2, BytesIguales
<1>7. pd \in Seq(C) /\ BytesDe(pd) = v * 13
  <2>1. ASSUME NEW i \in 1..v
        PROVE  /\ pares[i] \in Seq(C) /\ Len(pares[i]) = 2 /\ BytesDe(pares[i]) = 13
    <3>0. /\ Letra(nodo.vars[i].idVar) \in C /\ Posicion(nodo.vars[i].dirVar) \in C
          /\ Letra(nodo.vars[i].idVar).bytes = 1 /\ Posicion(nodo.vars[i].dirVar).bytes = 12
      BY <1>2, CamposTipados DEF Letra, Posicion, Campo
    <3>1. PICK x \in C, y \in C : /\ x = Letra(nodo.vars[i].idVar)
                                  /\ y = Posicion(nodo.vars[i].dirVar)
                                  /\ x.bytes = 1 /\ y.bytes = 12
      BY <3>0
    <3>2. pares[i] = <<x, y>>
      BY <1>2, <3>1
    <3> HIDE DEF C, pares
    <3>3. BytesDe(<<x, y>>) = x.bytes + y.bytes
      BY BytesDeDos DEF C
    <3> QED
      BY <3>1, <3>2, <3>3
  <2>2. pares \in Seq(Seq(C)) /\ Len(pares) = v
    <3>1. DOMAIN pares = 1..v
      BY <1>2
    <3> HIDE DEF C
    <3>2. \A i \in 1..v : pares[i] \in Seq(C)
      BY <2>1
    <3>3. pares \in [1..v -> Seq(C)]
      BY <1>2, <3>2
    <3> HIDE DEF pares
    <3> QED
      BY <1>1, <3>3
  <2>3. PICK f : f = [i \in 1..v |-> 13]
    OBVIOUS
  <2> HIDE DEF pares
  <2>4. BytesDe(FlattenSeq(pares)) = SumFunctionOnSet(f, 1..v)
    <3>1. \A i \in 1..Len(pares) : f[i] = BytesDe(pares[i])
      BY <2>1, <2>2, <2>3
    <3> QED
      BY <2>2, <3>1, BytesAplanados
  <2>5. SumFunctionOnSet(f, 1..v) = v * 13
    BY <2>3, SumaConstante
  <2>6. FlattenSeq(pares) \in Seq(C)
    <3> HIDE DEF C
    <3> QED
      BY <2>2, AplanarLugares
  <2> QED
    BY <2>4, <2>5, <2>6
<1> HIDE DEF C, pa, pb, pc1, pd, pe
<1>8. PICK p2 : p2 = pa \o pb
  OBVIOUS
<1>9. PICK p3 : p3 = p2 \o pc1
  OBVIOUS
<1>10. PICK p4 : p4 = p3 \o pd
  OBVIOUS
<1>11. p2 \in Seq(C) /\ BytesDe(p2) = 4 + a * 12
  <2>1. pa \in Seq(C) /\ pb \in Seq(C)
    BY <1>4, <1>6
  <2>2. BytesDe(pa \o pb) = BytesDe(pa) + BytesDe(pb) /\ pa \o pb \in Seq(C)
    BY ONLY <2>1, BytesPegados, Pegar DEF C
  <2> QED
    BY <1>4, <1>6, <1>8, <2>2
<1>12. p3 \in Seq(C) /\ BytesDe(p3) = 8 + a * 12
  <2>1. p2 \in Seq(C) /\ pc1 \in Seq(C)
    BY <1>4, <1>11
  <2>2. BytesDe(p2 \o pc1) = BytesDe(p2) + BytesDe(pc1) /\ p2 \o pc1 \in Seq(C)
    BY ONLY <2>1, BytesPegados, Pegar DEF C
  <2> QED
    BY <1>4, <1>11, <1>9, <2>2
<1>13. p4 \in Seq(C) /\ BytesDe(p4) = 8 + a * 12 + v * 13
  <2>1. p3 \in Seq(C) /\ pd \in Seq(C)
    BY <1>7, <1>12
  <2>2. BytesDe(p3 \o pd) = BytesDe(p3) + BytesDe(pd) /\ p3 \o pd \in Seq(C)
    BY ONLY <2>1, BytesPegados, Pegar DEF C
  <2> QED
    BY <1>7, <1>10, <1>12, <2>2
<1>14. BytesDe(p4 \o pe) = BytesDe(p4) + BytesDe(pe)
  <2>1. p4 \in Seq(C) /\ pe \in Seq(C)
    BY <1>5, <1>13
  <2> QED
    BY ONLY <2>1, BytesPegados DEF C
<1>15. serializarNodo(nodo) = p4 \o pe
  BY <1>3, <1>8, <1>9, <1>10
<1> QED
  BY <1>1, <1>5, <1>13, <1>14, <1>15

-----------------------------------------------------------------------------
(* The whole PCB.                                                          *)

\* The fields of a PCB of n instructions, with its nodes after the field 7 + 2n, each where
\* ini says.
CamposDePcb(w, p, n, ini) ==
  LET m == Len(p.indiceStack)
  IN  /\ w[1] = Entero(p.pid) /\ w[2] = Entero(p.cantidadPaginasCodigo)
      /\ w[3] = Entero(p.programCounter) /\ w[4] = Entero(n)
      /\ \A i \in 1..n : /\ w[3 + 2 * i] = Entero(p.indiceCodigo[i][1])
                         /\ w[4 + 2 * i] = Entero(p.indiceCodigo[i][2])
      /\ w[5 + 2 * n] = Entero(p.indiceEtiquetasSize)
      /\ w[6 + 2 * n] = Campo(p.indiceEtiquetasSize, p.indiceEtiquetas)
      /\ w[7 + 2 * n] = Entero(m)
      /\ ini[0] = 0
      /\ \A k \in 0..m : ini[k] <= ini[m]
      /\ \A k \in 1..m :
           /\ ini[k] = ini[k-1] + Len(serializarNodo(p.indiceStack[k]))
           /\ \A j \in 1..Len(serializarNodo(p.indiceStack[k])) :
                w[(7 + 2 * n) + (ini[k-1] + j)] = serializarNodo(p.indiceStack[k])[j]
      /\ w[(8 + 2 * n) + ini[m]] = Entero(p.exitCode)

LEMMA PcbEscrito ==
  ASSUME NEW N, NEW D, NEW E, NEW p \in Pcbs(N, D, E), NEW n, n = Len(p.indiceCodigo)
  PROVE  /\ n \in Nat
         /\ serializarPcb(p) \in Seq(Campos(N, D, E))
         /\ \E ini \in [0..Len(p.indiceStack) -> Nat] :
              /\ CamposDePcb(serializarPcb(p), p, n, ini)
              /\ Len(serializarPcb(p)) = 8 + 2 * n + ini[Len(p.indiceStack)]
         /\ calcularPcbSerializadoSize(p) = BytesDe(serializarPcb(p))
<1> DEFINE C == Campos(N, D, E)
           m == Len(p.indiceStack)
           q1 == <<Entero(p.pid), Entero(p.cantidadPaginasCodigo), Entero(p.programCounter),
                   Entero(cantidadInstrucciones(p))>>
           pares == [i \in DOMAIN p.indiceCodigo |->
                       <<Entero(p.indiceCodigo[i][1]), Entero(p.indiceCodigo[i][2])>>]
           q2 == FlattenSeq(pares)
           q3 == <<Entero(p.indiceEtiquetasSize),
                   Campo(p.indiceEtiquetasSize, p.indiceEtiquetas),
                   Entero(Len(p.indiceStack))>>
           nodos == [i \in DOMAIN p.indiceStack |-> serializarNodo(p.indiceStack[i])]
           q4 == FlattenSeq(nodos)
           q5 == <<Entero(p.exitCode)>>
           size == p.indiceEtiquetasSize
<1>1. /\ p.pid \in Int /\ p.cantidadPaginasCodigo \in Int /\ p.programCounter \in Int
      /\ p.indiceCodigo \in Seq(Int \X Int) /\ p.indiceEtiquetas \in E /\ size \in Nat
      /\ p.indiceStack \in Seq(Nodos(N, D)) /\ p.exitCode \in Int
  BY DEF Pcbs
<1>2. n \in Nat /\ m \in Nat /\ DOMAIN p.indiceCodigo = 1..n /\ DOMAIN p.indiceStack = 1..m
  BY <1>1
<1>3. \A i \in 1..n : p.indiceCodigo[i][1] \in Int /\ p.indiceCodigo[i][2] \in Int
  <2>1. \A i \in 1..n : p.indiceCodigo[i] \in Int \X Int
    BY <1>1
  <2> QED
    BY <2>1
<1>4. \A i \in 1..m : p.indiceStack[i] \in Nodos(N, D)
  BY <1>1
<1>5. serializarPcb(p) = (((q1 \o q2) \o q3) \o q4) \o q5
  BY DEF serializarPcb
<1>6. \A k \in Int : Entero(k) \in C /\ Entero(k).bytes = 4
  BY CamposTipados DEF Entero, Campo
<1>7. /\ q1 \in Seq(C) /\ Len(q1) = 4 /\ BytesDe(q1) = 16
      /\ q1[1] = Entero(p.pid) /\ q1[2] = Entero(p.cantidadPaginasCodigo)
      /\ q1[3] = Entero(p.programCounter) /\ q1[4] = Entero(n)
  <2>1. cantidadInstrucciones(p) = n
    BY DEF cantidadInstrucciones
  <2>2. PICK x1 \in C, x2 \in C, x3 \in C, x4 \in C :
          /\ x1 = Entero(p.pid) /\ x2 = Entero(p.cantidadPaginasCodigo)
          /\ x3 = Entero(p.programCounter) /\ x4 = Entero(n)
          /\ x1.bytes = 4 /\ x2.bytes = 4 /\ x3.bytes = 4 /\ x4.bytes = 4
    BY <1>1, <1>2, <1>6
  <2>3. q1 = <<x1, x2, x3, x4>>
    BY <2>1, <2>2
  <2> HIDE DEF C, q1
  <2>4. /\ q1 \in Seq(C) /\ Len(q1) = 4 /\ DOMAIN q1 = 1..4
        /\ q1[1] = x1 /\ q1[2] = x2 /\ q1[3] = x3 /\ q1[4] = x4
    BY <2>3
  <2>5. \A i \in 1..4 : q1[i].bytes = 4
    <3>1. \A i \in 1..4 : i = 1 \/ i = 2 \/ i = 3 \/ i = 4
      OBVIOUS
    <3> QED
      BY ONLY <3>1, <2>2, <2>4
  <2>6. BytesDe(q1) = 4 * 4
    <3>1. 4 \in Nat /\ 4 \in Int /\ DOMAIN q1 = 1..4
      BY <2>4
    <3> QED
      BY ONLY <3>1, <2>5, BytesIguales
  <2> QED
    BY <2>2, <2>4, <2>6
<1>8. /\ q2 \in Seq(C) /\ Len(q2) = 2 * n /\ BytesDe(q2) = n * 8
      /\ \A i \in 1..n : /\ q2[2 * i - 1] = Entero(p.indiceCodigo[i][1])
                         /\ q2[2 * i] = Entero(p.indiceCodigo[i][2])
  <2>1. ASSUME NEW i \in 1..n
        PROVE  /\ pares[i] \in Seq(C) /\ Len(pares[i]) = 2 /\ BytesDe(pares[i]) = 8
               /\ pares[i][1] = Entero(p.indiceCodigo[i][1])
               /\ pares[i][2] = Entero(p.indiceCodigo[i][2])
    <3>1. PICK x \in C, y \in C : /\ x = Entero(p.indiceCodigo[i][1])
                                  /\ y = Entero(p.indiceCodigo[i][2])
                                  /\ x.bytes = 4 /\ y.bytes = 4
      BY <1>3, <1>6
    <3>2. pares[i] = <<x, y>>
      BY <1>2, <3>1
    <3> HIDE DEF C, pares
    <3>3. BytesDe(<<x, y>>) = x.bytes + y.bytes
      BY BytesDeDos DEF C
    <3> QED
      BY <3>1, <3>2, <3>3
  <2>2. pares \in Seq(Seq(C)) /\ Len(pares) = n
    <3> HIDE DEF C
    <3>2. \A i \in 1..n : pares[i] \in Seq(C)
      BY <2>1
    <3>3. pares \in [1..n -> Seq(C)]
      BY <1>2, <3>2
    <3> HIDE DEF pares
    <3> QED
      BY <1>2, <3>3
  <2>3. PICK f : f = [i \in 1..n |-> 8]
    OBVIOUS
  <2> HIDE DEF pares
  <2>4. BytesDe(FlattenSeq(pares)) = SumFunctionOnSet(f, 1..n)
    <3>1. \A i \in 1..Len(pares) : f[i] = BytesDe(pares[i])
      BY <2>1, <2>2, <2>3
    <3> QED
      BY <2>2, <3>1, BytesAplanados
  <2>5. SumFunctionOnSet(f, 1..n) = n * 8
    <3>1. n \in Nat /\ 8 \in Int /\ \A i \in 1..n : f[i] = 8
      BY <1>2, <2>3
    <3> QED
      BY ONLY <3>1, SumaConstante
  <2>6. /\ FlattenSeq(pares) \in Seq(C) /\ Len(FlattenSeq(pares)) = 2 * n
        /\ \A i \in 1..n : /\ FlattenSeq(pares)[2 * i - 1] = pares[i][1]
                           /\ FlattenSeq(pares)[2 * i] = pares[i][2]
    <3> HIDE DEF C
    <3>1. \A i \in 1..Len(pares) : Len(pares[i]) = 2
      BY <2>1, <2>2
    <3> QED
      BY <2>2, <3>1, AplanarPares
  <2> QED
    BY <2>1, <2>4, <2>5, <2>6
<1>9. /\ q3 \in Seq(C) /\ Len(q3) = 3 /\ BytesDe(q3) = 8 + size
      /\ q3[1] = Entero(size) /\ q3[2] = Campo(size, p.indiceEtiquetas) /\ q3[3] = Entero(m)
  <2>1. Campo(size, p.indiceEtiquetas) \in C /\ Campo(size, p.indiceEtiquetas).bytes = size
    BY <1>1, CamposTipados DEF Campo
  <2>2. PICK x \in C, y \in C, z \in C :
          /\ x = Entero(size) /\ y = Campo(size, p.indiceEtiquetas) /\ z = Entero(m)
          /\ x.bytes = 4 /\ y.bytes = size /\ z.bytes = 4
    BY <1>1, <1>2, <1>6, <2>1
  <2>3. q3 = <<x, y, z>>
    BY <2>2
  <2> HIDE DEF C
  <2>4. BytesDe(<<x, y, z>>) = x.bytes + y.bytes + z.bytes
    BY BytesDeTres DEF C
  <2> QED
    BY <1>1, <2>2, <2>3, <2>4
<1>10. \A i \in 1..m :
         /\ nodos[i] \in Seq(C) /\ nodos[i] = serializarNodo(p.indiceStack[i])
         /\ BytesDe(nodos[i]) = 4 * 2 + Len(p.indiceStack[i].args) * 12
                                + Len(p.indiceStack[i].vars) * (1 + 12) + 4 + 12
  <2> SUFFICES ASSUME NEW i \in 1..m
               PROVE  /\ nodos[i] \in Seq(C) /\ nodos[i] = serializarNodo(p.indiceStack[i])
                      /\ BytesDe(nodos[i]) = 4 * 2 + Len(p.indiceStack[i].args) * 12
                                + Len(p.indiceStack[i].vars) * (1 + 12) + 4 + 12
    OBVIOUS
  <2>1. nodos[i] = serializarNodo(p.indiceStack[i])
    BY <1>2
  <2>2. PICK nodo \in Nodos(N, D) : nodo = p.indiceStack[i]
    BY <1>4
  <2>3. PICK a, v : a = Len(nodo.args) /\ v = Len(nodo.vars)
    OBVIOUS
  <2> HIDE DEF nodos
  <2>4. serializarNodo(nodo) \in Seq(C)
    BY <2>3, NodoEscrito
  <2>5. BytesDe(serializarNodo(nodo))
          = 4 * 2 + Len(nodo.args) * 12 + Len(nodo.vars) * (1 + 12) + 4 + 12
    BY BytesDeNodo
  <2> QED
    BY ONLY <2>1, <2>2, <2>4, <2>5
<1>11. nodos \in Seq(Seq(C)) /\ Len(nodos) = m
  <2> HIDE DEF C
  <2>1. nodos \in [1..m -> Seq(C)]
    BY <1>2, <1>10
  <2> HIDE DEF nodos
  <2> QED
    BY <1>2, <2>1
<1> HIDE DEF C, nodos
<1>12. PICK ini \in [0..m -> Nat] :
          /\ ini[0] = 0 /\ ini[m] = Len(q4)
          /\ \A i \in 1..m :
               /\ ini[i] = ini[i-1] + Len(nodos[i])
               /\ \A j \in 1..Len(nodos[i]) :
                    /\ ini[i-1] + j \in 1..Len(q4) /\ q4[ini[i-1] + j] = nodos[i][j]
  BY SMTT(30), <1>11, AplanarLugares
<1>13. q4 \in Seq(C) /\ BytesDe(q4) = calcularIndiceStackSize(p.indiceStack)
  <2>1. q4 \in Seq(C)
    BY <1>11, AplanarLugares
  <2>2. PICK f : f = [i \in DOMAIN p.indiceStack |->
       4 * 2 + Len(p.indiceStack[i].args) * 12 + Len(p.indiceStack[i].vars) * (1 + 12) + 4 + 12]
    OBVIOUS
  <2>3. calcularIndiceStackSize(p.indiceStack) = SumFunctionOnSet(f, 1..m)
    BY <1>2, <2>2 DEF calcularIndiceStackSize
  <2>4. \A i \in 1..Len(nodos) : f[i] = BytesDe(nodos[i])
    BY <1>2, <1>10, <1>11, <2>2
  <2>5. BytesDe(FlattenSeq(nodos)) = SumFunctionOnSet(f, 1..m)
    BY <1>11, <2>4, BytesAplanados DEF C
  <2> QED
    BY <2>1, <2>3, <2>5
<1>14. q5 \in Seq(C) /\ Len(q5) = 1 /\ BytesDe(q5) = 4 /\ q5[1] = Entero(p.exitCode)
  <2>1. PICK x \in C : x = Entero(p.exitCode) /\ x.bytes = 4
    BY <1>1, <1>6
  <2>2. q5 = <<x>>
    BY <2>1
  <2>3. BytesDe(<<x>>) = x.bytes
    BY BytesDeUno DEF C
  <2> QED
    BY <2>1, <2>2, <2>3
<1>15. calcularPcbSerializadoSize(p) = 28 + n * 8 + size + calcularIndiceStackSize(p.indiceStack)
  <2>1. cantidadInstrucciones(p) = n
    BY DEF cantidadInstrucciones
  <2>2. calcularIndiceStackSize(p.indiceStack) \in Int
    <3>1. BytesDe(q4) \in Int
      BY <1>13, BytesPegados DEF C
    <3> QED
      BY <1>13, <3>1
  <2>3. calcularPcbSerializadoSize(p)
          = 4 * 5 + 4 + 4 + n * 4 * 2 + size + calcularIndiceStackSize(p.indiceStack)
    BY <2>1 DEF calcularPcbSerializadoSize
  <2>4. n \in Nat /\ size \in Nat
    BY <1>1, <1>2
  <2> HIDE DEF size
  <2> QED
    BY ONLY <2>2, <2>3, <2>4
<1> HIDE DEF q1, q2, q3, q4, q5
<1>16. PICK p2 : p2 = q1 \o q2
  OBVIOUS
<1>17. PICK p3 : p3 = p2 \o q3
  OBVIOUS
<1>18. PICK p4 : p4 = p3 \o q4
  OBVIOUS
<1>19. PICK w : w = p4 \o q5
  OBVIOUS
<1>20. serializarPcb(p) = w
  BY <1>5, <1>16, <1>17, <1>18, <1>19
<1>21. /\ p2 \in Seq(C) /\ Len(p2) = 4 + 2 * n /\ BytesDe(p2) = 16 + n * 8
       /\ p2[1] = q1[1] /\ p2[2] = q1[2] /\ p2[3] = q1[3] /\ p2[4] = q1[4]
       /\ \A i \in 1..(2 * n) : p2[4 + i] = q2[i]
  <2>1. q1 \in Seq(C) /\ q2 \in Seq(C)
    BY <1>7, <1>8
  <2>2. /\ BytesDe(q1 \o q2) = BytesDe(q1) + BytesDe(q2)
        /\ q1 \o q2 \in Seq(C) /\ Len(q1 \o q2) = Len(q1) + Len(q2)
        /\ \A i \in 1..Len(q1) : (q1 \o q2)[i] = q1[i]
        /\ \A i \in 1..Len(q2) : (q1 \o q2)[Len(q1) + i] = q2[i]
    BY ONLY <2>1, BytesPegados, Pegar DEF C
  <2> QED
    <3>1. p2 \in Seq(C) /\ Len(p2) = 4 + 2 * n
      BY <1>2, <1>7, <1>8, <1>16, <2>2
    <3>2. BytesDe(p2) = 16 + n * 8
      BY <1>2, <1>7, <1>8, <1>16, <2>2
    <3>3. p2[1] = q1[1] /\ p2[2] = q1[2] /\ p2[3] = q1[3] /\ p2[4] = q1[4]
      BY <1>7, <1>16, <2>2
    <3>4. \A i \in 1..(2 * n) : p2[4 + i] = q2[i]
      BY <1>7, <1>8, <1>16, <2>2
    <3> QED
      BY ONLY <3>1, <3>2, <3>3, <3>4
<1>22. /\ p3 \in Seq(C) /\ Len(p3) = 7 + 2 * n /\ BytesDe(p3) = 24 + n * 8 + size
       /\ \A i \in 1..(4 + 2 * n) : p3[i] = p2[i]
       /\ p3[5 + 2 * n] = q3[1] /\ p3[6 + 2 * n] = q3[2] /\ p3[7 + 2 * n] = q3[3]
  <2>1. p2 \in Seq(C) /\ q3 \in Seq(C)
    BY <1>21, <1>9
  <2>2. /\ BytesDe(p2 \o q3) = BytesDe(p2) + BytesDe(q3)
        /\ p2 \o q3 \in Seq(C) /\ Len(p2 \o q3) = Len(p2) + Len(q3)
        /\ \A i \in 1..Len(p2) : (p2 \o q3)[i] = p2[i]
        /\ \A i \in 1..Len(q3) : (p2 \o q3)[Len(p2) + i] = q3[i]
    BY ONLY <2>1, BytesPegados, Pegar DEF C
  <2>3. /\ p3[(4 + 2 * n) + 1] = q3[1] /\ p3[(4 + 2 * n) + 2] = q3[2]
        /\ p3[(4 + 2 * n) + 3] = q3[3]
    <3>1. 1 \in 1..Len(q3) /\ 2 \in 1..Len(q3) /\ 3 \in 1..Len(q3)
      BY <1>9
    <3>2. p3 = p2 \o q3 /\ Len(p2) = 4 + 2 * n
      BY <1>17, <1>21
    <3> QED
      BY ONLY <2>2, <3>1, <3>2
  <2>4. /\ (4 + 2 * n) + 1 = 5 + 2 * n /\ (4 + 2 * n) + 2 = 6 + 2 * n
        /\ (4 + 2 * n) + 3 = 7 + 2 * n
    BY <1>2
  <2>5. p3 \in Seq(C) /\ Len(p3) = 7 + 2 * n /\ \A i \in 1..(4 + 2 * n) : p3[i] = p2[i]
    BY <1>2, <1>9, <1>17, <1>21, <2>2
  <2>6. BytesDe(p3) = 24 + n * 8 + size
    <3>1. BytesDe(p3) = (16 + n * 8) + (8 + size)
      BY <1>9, <1>17, <1>21, <2>2
    <3>2. n \in Nat /\ size \in Nat
      BY <1>1, <1>2
    <3> HIDE DEF size
    <3> QED
      BY ONLY <3>1, <3>2
  <2> QED
    BY ONLY <2>3, <2>4, <2>5, <2>6
<1>23. /\ p4 \in Seq(C) /\ Len(p4) = 7 + 2 * n + ini[m]
       /\ BytesDe(p4) = 24 + n * 8 + size + calcularIndiceStackSize(p.indiceStack)
       /\ \A i \in 1..(7 + 2 * n) : p4[i] = p3[i]
       /\ \A i \in 1..ini[m] : p4[(7 + 2 * n) + i] = q4[i]
  <2>1. p3 \in Seq(C) /\ q4 \in Seq(C)
    BY <1>22, <1>13
  <2>2. /\ BytesDe(p3 \o q4) = BytesDe(p3) + BytesDe(q4)
        /\ p3 \o q4 \in Seq(C) /\ Len(p3 \o q4) = Len(p3) + Len(q4)
        /\ \A i \in 1..Len(p3) : (p3 \o q4)[i] = p3[i]
        /\ \A i \in 1..Len(q4) : (p3 \o q4)[Len(p3) + i] = q4[i]
    BY ONLY <2>1, BytesPegados, Pegar DEF C
  <2> QED
    BY <1>2, <1>12, <1>13, <1>18, <1>22, <2>2
<1>24. /\ w \in Seq(C) /\ Len(w) = 8 + 2 * n + ini[m]
       /\ BytesDe(w) = 28 + n * 8 + size + calcularIndiceStackSize(p.indiceStack)
       /\ \A i \in 1..(7 + 2 * n + ini[m]) : w[i] = p4[i]
       /\ w[(8 + 2 * n) + ini[m]] = q5[1]
  <2>1. p4 \in Seq(C) /\ q5 \in Seq(C)
    BY <1>23, <1>14
  <2>2. /\ BytesDe(p4 \o q5) = BytesDe(p4) + BytesDe(q5)
        /\ p4 \o q5 \in Seq(C) /\ Len(p4 \o q5) = Len(p4) + Len(q5)
        /\ \A i \in 1..Len(p4) : (p4 \o q5)[i] = p4[i]
        /\ \A i \in 1..Len(q5) : (p4 \o q5)[Len(p4) + i] = q5[i]
    BY ONLY <2>1, BytesPegados, Pegar DEF C
  <2>3. ini[m] \in Nat
    BY <1>2, <1>12
  <2>4. /\ w \in Seq(C) /\ Len(w) = (7 + 2 * n + ini[m]) + 1
        /\ \A i \in 1..(7 + 2 * n + ini[m]) : w[i] = p4[i]
    BY <1>14, <1>19, <1>23, <2>2
  <2>5. w[(7 + 2 * n + ini[m]) + 1] = q5[1]
    BY <1>14, <1>19, <1>23, <2>2
  <2>6. (7 + 2 * n + ini[m]) + 1 = (8 + 2 * n) + ini[m]
    BY <1>2, <2>3
  <2>7. BytesDe(w) = BytesDe(p4) + 4 /\ BytesDe(p4) \in Int
    <3>1. BytesDe(p4) \in Int
      BY ONLY <2>1, BytesPegados DEF C
    <3> QED
      BY <1>14, <1>19, <2>2, <3>1
  <2>8. BytesDe(w) = 28 + n * 8 + size + calcularIndiceStackSize(p.indiceStack)
    <3>1. BytesDe(q4) \in Int
      BY <1>13, BytesPegados DEF C
    <3>2. /\ calcularIndiceStackSize(p.indiceStack) \in Int /\ n \in Nat /\ size \in Nat
          /\ BytesDe(w) = (24 + n * 8 + size + calcularIndiceStackSize(p.indiceStack)) + 4
      BY <1>1, <1>2, <1>13, <1>23, <2>7, <3>1
    <3> HIDE DEF size
    <3> QED
      BY ONLY <3>2
  <2> QED
    BY <2>4, <2>5, <2>6, <2>8
<1>25. CamposDePcb(w, p, n, ini)
  <2>1. ini[m] \in Nat /\ \A i \in 1..(7 + 2 * n) : i \in 1..(7 + 2 * n + ini[m])
    BY <1>2, <1>12
  <2>2. \A i \in 1..(7 + 2 * n) : w[i] = p3[i]
    BY <1>23, <1>24, <2>1
  <2>3. \A i \in 1..(4 + 2 * n) : w[i] = p2[i]
    BY <1>2, <1>22, <2>2
  <2>4. /\ w[1] = Entero(p.pid) /\ w[2] = Entero(p.cantidadPaginasCodigo)
        /\ w[3] = Entero(p.programCounter) /\ w[4] = Entero(n)
    BY <1>2, <1>7, <1>21, <2>3
  <2>5. ASSUME NEW i \in 1..n
        PROVE  /\ w[3 + 2 * i] = Entero(p.indiceCodigo[i][1])
               /\ w[4 + 2 * i] = Entero(p.indiceCodigo[i][2])
    <3>1. /\ 2 * i - 1 \in 1..(2 * n) /\ 2 * i \in 1..(2 * n)
          /\ 4 + (2 * i - 1) = 3 + 2 * i
          /\ 3 + 2 * i \in 1..(4 + 2 * n) /\ 4 + 2 * i \in 1..(4 + 2 * n)
      BY <1>2
    <3>2. w[3 + 2 * i] = q2[2 * i - 1] /\ w[4 + 2 * i] = q2[2 * i]
      BY <1>21, <2>3, <3>1
    <3> QED
      BY <1>8, <3>2
  <2>6. /\ w[5 + 2 * n] = Entero(p.indiceEtiquetasSize)
        /\ w[6 + 2 * n] = Campo(p.indiceEtiquetasSize, p.indiceEtiquetas)
        /\ w[7 + 2 * n] = Entero(m)
    <3>1. /\ 5 + 2 * n \in 1..(7 + 2 * n) /\ 6 + 2 * n \in 1..(7 + 2 * n)
          /\ 7 + 2 * n \in 1..(7 + 2 * n)
      BY <1>2
    <3> QED
      BY <1>9, <1>22, <2>2, <3>1
  <2>7. ASSUME NEW k \in 1..m
        PROVE  /\ ini[k] = ini[k-1] + Len(serializarNodo(p.indiceStack[k]))
               /\ \A j \in 1..Len(serializarNodo(p.indiceStack[k])) :
                    w[(7 + 2 * n) + (ini[k-1] + j)] = serializarNodo(p.indiceStack[k])[j]
    <3>1. nodos[k] = serializarNodo(p.indiceStack[k])
      BY <1>10
    <3>2. ASSUME NEW j \in 1..Len(nodos[k])
          PROVE  w[(7 + 2 * n) + (ini[k-1] + j)] = nodos[k][j]
      <4>1. ini[k-1] + j \in 1..ini[m] /\ q4[ini[k-1] + j] = nodos[k][j]
        BY <1>12
      <4>2. (7 + 2 * n) + (ini[k-1] + j) \in 1..(7 + 2 * n + ini[m])
        BY <1>2, <2>1, <4>1
      <4> QED
        BY <1>23, <1>24, <4>1, <4>2
    <3> QED
      BY <1>12, <3>1, <3>2
  <2>8. w[(8 + 2 * n) + ini[m]] = Entero(p.exitCode)
    BY <1>14, <1>24
  <2>9. \A k \in 0..m : ini[k] <= ini[m]
    <3> SUFFICES ASSUME NEW k \in 0..m, k # m PROVE ini[k] <= ini[m]
      BY <2>1
    <3>1. k + 1 \in 1..m /\ (k + 1) - 1 = k
      BY <1>2
    <3>2. PICK nodo \in Nodos(N, D) : nodo = p.indiceStack[k + 1]
      BY <1>4, <3>1
    <3>3. PICK a, v : a = Len(nodo.args) /\ v = Len(nodo.vars)
      OBVIOUS
    <3>4. CamposDeNodo(serializarNodo(nodo), nodo, a, v)
      BY <3>3, NodoEscrito
    <3>5. nodos[k + 1] = serializarNodo(nodo) /\ Len(serializarNodo(nodo)) = 4 + a + 2 * v
      BY <1>10, <3>1, <3>2, <3>4 DEF CamposDeNodo
    <3>6. 1 \in 1..Len(nodos[k + 1])
      BY <3>4, <3>5 DEF CamposDeNodo
    <3>7. ini[k] + 1 \in 1..Len(q4)
      BY <1>12, <3>1, <3>6
    <3>8. ini[k] \in Nat
      BY <1>12
    <3> QED
      BY <1>12, <3>7, <3>8
  <2> QED
    BY <1>12, <2>4, <2>5, <2>6, <2>7, <2>8, <2>9 DEF CamposDePcb
<1> QED
  <2>1. calcularPcbSerializadoSize(p) = BytesDe(w)
    BY <1>15, <1>24
  <2>2. ini \in [0..m -> Nat] /\ CamposDePcb(w, p, n, ini) /\ Len(w) = 8 + 2 * n + ini[m]
    BY <1>12, <1>24, <1>25
  <2>3. w \in Seq(C) /\ n \in Nat
    BY <1>2, <1>24
  <2> QED
    BY ONLY <1>20, <2>1, <2>2, <2>3 DEF C

-----------------------------------------------------------------------------
(* The nodes that are read: the field where each starts is found from the  *)
(* one before, by a recursive function.                                    *)

Siguiente(campos) == [desde \in DOMAIN campos |-> NodoEn(campos, desde).hasta]

Saltando(campos, cuantos, primero, h) ==
  h = [n \in 0..cuantos |-> IF n = 0 THEN primero ELSE Siguiente(campos)[h[n - 1]]]

\* The nodes of a stack, one after the other from a field on.
NodosEn(campos, pila, m, primero, ini) ==
  /\ ini[0] = 0
  /\ \A k \in 0..m : primero + ini[k] \in DOMAIN campos
  /\ \A k \in 1..m :
       /\ ini[k] = ini[k-1] + Len(serializarNodo(pila[k]))
       /\ \A j \in 1..Len(serializarNodo(pila[k])) :
            campos[(primero - 1) + (ini[k-1] + j)] = serializarNodo(pila[k])[j]

LEMMA NodosLeidos ==
  ASSUME NEW N, NEW D, NEW pila \in Seq(Nodos(N, D)), NEW m, m = Len(pila),
         NEW campos, NEW primero \in Nat, NEW ini \in [0..m -> Nat],
         NodosEn(campos, pila, m, primero, ini)
  PROVE  LeerNodos(campos, m, primero) = [pila |-> pila, hasta |-> primero + ini[m]]
<1>1. m \in Nat /\ DOMAIN pila = 1..m
  OBVIOUS
<1>0. \A k \in 1..m : pila[k] \in Nodos(N, D)
  OBVIOUS
<1>a. /\ ini[0] = 0
      /\ \A k \in 0..m : primero + ini[k] \in DOMAIN campos
      /\ \A k \in 1..m :
           /\ ini[k] = ini[k-1] + Len(serializarNodo(pila[k]))
           /\ \A j \in 1..Len(serializarNodo(pila[k])) :
                campos[(primero - 1) + (ini[k-1] + j)] = serializarNodo(pila[k])[j]
  BY DEF NodosEn
<1>2. ASSUME NEW k \in 1..m
      PROVE  /\ k - 1 \in 0..m /\ primero + ini[k-1] \in Nat
             /\ NodoEn(campos, primero + ini[k-1]).nodo = pila[k]
             /\ Siguiente(campos)[primero + ini[k-1]] = primero + ini[k]
  <2>1. k - 1 \in 0..m /\ ini[k-1] \in Nat
    <3>1. m \in Nat /\ k \in 1..m /\ ini \in [0..m -> Nat]
      BY <1>1
    <3> QED
      BY ONLY <3>1
  <2>2. PICK nodo \in Nodos(N, D) : nodo = pila[k]
    BY <1>0
  <2>3. PICK d \in Nat : d = primero + ini[k-1]
    BY <2>1
  <2>4. ASSUME NEW j \in 1..Len(serializarNodo(nodo))
        PROVE  campos[d + j - 1] = serializarNodo(nodo)[j]
    <3>1. campos[(primero - 1) + (ini[k-1] + j)] = serializarNodo(nodo)[j]
      BY <1>a, <2>2
    <3>2. PICK a, v : a = Len(nodo.args) /\ v = Len(nodo.vars)
      OBVIOUS
    <3>3. CamposDeNodo(serializarNodo(nodo), nodo, a, v)
      BY <3>2, NodoEscrito
    <3>4. j \in Nat
      BY <3>3 DEF CamposDeNodo
    <3>5. (primero - 1) + (ini[k-1] + j) = d + j - 1
      BY <2>1, <2>3, <3>4
    <3> QED
      BY <3>1, <3>5
  <2>5. /\ NodoEn(campos, d).nodo = nodo
        /\ NodoEn(campos, d).hasta = d + Len(serializarNodo(nodo))
    BY <2>4, NodoLeido
  <2>6. Siguiente(campos)[d] = d + Len(serializarNodo(nodo))
    BY <1>a, <2>1, <2>3, <2>5 DEF Siguiente
  <2>7. ini[k] = ini[k-1] + Len(serializarNodo(nodo)) /\ Len(serializarNodo(nodo)) \in Nat
    <3>1. PICK a, v : a = Len(nodo.args) /\ v = Len(nodo.vars)
      OBVIOUS
    <3>2. CamposDeNodo(serializarNodo(nodo), nodo, a, v)
      BY <3>1, NodoEscrito
    <3> QED
      BY <1>a, <2>2, <3>2 DEF CamposDeNodo
  <2>8. primero + ini[k] = d + Len(serializarNodo(nodo))
    BY <2>1, <2>3, <2>7
  <2> QED
    BY <2>1, <2>2, <2>3, <2>5, <2>6, <2>8
<1>3. PICK h0 : h0 = [k \in 0..m |-> primero + ini[k]]
  OBVIOUS
<1>4. Saltando(campos, m, primero, h0)
  <2>1. ASSUME NEW k \in 0..m
        PROVE  h0[k] = IF k = 0 THEN primero ELSE Siguiente(campos)[h0[k - 1]]
    <3>1. CASE k = 0
      BY <1>a, <1>3, <3>1
    <3>2. CASE k # 0
      <4>1. k \in 1..m /\ k - 1 \in 0..m
        BY <1>1, <3>2
      <4>2. h0[k - 1] = primero + ini[k-1] /\ h0[k] = primero + ini[k]
        BY <1>3, <4>1
      <4> QED
        BY <1>2, <3>2, <4>1, <4>2
    <3> QED
      BY <3>1, <3>2
  <2>2. h0 = [k \in 0..m |-> h0[k]]
    BY <1>3
  <2>3. [k \in 0..m |-> h0[k]]
          = [k \in 0..m |-> IF k = 0 THEN primero ELSE Siguiente(campos)[h0[k - 1]]]
    BY <2>1
  <2> QED
    BY <2>2, <2>3 DEF Saltando
<1>5. PICK h : h = (CHOOSE g : Saltando(campos, m, primero, g))
  OBVIOUS
<1>6. Saltando(campos, m, primero, h)
  BY <1>4, <1>5
<1>7. h = h0
  <2> DEFINE B == {k \in 0..m : h[k] = h0[k]}
  <2>1. 0 \in B /\ B \in SUBSET (0..m)
    BY <1>a, <1>1, <1>4, <1>6 DEF Saltando
  <2>2. ASSUME NEW k \in 1..m, k - 1 \in B PROVE k \in B
    <3>1. k \in 0..m /\ k # 0 /\ h[k - 1] = h0[k - 1]
      BY <1>1, <2>2
    <3>2. h[k] = Siguiente(campos)[h[k - 1]] /\ h0[k] = Siguiente(campos)[h0[k - 1]]
      BY <1>4, <1>6, <3>1 DEF Saltando
    <3> QED
      BY <3>1, <3>2
  <2>3. B = 0..m
    <3> HIDE DEF B
    <3> QED
      BY <1>1, <2>1, <2>2, HastaN
  <2>4. \A k \in 0..m : h[k] = h0[k]
    BY <2>3
  <2>5. h = [k \in 0..m |-> h[k]] /\ h0 = [k \in 0..m |-> h0[k]]
    BY <1>4, <1>6 DEF Saltando
  <2> QED
    BY <2>4, <2>5
<1>8. LeerNodos(campos, m, primero)
        = [pila |-> [k \in 1..m |-> NodoEn(campos, h[k - 1]).nodo], hasta |-> h[m]]
  BY <1>5 DEF LeerNodos, Saltando, Siguiente
<1>9. h[m] = primero + ini[m]
  BY <1>1, <1>3, <1>7
<1>10. \A k \in 1..m : NodoEn(campos, h[k - 1]).nodo = pila[k]
  BY <1>2, <1>3, <1>7
<1>11. [k \in 1..m |-> NodoEn(campos, h[k - 1]).nodo] = pila
  BY <1>1, <1>10
<1> QED
  BY <1>8, <1>9, <1>11

\* What is read is the PCB that was written, and the message has the size computed for it.
LEMMA IdaYVuelta ==
  ASSUME NEW N, NEW D, NEW E, NEW p \in Pcbs(N, D, E)
  PROVE  /\ deserializarPcb(serializarPcb(p)) = p
         /\ calcularPcbSerializadoSize(p) = BytesDe(serializarPcb(p))
<1>1. PICK n : n = Len(p.indiceCodigo)
  OBVIOUS
<1>2. PICK w : w = serializarPcb(p)
  OBVIOUS
<1>3. PICK m \in Nat : m = Len(p.indiceStack)
  BY DEF Pcbs
<1>4. /\ n \in Nat /\ w \in Seq(Campos(N, D, E))
      /\ calcularPcbSerializadoSize(p) = BytesDe(w)
      /\ \E ini \in [0..Len(p.indiceStack) -> Nat] :
              /\ CamposDePcb(w, p, n, ini)
              /\ Len(w) = 8 + 2 * n + ini[Len(p.indiceStack)]
  BY ONLY SMTT(30), <1>1, <1>2, p \in Pcbs(N, D, E), PcbEscrito
<1>5. PICK ini \in [0..m -> Nat] : CamposDePcb(w, p, n, ini) /\ Len(w) = 8 + 2 * n + ini[m]
  BY <1>3, <1>4
<1>6. /\ w[1].valor = p.pid /\ w[2].valor = p.cantidadPaginasCodigo
      /\ w[3].valor = p.programCounter /\ w[4].valor = n
      /\ w[5 + 2 * n].valor = p.indiceEtiquetasSize
      /\ w[6 + 2 * n].valor = p.indiceEtiquetas
      /\ w[7 + 2 * n].valor = m
      /\ w[(8 + 2 * n) + ini[m]].valor = p.exitCode
  BY <1>3, <1>5 DEF CamposDePcb, Entero, Campo
<1>7. \A i \in 1..n : /\ w[3 + 2 * i].valor = p.indiceCodigo[i][1]
                       /\ w[4 + 2 * i].valor = p.indiceCodigo[i][2]
  <2>1. \A i \in 1..n : /\ w[3 + 2 * i] = Entero(p.indiceCodigo[i][1])
                         /\ w[4 + 2 * i] = Entero(p.indiceCodigo[i][2])
    BY <1>5 DEF CamposDePcb
  <2>2. \A x : Entero(x).valor = x
    BY DEF Entero, Campo
  <2> QED
    BY <2>1, <2>2
<1>8. LeerNodos(w, m, 8 + 2 * n) = [pila |-> p.indiceStack, hasta |-> (8 + 2 * n) + ini[m]]
  <2>1. PICK primero \in Nat : primero = 8 + 2 * n
    BY <1>4
  <2>2. PICK pila \in Seq(Nodos(N, D)) : pila = p.indiceStack
    BY DEF Pcbs
  <2>3. m = Len(pila) /\ ini[0] = 0
    BY <1>3, <1>5, <2>2 DEF CamposDePcb
  <2>4. \A k \in 0..m : primero + ini[k] \in DOMAIN w
    <3>1. DOMAIN w = 1..(8 + 2 * n + ini[m])
      BY <1>4, <1>5
    <3>2. \A k \in 0..m : ini[k] \in Nat /\ ini[k] <= ini[m]
      BY <1>3, <1>5 DEF CamposDePcb
    <3>3. ini[m] \in Nat /\ primero >= 8
      <4>1. m \in 0..m
        BY <1>3
      <4>2. primero >= 8
        BY <1>4, <2>1
      <4> QED
        BY <4>1, <4>2
    <3> QED
      BY <1>4, <2>1, <3>1, <3>2, <3>3
  <2>5. \A k \in 1..m :
           /\ ini[k] = ini[k-1] + Len(serializarNodo(pila[k]))
           /\ \A j \in 1..Len(serializarNodo(pila[k])) :
                w[(primero - 1) + (ini[k-1] + j)] = serializarNodo(pila[k])[j]
    <3>1. primero - 1 = 7 + 2 * n
      BY <1>4, <2>1
    <3> QED
      BY <1>3, <1>5, <2>2, <3>1 DEF CamposDePcb
  <2>6. LeerNodos(w, m, primero) = [pila |-> pila, hasta |-> primero + ini[m]]
    <3>1. pila \in Seq(Nodos(N, D)) /\ primero \in Nat /\ ini \in [0..m -> Nat]
      OBVIOUS
    <3>2. NodosEn(w, pila, m, primero, ini)
      BY <2>3, <2>4, <2>5 DEF NodosEn
    <3> QED
      BY ONLY <3>1, <3>2, <2>3, NodosLeidos
  <2> QED
    BY <2>1, <2>2, <2>6
<1>9. [i \in 1..n |-> <<w[3 + 2 * i].valor, w[4 + 2 * i].valor>>] = p.indiceCodigo
  <2>1. p.indiceCodigo \in Seq(Int \X Int)
    BY DEF Pcbs
  <2>2. DOMAIN p.indiceCodigo = 1..n /\ \A i \in 1..n : p.indiceCodigo[i] \in Int \X Int
    BY <1>1, <2>1
  <2>3. \A x \in Int \X Int : x = <<x[1], x[2]>>
    OBVIOUS
  <2>4. \A i \in 1..n : <<w[3 + 2 * i].valor, w[4 + 2 * i].valor>> = p.indiceCodigo[i]
    BY <1>7, <2>2, <2>3
  <2>5. p.indiceCodigo = [i \in 1..n |-> p.indiceCodigo[i]]
    <3>1. \A c \in Seq(Int \X Int) : c = [i \in DOMAIN c |-> c[i]]
      OBVIOUS
    <3> QED
      BY ONLY <2>1, <2>2, <3>1
  <2> QED
    BY <2>4, <2>5
<1>10. /\ (5 + 2 * n) + 2 = 7 + 2 * n /\ (5 + 2 * n) + 3 = 8 + 2 * n
       /\ (5 + 2 * n) + 1 = 6 + 2 * n
  BY <1>4
<1>11. deserializarPcb(w) =
         [pid                   |-> p.pid,
          cantidadPaginasCodigo |-> p.cantidadPaginasCodigo,
          programCounter        |-> p.programCounter,
          indiceCodigo          |-> p.indiceCodigo,
          indiceEtiquetasSize   |-> p.indiceEtiquetasSize,
          indiceEtiquetas       |-> p.indiceEtiquetas,
          indiceStack           |-> p.indiceStack,
          exitCode              |-> p.exitCode]
  <2>1. /\ w[4].valor = n /\ w[(5 + 2 * n) + 2].valor = m
        /\ w[(5 + 2 * n) + 1].valor = p.indiceEtiquetas
        /\ LeerNodos(w, m, (5 + 2 * n) + 3)
             = [pila |-> p.indiceStack, hasta |-> (8 + 2 * n) + ini[m]]
    BY <1>6, <1>8, <1>10
  <2>2. LeerNodos(w, w[(5 + 2 * w[4].valor) + 2].valor, (5 + 2 * w[4].valor) + 3)
             = [pila |-> p.indiceStack, hasta |-> (8 + 2 * n) + ini[m]]
    BY ONLY <2>1
  <2>3. /\ LeerNodos(w, w[(5 + 2 * w[4].valor) + 2].valor, (5 + 2 * w[4].valor) + 3).pila
             = p.indiceStack
        /\ LeerNodos(w, w[(5 + 2 * w[4].valor) + 2].valor, (5 + 2 * w[4].valor) + 3).hasta
             = (8 + 2 * n) + ini[m]
    BY ONLY <2>2
  <2> QED
    BY ONLY <1>6, <1>9, <2>1, <2>3 DEF deserializarPcb
<1>12. @ = p
  BY DEF Pcbs
<1> QED
  BY <1>2, <1>4, <1>11, <1>12

-----------------------------------------------------------------------------
(* The instruction that the CPU reads.                                     *)

\* Pages and offsets.
LEMMA Division ==
  ASSUME NEW a \in Int, NEW t \in Nat, t > 0
  PROVE  /\ a % t \in 0..(t - 1) /\ a \div t \in Int
         /\ a \in Nat => a \div t \in Nat
OBVIOUS

LEMMA Cociente ==
  ASSUME NEW a \in Nat, NEW t \in Nat, t > 0, NEW q \in Int, q = a \div t
  PROVE  q * t <= a /\ a < q * t + t
OBVIOUS

LEMMA Paginas ==
  ASSUME NEW q \in Int, NEW n \in Int, NEW t \in Nat
  PROVE  /\ q * t \in Int /\ (q + 1) * t = q * t + t
         /\ q < n => q * t + t <= n * t
         /\ q >= 0 => q * t >= 0
OBVIOUS

\* A byte of the text after another.
Texto(inicio, tamanio) == [k \in 1..tamanio |-> inicio + k - 1]

LEMMA AplanarUno ==
  ASSUME NEW S, NEW x \in Seq(S)
  PROVE  FlattenSeq(<<x>>) = x
<1>1. PICK s \in Seq(Seq(S)) : s = <<x>>
  <2>1. <<x>> \in Seq(Seq(S))
    OBVIOUS
  <2> QED
    BY <2>1
<1>2. s # <<>> /\ Len(s) = 1 /\ s[1] = x
  BY <1>1
<1>3. PICK f \in [1..Len(s) -> Seq(S)] : f[1] = s[1] /\ FlattenSeq(s) = f[Len(s)]
  BY ONLY s \in Seq(Seq(S)), <1>2, AplanarEs
<1> QED
  BY <1>1, <1>2, <1>3

LEMMA AplanarDos ==
  ASSUME NEW S, NEW x \in Seq(S), NEW y \in Seq(S)
  PROVE  FlattenSeq(<<x, y>>) = x \o y
<1>1. PICK s \in Seq(Seq(S)) : s = <<x, y>>
  <2>1. <<x, y>> \in Seq(Seq(S))
    OBVIOUS
  <2> QED
    BY <2>1
<1>2. s # <<>> /\ Len(s) = 2 /\ s[1] = x /\ s[2] = y
  BY <1>1
<1>3. PICK f \in [1..Len(s) -> Seq(S)] :
        /\ f[1] = s[1] /\ FlattenSeq(s) = f[Len(s)]
        /\ \A i \in 2..Len(s) : f[i] = f[i-1] \o s[i]
  BY ONLY ZenonT(60), s \in Seq(Seq(S)), <1>2, AplanarEs
<1>4. 2 \in 2..Len(s) /\ 2 - 1 = 1
  BY <1>2
<1>5. f[2] = f[1] \o s[2]
  <2>1. f[2] = f[2 - 1] \o s[2]
    BY <1>3, <1>4
  <2> QED
    BY <1>4, <2>1
<1> QED
  BY <1>1, <1>2, <1>3, <1>5

\* The parts of an instruction, joined, are its text.
LEMMA TextoLeido ==
  ASSUME NEW a \in Nat, NEW t \in Nat, t # 0
  PROVE  Leidos(Lecturas(a, t)) = Texto(a, t)
<1> DEFINE pagina  == a \div TamPagina
           offset  == a - pagina * TamPagina
           primera == TamPagina - offset
<1>1. TamPagina \in Nat /\ TamPagina # 0
  BY CPUAssumption
<1>2. PICK q \in Nat : q = pagina
  BY <1>1
<1>3. PICK b \in Nat : b = q * TamPagina
  <2>1. q * TamPagina \in Nat
    BY <1>1
  <2> QED
    BY <2>1
<1>4. b =< a /\ a < b + TamPagina
  <2>1. q * TamPagina <= a /\ a < q * TamPagina + TamPagina
    BY <1>1, <1>2, Cociente
  <2> QED
    BY <1>3, <2>1
<1>5. offset = a - b /\ (q + 1) * TamPagina = b + TamPagina
  BY <1>1, <1>2, <1>3
<1>6. CASE offset + t < TamPagina
  <2>1. PICK l : l = [pagina |-> q, offset |-> a - b, size |-> t]
    OBVIOUS
  <2>2. Lecturas(a, t) = <<l>>
    BY <1>2, <1>5, <1>6, <2>1 DEF Lecturas
  <2>3. PunteroDe(l) = a
    BY <1>3, <2>1 DEF PunteroDe
  <2>4. PICK x : x = Texto(a, t)
    OBVIOUS
  <2>5. x \in Seq(Int)
    BY <2>4 DEF Texto
  <2>6. [i \in DOMAIN <<l>> |-> [k \in 1..<<l>>[i].size |-> PunteroDe(<<l>>[i]) + k - 1]] = <<x>>
    <3>1. [k \in 1..l.size |-> PunteroDe(l) + k - 1] = x
      BY <2>1, <2>3, <2>4 DEF Texto
    <3>2. DOMAIN <<l>> = 1..1 /\ <<l>>[1] = l
      OBVIOUS
    <3>3. PICK g : g = [i \in DOMAIN <<l>> |->
              [k \in 1..<<l>>[i].size |-> PunteroDe(<<l>>[i]) + k - 1]]
      OBVIOUS
    <3>4. DOMAIN g = 1..1 /\ g[1] = x /\ g = [i \in 1..1 |-> g[i]]
      BY <3>1, <3>2, <3>3
    <3>5. g = <<x>>
      BY ONLY <3>4
    <3> QED
      BY ONLY <3>3, <3>5
  <2> QED
    BY <2>2, <2>4, <2>5, <2>6, AplanarUno DEF Leidos
<1>7. CASE ~(offset + t < TamPagina)
  <2>1. PICK u \in Nat : u = TamPagina - (a - b) /\ u > 0 /\ u =< t
    BY <1>1, <1>4, <1>5, <1>7
  <2>2. PICK l : l = [pagina |-> q, offset |-> a - b, size |-> u]
    OBVIOUS
  <2>3. PunteroDe(l) = a /\ l.size = u
    BY <1>3, <2>2 DEF PunteroDe
  <2>4. PICK x : x = Texto(a, u)
    OBVIOUS
  <2>5. x \in Seq(Int) /\ Len(x) = u /\ \A k \in 1..u : x[k] = a + k - 1
    BY <2>4 DEF Texto
  <2>6. CASE t - u > 0
    <3>1. PICK l2 : l2 = [pagina |-> q + 1, offset |-> 0, size |-> t - u]
      OBVIOUS
    <3>2. Lecturas(a, t) = <<l, l2>>
      <4>1. Lecturas(a, t) = <<l>> \o <<l2>>
        BY <1>2, <1>5, <1>7, <2>1, <2>2, <2>6, <3>1 DEF Lecturas
      <4>2. <<l>> \o <<l2>> = Append(<<l>>, l2) /\ Append(<<l>>, l2) = <<l, l2>>
        <5>1. PICK s \in Seq({l, l2}), e \in {l, l2} : s = <<l>> /\ e = l2
          <6>1. <<l>> \in Seq({l, l2}) /\ l2 \in {l, l2}
            OBVIOUS
          <6> QED
            BY <6>1
        <5>2. Append(s, e) = s \o <<e>>
          BY AppendIsConcat
        <5>3. Append(<<l>>, l2) = <<l, l2>>
          <6>1. PICK C : C = {l, l2}
            OBVIOUS
          <6>2. PICK a1 \in C, b1 \in C : a1 = l /\ b1 = l2
            BY <6>1
          <6>3. a1 \in C /\ b1 \in C
            OBVIOUS
          <6>4. <<a1, b1>> = Append(<<a1>>, b1)
            BY ONLY <6>3
          <6> QED
            BY ONLY <6>2, <6>4
        <5> QED
          BY <5>1, <5>2, <5>3
      <4> QED
        BY <4>1, <4>2
    <3>3. PunteroDe(l2) = a + u /\ l2.size = t - u
      BY <1>1, <1>3, <1>5, <2>1, <3>1 DEF PunteroDe
    <3>4. PICK y : y = Texto(a + u, t - u)
      OBVIOUS
    <3>5. y \in Seq(Int) /\ Len(y) = t - u /\ \A k \in 1..(t - u) : y[k] = a + u + k - 1
      BY <2>1, <2>6, <3>4 DEF Texto
    <3>6. Leidos(Lecturas(a, t)) = x \o y
      <4>1. [k \in 1..l.size |-> PunteroDe(l) + k - 1] = x
        BY <2>3, <2>4 DEF Texto
      <4>2. [k \in 1..l2.size |-> PunteroDe(l2) + k - 1] = y
        BY <3>3, <3>4 DEF Texto
      <4>3. DOMAIN <<l, l2>> = 1..2 /\ <<l, l2>>[1] = l /\ <<l, l2>>[2] = l2
        OBVIOUS
      <4>4. PICK g : g = [i \in DOMAIN <<l, l2>> |->
                [k \in 1..<<l, l2>>[i].size |-> PunteroDe(<<l, l2>>[i]) + k - 1]]
        OBVIOUS
      <4>5. DOMAIN g = 1..2 /\ g[1] = x /\ g[2] = y /\ g = [i \in 1..2 |-> g[i]]
        BY <4>1, <4>2, <4>3, <4>4
      <4>6. g = <<x, y>>
        BY ONLY <4>5
      <4>7. FlattenSeq(<<x, y>>) = x \o y
        BY <2>5, <3>5, AplanarDos
      <4> QED
        BY <3>2, <4>4, <4>6, <4>7 DEF Leidos
    <3>7. x \o y = Texto(a, t)
      <4>1. PICK z : z = x \o y
        OBVIOUS
      <4>2. /\ z \in Seq(Int) /\ Len(z) = Len(x) + Len(y)
            /\ \A i \in 1..Len(x) : z[i] = x[i]
            /\ \A i \in 1..Len(y) : z[Len(x) + i] = y[i]
        <5>1. x \in Seq(Int) /\ y \in Seq(Int)
          BY <2>5, <3>5
        <5>2. /\ x \o y \in Seq(Int) /\ Len(x \o y) = Len(x) + Len(y)
              /\ \A i \in 1..Len(x) : (x \o y)[i] = x[i]
              /\ \A i \in 1..Len(y) : (x \o y)[Len(x) + i] = y[i]
          BY ONLY <5>1, Pegar
        <5> QED
          BY ONLY <4>1, <5>2
      <4>3. Len(z) = t /\ DOMAIN z = 1..t
        BY <2>1, <2>5, <3>5, <4>2
      <4>4. ASSUME NEW k \in 1..t PROVE z[k] = a + k - 1
        <5>1. CASE k =< u
          BY <2>5, <4>2, <5>1
        <5>2. CASE k > u
          <6>1. PICK j \in 1..(t - u) : k = u + j
            <7>1. k - u \in 1..(t - u) /\ k = u + (k - u)
              BY <2>1, <5>2
            <7> QED
              BY <7>1
          <6>2. z[k] = a + u + j - 1
            BY <2>5, <3>5, <4>2, <6>1
          <6> QED
            BY <2>1, <6>1, <6>2
        <5> QED
          BY <2>1, <5>1, <5>2
      <4>5. z = [k \in 1..t |-> z[k]]
        <5>1. \A c \in Seq(Int) : c = [k \in DOMAIN c |-> c[k]]
          OBVIOUS
        <5> QED
          BY ONLY <4>2, <4>3, <5>1
      <4> QED
        BY <4>1, <4>4, <4>5 DEF Texto
    <3> QED
      BY <3>6, <3>7
  <2>7. CASE ~(t - u > 0)
    <3>1. t = u
      BY <2>1, <2>7
    <3>2. Lecturas(a, t) = <<l>>
      <4>1. Lecturas(a, t) = <<l>> \o <<>>
        BY <1>2, <1>5, <1>7, <2>1, <2>2, <2>7 DEF Lecturas
      <4>2. <<l>> \o <<>> = <<l>>
        <5>1. <<l>> \in Seq({l})
          OBVIOUS
        <5> QED
          BY ONLY <5>1, ConcatEmptySeq
      <4> QED
        BY <4>1, <4>2
    <3>3. [i \in DOMAIN <<l>> |-> [k \in 1..<<l>>[i].size |-> PunteroDe(<<l>>[i]) + k - 1]] = <<x>>
      <4>1. [k \in 1..l.size |-> PunteroDe(l) + k - 1] = x
        BY <2>3, <2>4 DEF Texto
      <4>2. DOMAIN <<l>> = 1..1 /\ <<l>>[1] = l
        OBVIOUS
      <4>3. PICK g : g = [i \in DOMAIN <<l>> |->
                [k \in 1..<<l>>[i].size |-> PunteroDe(<<l>>[i]) + k - 1]]
        OBVIOUS
      <4>4. DOMAIN g = 1..1 /\ g[1] = x /\ g = [i \in 1..1 |-> g[i]]
        BY <4>1, <4>2, <4>3
      <4>5. g = <<x>>
        BY ONLY <4>4
      <4> QED
        BY ONLY <4>3, <4>5
    <3> QED
      BY ZenonT(60), <2>4, <2>5, <3>1, <3>2, <3>3, AplanarUno DEF Leidos
  <2> QED
    BY <2>6, <2>7
<1> QED
  BY <1>6, <1>7

\* A program of those that may run.
LEMMA TextoDelPrograma ==
  ASSUME programa \in Programas
  PROVE  /\ DOMAIN programa.codigo = 1..Len(programa.codigo) /\ Len(programa.codigo) \in Nat
         /\ programa.inicio \in Nat /\ programa.bytes \in Nat /\ programa.bytesDeEtiquetas \in Nat
         /\ programa.etiquetas \in [DOMAIN programa.etiquetas -> 0..(Len(programa.codigo) - 1)]
         /\ programa.indice \in Seq(Nat \X (Nat \ {0}))
         /\ Len(programa.indice) = Len(programa.codigo)
         /\ \A i, j \in DOMAIN programa.codigo : programa.indice[i] = programa.indice[j] => i = j
         /\ RutinasBienFormadas(programa)
<1>1. TextoBienFormado(programa) /\ RutinasBienFormadas(programa)
  BY ProgramasBienFormados
<1>2. programa.codigo \in Seq(ToSet(programa.codigo))
  BY <1>1 DEF TextoBienFormado
<1>3. DOMAIN programa.codigo = 1..Len(programa.codigo) /\ Len(programa.codigo) \in Nat
  BY <1>2
<1>4. programa.indice \in [1..Len(programa.codigo) -> Nat \X (Nat \ {0})]
  BY <1>1, <1>3 DEF TextoBienFormado
<1>5. programa.indice \in Seq(Nat \X (Nat \ {0})) /\ Len(programa.indice) = Len(programa.codigo)
  BY <1>3, <1>4
<1> QED
  BY <1>1, <1>3, <1>5 DEF TextoBienFormado

LEMMA SeqMonotona ==
  ASSUME NEW A, NEW B, A \subseteq B
  PROVE  Seq(A) \subseteq Seq(B)
OBVIOUS

LEMMA TipoDelPcb ==
  ASSUME programa \in Programas, NEW p \in PcbDelPrograma
  PROVE  p \in Pcbs(Nombres \ ToSet(Argumentos), Direccion, {programa.etiquetas})
<1> DEFINE N == Nombres \ ToSet(Argumentos)
           E == {programa.etiquetas}
<1>1. DireccionDeValor \subseteq Direccion
  BY DEF DireccionDeValor, Direccion
<1>2. Nodo \subseteq Nodos(N, Direccion)
  <2> SUFFICES ASSUME NEW nodo \in Nodo PROVE nodo \in Nodos(N, Direccion)
    OBVIOUS
  <2> DEFINE V == [idVar : N, dirVar : DireccionDeValor]
  <2>1. /\ nodo.args \in Seq(DireccionDeValor) /\ nodo.vars \in Seq(V)
        /\ nodo.retPos \in Int /\ nodo.retVar \in Direccion
        /\ nodo = [args |-> nodo.args, vars |-> nodo.vars, retPos |-> nodo.retPos,
                   retVar |-> nodo.retVar]
    BY DEF Nodo
  <2>2. V \subseteq Vars(N, Direccion)
    BY <1>1 DEF Vars
  <2> HIDE DEF V
  <2>3. nodo.args \in Seq(Direccion) /\ nodo.vars \in Seq(Vars(N, Direccion))
    <3>1. Seq(DireccionDeValor) \subseteq Seq(Direccion) /\ Seq(V) \subseteq Seq(Vars(N, Direccion))
      BY <1>1, <2>2, SeqMonotona
    <3> QED
      BY <2>1, <3>1
  <2> QED
    BY <2>1, <2>3 DEF Nodos
<1>3. /\ p.pid \in Int /\ p.programCounter \in Int /\ p.indiceStack \in Seq(Nodo)
      /\ p.cantidadPaginasCodigo = (programa.bytes + TamPagina - 1) \div TamPagina
      /\ p.indiceCodigo = programa.indice /\ p.indiceEtiquetas = programa.etiquetas
      /\ p.indiceEtiquetasSize = programa.bytesDeEtiquetas /\ p.exitCode \in Int
  BY DEF PcbDelPrograma
<1>4. /\ p = [pid |-> p.pid, programCounter |-> p.programCounter,
              cantidadPaginasCodigo |-> p.cantidadPaginasCodigo,
              indiceCodigo |-> p.indiceCodigo, indiceEtiquetas |-> p.indiceEtiquetas,
              indiceEtiquetasSize |-> p.indiceEtiquetasSize,
              indiceStack |-> p.indiceStack, exitCode |-> p.exitCode]
  BY DEF PcbDelPrograma
<1>5. p.cantidadPaginasCodigo \in Int
  <2>1. TamPagina \in Nat /\ TamPagina > 0
    BY CPUAssumption
  <2>2. programa.bytes + TamPagina - 1 \in Int
    BY <2>1, TextoDelPrograma
  <2> QED
    BY <1>3, <2>1, <2>2, Division
<1>6. p.indiceCodigo \in Seq(Int \X Int)
  <2>1. Nat \X (Nat \ {0}) \subseteq Int \X Int
    OBVIOUS
  <2>2. programa.indice \in Seq(Nat \X (Nat \ {0}))
    BY TextoDelPrograma
  <2>3. programa.indice \in Seq(Int \X Int)
    <3>1. PICK A, B : A = Nat \X (Nat \ {0}) /\ B = Int \X Int
      OBVIOUS
    <3>2. A \subseteq B /\ programa.indice \in Seq(A)
      BY <2>1, <2>2, <3>1
    <3>3. programa.indice \in Seq(B)
      BY ONLY <3>2
    <3> QED
      BY <3>1, <3>3
  <2> QED
    BY <1>3, <2>3
<1>7. p.indiceStack \in Seq(Nodos(N, Direccion))
  <2>1. Seq(Nodo) \subseteq Seq(Nodos(N, Direccion))
    <3> HIDE DEF N
    <3> QED
      BY <1>2, SeqMonotona
  <2> QED
    BY <1>3, <2>1
<1>8. p.indiceEtiquetas \in E /\ p.indiceEtiquetasSize \in Nat
  BY <1>3, TextoDelPrograma
<1> HIDE DEF N, E
<1>9. p \in Pcbs(N, Direccion, E)
  BY <1>3, <1>4, <1>5, <1>6, <1>7, <1>8 DEF Pcbs
<1> QED
  BY <1>9 DEF N, E

\* The PCB of the process is the same after any number of trips.
LEMMA PcbViaja ==
  ASSUME programa \in Programas, NEW p \in PcbDelPrograma
  PROVE  /\ deserializarPcb(serializarPcb(p)) = p
         /\ calcularPcbSerializadoSize(p) = BytesDe(serializarPcb(p))
<1>1. PICK N, D, E : p \in Pcbs(N, D, E)
  BY TipoDelPcb
<1> QED
  BY <1>1, IdaYVuelta

\* The bytes that the CPU asks for are those of the instruction at the program counter.
LEMMA InstruccionActual ==
  ASSUME programa \in Programas, pcb \in PcbDelPrograma,
         pcb.programCounter + 1 \in DOMAIN programa.codigo
  PROVE  obtener_instruccion = programa.codigo[pcb.programCounter + 1]
<1> DEFINE x == pcb.programCounter + 1
           textoDe(i) == [k \in 1..programa.indice[i][2] |-> programa.indice[i][1] + k - 1]
<1>1. pcb.indiceCodigo = programa.indice
  BY DEF PcbDelPrograma
<1>2. \A i \in DOMAIN programa.codigo :
        /\ programa.indice[i][1] \in Nat /\ programa.indice[i][2] \in Nat
        /\ programa.indice[i][2] # 0
        /\ programa.indice[i] = <<programa.indice[i][1], programa.indice[i][2]>>
  <2>1. \A i \in DOMAIN programa.codigo : programa.indice[i] \in Nat \X (Nat \ {0})
    BY TextoDelPrograma
  <2>2. \A e \in Nat \X (Nat \ {0}) : e[1] \in Nat /\ e[2] \in Nat /\ e[2] # 0 /\ e = <<e[1], e[2]>>
    OBVIOUS
  <2> QED
    BY <2>1, <2>2
<1>3. Leidos(Lecturas(programa.indice[x][1], programa.indice[x][2])) = textoDe(x)
  BY <1>2, TextoLeido DEF Texto
<1>4. ASSUME NEW i \in DOMAIN programa.codigo, textoDe(x) = textoDe(i) PROVE i = x
  <2>1. PICK a \in Nat, t \in Nat, b \in Nat, u \in Nat :
          /\ a = programa.indice[x][1] /\ t = programa.indice[x][2] /\ t # 0
          /\ b = programa.indice[i][1] /\ u = programa.indice[i][2] /\ u # 0
    BY <1>2
  <2>2. [k \in 1..t |-> a + k - 1] = [k \in 1..u |-> b + k - 1]
    BY <1>4, <2>1
  <2>3. 1..t = 1..u
    BY <2>2
  <2>4. t = u
    <3>1. t \in 1..t /\ u \in 1..u
      BY <2>1
    <3>2. t \in 1..u /\ u \in 1..t
      BY <2>3, <3>1
    <3> QED
      BY <3>2
  <2>5. a + 1 - 1 = b + 1 - 1
    <3>1. 1 \in 1..t /\ 1 \in 1..u
      BY <2>1
    <3>2. [k \in 1..t |-> a + k - 1][1] = a + 1 - 1 /\ [k \in 1..u |-> b + k - 1][1] = b + 1 - 1
      BY <3>1
    <3> QED
      BY <2>2, <3>2
  <2>6. a = b
    BY <2>5
  <2>7. programa.indice[i] = programa.indice[x]
    BY <1>2, <2>1, <2>4, <2>6
  <2> QED
    BY <2>7, TextoDelPrograma
<1>5. (CHOOSE i \in DOMAIN programa.codigo : textoDe(x) = textoDe(i)) = x
  BY <1>4
<1> QED
  <2>1. obtener_instruccion
          = InstruccionLeida(Leidos(Lecturas(programa.indice[x][1], programa.indice[x][2])))
    BY <1>1 DEF obtener_instruccion
  <2>2. InstruccionLeida(textoDe(x))
          = programa.codigo[CHOOSE i \in DOMAIN programa.codigo : textoDe(x) = textoDe(i)]
    BY DEF InstruccionLeida
  <2> HIDE DEF textoDe
  <2> QED
    BY <1>3, <1>5, <2>1, <2>2

-----------------------------------------------------------------------------
(* The stack: the values of its nodes are in the order of their            *)
(* definition, and the next one goes past the last.                        *)

PaginasDeCodigo == (programa.bytes + TamPagina - 1) \div TamPagina

PaginasTotales == StackSize + PaginasDeCodigo

\* What SinSolapar says of the stack.
EnOrden(pila) ==
  \A n \in DOMAIN pila : \A i \in DOMAIN DireccionesDe(pila[n]) :
    /\ DireccionesDe(pila[n])[i].offset + 4 <= TamPagina
    /\ DireccionesDe(pila[n])[i].pagina \in PaginasDeCodigo..(PaginasTotales - 1)
    /\ \A m \in DOMAIN pila : \A j \in DOMAIN DireccionesDe(pila[m]) :
         n < m \/ (n = m /\ i < j) =>
           PunteroDe(DireccionesDe(pila[n])[i]) + 4 <= PunteroDe(DireccionesDe(pila[m])[j])

LEMMA PaginasNaturales ==
  ASSUME programa \in Programas
  PROVE  /\ PaginasDeCodigo \in Nat /\ StackSize \in Nat /\ StackSize > 0 /\ PaginasTotales \in Nat
         /\ TamPagina \in Nat /\ TamPagina >= 4
<1>1. TamPagina \in Nat /\ TamPagina >= 4 /\ StackSize \in Nat /\ StackSize > 0
  BY CPUAssumption
<1>2. programa.bytes + TamPagina - 1 \in Nat
  BY <1>1, TextoDelPrograma
<1>3. PaginasDeCodigo \in Nat
  BY <1>1, <1>2, Division DEF PaginasDeCodigo
<1> QED
  BY <1>1, <1>3 DEF PaginasTotales

LEMMA PaginasDelPcb ==
  ASSUME NEW p \in PcbDelPrograma
  PROVE  p.cantidadPaginasCodigo = PaginasDeCodigo /\ cantidadPaginasTotales(p) = PaginasTotales
BY DEF PcbDelPrograma, PaginasDeCodigo, PaginasTotales, cantidadPaginasTotales

\* The variables of a node.
VarsDeNodo == [idVar : Nombres \ ToSet(Argumentos), dirVar : DireccionDeValor]

LEMMA NodoTipado ==
  ASSUME NEW nodo \in Nodo
  PROVE  /\ nodo.args \in Seq(DireccionDeValor) /\ nodo.vars \in Seq(VarsDeNodo)
         /\ nodo.retPos \in Int /\ nodo.retVar \in Direccion
         /\ nodo = [args |-> nodo.args, vars |-> nodo.vars, retPos |-> nodo.retPos,
                    retVar |-> nodo.retVar]
         /\ Len(nodo.args) \in Nat /\ Len(nodo.vars) \in Nat
         /\ DOMAIN nodo.args = 1..Len(nodo.args) /\ DOMAIN nodo.vars = 1..Len(nodo.vars)
<1>1. /\ nodo.args \in Seq(DireccionDeValor) /\ nodo.vars \in Seq(VarsDeNodo)
      /\ nodo.retPos \in Int /\ nodo.retVar \in Direccion
      /\ nodo = [args |-> nodo.args, vars |-> nodo.vars, retPos |-> nodo.retPos,
                 retVar |-> nodo.retVar]
  BY DEF Nodo, VarsDeNodo
<1> QED
  BY <1>1

LEMMA DireccionesDelNodo ==
  ASSUME NEW nodo \in Nodo
  PROVE  /\ DireccionesDe(nodo) \in Seq(DireccionDeValor)
         /\ Len(DireccionesDe(nodo)) = Len(nodo.args) + Len(nodo.vars)
         /\ DOMAIN DireccionesDe(nodo) = 1..(Len(nodo.args) + Len(nodo.vars))
         /\ \A i \in 1..Len(nodo.args) : DireccionesDe(nodo)[i] = nodo.args[i]
         /\ \A i \in 1..Len(nodo.vars) :
              DireccionesDe(nodo)[Len(nodo.args) + i] = nodo.vars[i].dirVar
<1>1. PICK a \in Seq(DireccionDeValor), v \in Seq(VarsDeNodo) : a = nodo.args /\ v = nodo.vars
  BY NodoTipado
<1>2. PICK d : d = [i \in DOMAIN v |-> v[i].dirVar]
  OBVIOUS
<1>3. d \in Seq(DireccionDeValor) /\ Len(d) = Len(v) /\ \A i \in 1..Len(v) : d[i] = v[i].dirVar
  <2>1. \A x \in VarsDeNodo : x.dirVar \in DireccionDeValor
    BY DEF VarsDeNodo
  <2>2. DOMAIN v = 1..Len(v) /\ Len(v) \in Nat /\ \A i \in DOMAIN v : v[i] \in VarsDeNodo
    OBVIOUS
  <2>3. d \in [1..Len(v) -> DireccionDeValor]
    BY <1>2, <2>1, <2>2
  <2> QED
    BY <1>2, <2>2, <2>3
<1>4. DireccionesDe(nodo) = a \o d
  BY <1>1, <1>2 DEF DireccionesDe
<1>5. /\ a \o d \in Seq(DireccionDeValor) /\ Len(a \o d) = Len(a) + Len(d)
      /\ \A i \in 1..Len(a) : (a \o d)[i] = a[i]
      /\ \A i \in 1..Len(d) : (a \o d)[Len(a) + i] = d[i]
  <2>1. a \in Seq(DireccionDeValor) /\ d \in Seq(DireccionDeValor)
    BY <1>3
  <2> QED
    BY ONLY <2>1, Pegar
<1>6. DOMAIN (a \o d) = 1..Len(a \o d)
  BY <1>5
<1> QED
  BY <1>1, <1>3, <1>4, <1>5, <1>6

\* The last value of a node.
LEMMA UltimaDelNodo ==
  ASSUME NEW nodo \in Nodo, NEW k, k = Len(DireccionesDe(nodo)),
         nodo.vars # <<>> \/ nodo.args # <<>>
  PROVE  k \in DOMAIN DireccionesDe(nodo) /\ UltimaDireccion(nodo) = DireccionesDe(nodo)[k]
<1>1. PICK a \in Nat, v \in Nat : a = Len(nodo.args) /\ v = Len(nodo.vars)
  BY NodoTipado
<1>2. k = a + v /\ DOMAIN DireccionesDe(nodo) = 1..(a + v)
  BY <1>1, DireccionesDelNodo
<1>3. CASE nodo.vars # <<>>
  <2>1. v > 0
    BY <1>1, <1>3, NodoTipado, EmptySeq
  <2>2. UltimaDireccion(nodo) = nodo.vars[v].dirVar
    BY <1>1, <1>3 DEF UltimaDireccion, Last
  <2>3. v \in 1..v /\ a + v \in 1..(a + v)
    BY <2>1
  <2>4. DireccionesDe(nodo)[a + v] = nodo.vars[v].dirVar
    BY <1>1, <2>3, DireccionesDelNodo
  <2> QED
    BY <1>2, <2>2, <2>3, <2>4
<1>4. CASE nodo.vars = <<>>
  <2>1. v = 0 /\ a > 0
    BY <1>1, <1>4, NodoTipado, EmptySeq
  <2>2. UltimaDireccion(nodo) = nodo.args[a]
    BY <1>1, <1>4 DEF UltimaDireccion, Last
  <2>3. a \in 1..a /\ k = a
    BY <1>2, <2>1
  <2> QED
    BY <1>1, <1>2, <2>1, <2>2, <2>3, DireccionesDelNodo
<1> QED
  BY <1>3, <1>4

LEMMA PunteroEntero ==
  ASSUME NEW dir, dir.pagina \in Int, dir.offset \in Int
  PROVE  PunteroDe(dir) \in Int
<1>1. TamPagina \in Int
  BY CPUAssumption
<1>2. dir.pagina * TamPagina \in Int
  BY <1>1
<1> QED
  BY <1>2 DEF PunteroDe

\* A value is within the pages of the process.
LEMMA ValorEnPaginas ==
  ASSUME programa \in Programas, NEW p \in PcbDelPrograma, NEW dir \in DireccionDeValor,
         dir.offset + 4 <= TamPagina, dir.pagina \in PaginasDeCodigo..(PaginasTotales - 1)
  PROVE  EnPaginas(p, PunteroDe(dir))
<1>1. /\ PaginasDeCodigo \in Nat /\ PaginasTotales \in Nat /\ TamPagina \in Nat /\ TamPagina >= 4
  BY PaginasNaturales
<1>2. PICK q \in Int, o \in Nat : q = dir.pagina /\ o = dir.offset
  BY <1>1 DEF DireccionDeValor
<1>3. q >= 0 /\ q < PaginasTotales
  BY <1>1, <1>2
<1>4. /\ q * TamPagina \in Int /\ q * TamPagina + TamPagina <= PaginasTotales * TamPagina
      /\ q * TamPagina >= 0 /\ PaginasTotales * TamPagina \in Int
  BY <1>1, <1>2, <1>3, Paginas
<1>5. PICK x \in Int, y \in Int : x = q * TamPagina /\ y = PaginasTotales * TamPagina
  BY <1>4
<1>6. x + TamPagina <= y /\ x >= 0
  BY <1>4, <1>5
<1>7. PunteroDe(dir) = x + o
  BY <1>2, <1>5 DEF PunteroDe
<1>8. x + o \in 0..(y - 4)
  BY <1>1, <1>2, <1>6
<1> QED
  BY <1>5, <1>7, <1>8, PaginasDelPcb DEF EnPaginas

LEMMA MayorDe ==
  ASSUME NEW n \in Nat, NEW I \in SUBSET (1..n), I # {}
  PROVE  Max(I) \in I /\ \A j \in I : j <= Max(I)
<1>1. PICK k \in I : \A j \in I : j <= k
  BY MaximoDePosiciones
<1>2. \E k1 \in I : \A j \in I : k1 >= j
  BY <1>1
<1>3. Max(I) \in I /\ \A j \in I : Max(I) >= j
  BY <1>2 DEF Max
<1> QED
  BY <1>3

\* The place of the next value is past all the others.
LEMMA SiguienteLibre ==
  ASSUME programa \in Programas, NEW p \in PcbDelPrograma, NEW pila \in Seq(Nodo),
         EnOrden(pila), NEW dir, dir = DireccionSiguiente(p, pila)
  PROVE  /\ dir \in DireccionDeValor /\ dir.offset + 4 <= TamPagina
         /\ dir.pagina >= PaginasDeCodigo
         /\ \A n \in DOMAIN pila : \A i \in DOMAIN DireccionesDe(pila[n]) :
              PunteroDe(DireccionesDe(pila[n])[i]) + 4 <= PunteroDe(dir)
<1>1. /\ PaginasDeCodigo \in Nat /\ PaginasTotales \in Nat /\ TamPagina \in Nat /\ TamPagina >= 4
      /\ StackSize \in Nat
  BY PaginasNaturales
<1>2. PaginasTotales - StackSize = PaginasDeCodigo
  BY <1>1 DEF PaginasTotales
<1>3. \A n \in DOMAIN pila : pila[n] \in Nodo
  OBVIOUS
<1>4. \A n \in DOMAIN pila : \A i \in DOMAIN DireccionesDe(pila[n]) : n \in ConDirecciones(pila)
  <2> SUFFICES ASSUME NEW n \in DOMAIN pila, NEW i \in DOMAIN DireccionesDe(pila[n]),
                      pila[n].vars = <<>>, pila[n].args = <<>>
               PROVE  FALSE
    BY DEF ConDirecciones
  <2>1. PICK nodo \in Nodo : nodo = pila[n]
    BY <1>3
  <2>2. Len(nodo.args) = 0 /\ Len(nodo.vars) = 0
    BY <2>1
  <2>3. i \in 1..(Len(nodo.args) + Len(nodo.vars))
    BY <2>1, DireccionesDelNodo
  <2> QED
    BY <2>2, <2>3
<1>5. CASE ConDirecciones(pila) = {}
  <2>1. dir = [pagina |-> PaginasDeCodigo, offset |-> 0, size |-> 4]
    BY <1>2, <1>5, PaginasDelPcb DEF DireccionSiguiente
  <2> QED
    BY <1>1, <1>4, <1>5, <2>1 DEF DireccionDeValor
<1>6. CASE ConDirecciones(pila) # {}
  <2>1. PICK m : m = Max(ConDirecciones(pila))
    OBVIOUS
  <2>2. m \in ConDirecciones(pila) /\ \A n \in ConDirecciones(pila) : n <= m
    <3>1. ConDirecciones(pila) \in SUBSET (1..Len(pila)) /\ Len(pila) \in Nat
      BY DEF ConDirecciones
    <3> QED
      BY <1>6, <2>1, <3>1, MayorDe
  <2>3. m \in DOMAIN pila /\ m \in Nat /\ (pila[m].vars # <<>> \/ pila[m].args # <<>>)
    BY <2>2 DEF ConDirecciones
  <2>4. PICK nodo \in Nodo : nodo = pila[m]
    BY <1>3, <2>3
  <2>5. PICK k : k = Len(DireccionesDe(nodo))
    OBVIOUS
  <2>6. k \in DOMAIN DireccionesDe(nodo) /\ UltimaDireccion(nodo) = DireccionesDe(nodo)[k]
    BY <2>3, <2>4, <2>5, UltimaDelNodo
  <2>7. k \in Nat /\ DOMAIN DireccionesDe(nodo) = 1..k
    BY <2>5, DireccionesDelNodo, NodoTipado
  <2>8. PICK u \in DireccionDeValor : u = DireccionesDe(nodo)[k]
    <3>1. DireccionesDe(nodo) \in Seq(DireccionDeValor)
      BY DireccionesDelNodo
    <3> QED
      BY ONLY <2>6, <3>1
  <2>9. u.offset + 4 <= TamPagina /\ u.pagina \in PaginasDeCodigo..(PaginasTotales - 1)
    BY <2>3, <2>4, <2>6, <2>8 DEF EnOrden
  <2>10. PICK q \in Int, o \in Nat : q = u.pagina /\ o = u.offset /\ u.size = 4
    BY DEF DireccionDeValor
  <2>11. PICK x \in Int : x = q * TamPagina
    BY <1>1, Paginas
  <2>12. (q + 1) * TamPagina = x + TamPagina
    BY <1>1, <2>11, Paginas
  <2>13. PunteroDe(u) = x + o
    BY <2>10, <2>11 DEF PunteroDe
  <2>14. q >= PaginasDeCodigo /\ o + 4 <= TamPagina
    BY <1>1, <2>9, <2>10
  <2>15. dir = IF o + 4 + 4 > TamPagina
               THEN [pagina |-> q + 1, offset |-> 0, size |-> 4]
               ELSE [pagina |-> q, offset |-> o + 4, size |-> 4]
    BY <1>6, <2>1, <2>4, <2>6, <2>8, <2>10 DEF DireccionSiguiente
  <2>16. /\ dir \in DireccionDeValor /\ dir.offset + 4 <= TamPagina
         /\ dir.pagina >= PaginasDeCodigo /\ PunteroDe(u) + 4 <= PunteroDe(dir)
    <3>1. CASE o + 4 + 4 > TamPagina
      <4>1. dir = [pagina |-> q + 1, offset |-> 0, size |-> 4]
        BY <2>15, <3>1
      <4>2. PunteroDe(dir) = x + TamPagina
        BY <1>1, <2>12, <4>1 DEF PunteroDe
      <4> QED
        BY <1>1, <2>13, <2>14, <4>1, <4>2 DEF DireccionDeValor
    <3>2. CASE ~(o + 4 + 4 > TamPagina)
      <4>1. dir = [pagina |-> q, offset |-> o + 4, size |-> 4]
        BY <2>15, <3>2
      <4>2. PunteroDe(dir) = x + (o + 4)
        BY <1>1, <2>11, <4>1 DEF PunteroDe
      <4> QED
        BY <1>1, <2>13, <2>14, <3>2, <4>1, <4>2 DEF DireccionDeValor
    <3> QED
      BY <3>1, <3>2
  <2>17. ASSUME NEW n \in DOMAIN pila, NEW i \in DOMAIN DireccionesDe(pila[n])
         PROVE  PunteroDe(DireccionesDe(pila[n])[i]) + 4 <= PunteroDe(dir)
    <3>1. n <= m /\ n \in Nat
      BY <1>4, <2>2
    <3>2. PICK nn \in Nodo : nn = pila[n]
      BY <1>3
    <3>3. DireccionesDe(nn)[i] \in DireccionDeValor
      <4>1. DireccionesDe(nn) \in Seq(DireccionDeValor)
        BY DireccionesDelNodo
      <4>2. i \in DOMAIN DireccionesDe(nn)
        BY <3>2
      <4> QED
        BY ONLY <4>1, <4>2
    <3>4. PICK y \in Int : y = PunteroDe(DireccionesDe(pila[n])[i])
      <4>1. \A z \in DireccionDeValor : z.pagina \in Int /\ z.offset \in Int
        BY DEF DireccionDeValor
      <4> QED
        BY <3>2, <3>3, <4>1, PunteroEntero
    <3>5. PICK t \in Int : t = PunteroDe(dir)
      <4>1. \A z \in DireccionDeValor : z.pagina \in Int /\ z.offset \in Int
        BY DEF DireccionDeValor
      <4> QED
        BY <2>16, <4>1, PunteroEntero
    <3>6. CASE n = m /\ i = k
      BY <2>4, <2>8, <2>16, <3>6
    <3>7. CASE ~(n = m /\ i = k)
      <4>1. n < m \/ (n = m /\ i < k)
        <5>1. CASE n = m
          <6>1. i \in 1..k /\ i # k
            BY <2>4, <2>7, <3>7, <5>1
          <6> QED
            BY <2>7, <5>1, <6>1
        <5>2. CASE n # m
          BY <2>3, <3>1, <5>2
        <5> QED
          BY <5>1, <5>2
      <4>2. PunteroDe(DireccionesDe(pila[n])[i]) + 4 <= PunteroDe(u)
        BY <2>3, <2>4, <2>6, <2>8, <4>1 DEF EnOrden
      <4>3. y + 4 <= x + o /\ x + o + 4 <= t
        BY <2>13, <2>16, <3>4, <3>5, <4>2
      <4> QED
        BY <3>4, <3>5, <4>3
    <3> QED
      BY <3>6, <3>7
  <2> QED
    BY <2>16, <2>17
<1> QED
  BY <1>5, <1>6

\* A node with one value more.
LEMMA NodoConDireccion ==
  ASSUME NEW nodo \in Nodo, NEW nombre \in Nombres \cup ToSet(Argumentos), NEW dir \in DireccionDeValor,
         nombre \in ToSet(Argumentos) => nodo.vars = <<>>
  PROVE  /\ ConDireccion(nodo, nombre, dir) \in Nodo
         /\ DireccionesDe(ConDireccion(nodo, nombre, dir)) = Append(DireccionesDe(nodo), dir)
<1> DEFINE new == ConDireccion(nodo, nombre, dir)
<1>1. /\ nodo.args \in Seq(DireccionDeValor) /\ nodo.vars \in Seq(VarsDeNodo)
      /\ nodo.retPos \in Int /\ nodo.retVar \in Direccion
      /\ nodo = [args |-> nodo.args, vars |-> nodo.vars, retPos |-> nodo.retPos,
                 retVar |-> nodo.retVar]
  BY NodoTipado
<1>2. CASE nombre \in ToSet(Argumentos)
  <2>1. new = [args |-> Append(nodo.args, dir), vars |-> nodo.vars, retPos |-> nodo.retPos,
               retVar |-> nodo.retVar]
    BY <1>1, <1>2 DEF ConDireccion
  <2>2. Append(nodo.args, dir) \in Seq(DireccionDeValor)
    BY <1>1
  <2>3. new \in Nodo
    <3> HIDE DEF new
    <3> QED
      BY <1>1, <2>1, <2>2 DEF Nodo, VarsDeNodo
  <2>4. nodo.vars = <<>> /\ new.vars = <<>> /\ new.args = Append(nodo.args, dir)
    BY <1>2, <2>1
  <2>5. PICK a \in Seq(DireccionDeValor) : a = nodo.args
    BY <1>1
  <2>6. DireccionesDe(nodo) = a
    <3>1. [i \in DOMAIN nodo.vars |-> nodo.vars[i].dirVar] = <<>>
      BY <2>4
    <3>2. a \o <<>> = a
      BY ConcatEmptySeq
    <3> QED
      BY <2>5, <3>1, <3>2 DEF DireccionesDe
  <2>7. DireccionesDe(new) = Append(a, dir)
    <3>1. [i \in DOMAIN new.vars |-> new.vars[i].dirVar] = <<>>
      BY <2>4
    <3>2. PICK b \in Seq(DireccionDeValor) : b = Append(a, dir)
      BY <2>2, <2>5
    <3>3. b \o <<>> = b
      BY ConcatEmptySeq
    <3> QED
      BY <2>4, <2>5, <3>1, <3>2, <3>3 DEF DireccionesDe
  <2> QED
    BY <2>3, <2>6, <2>7
<1>3. CASE nombre \notin ToSet(Argumentos)
  <2>0. PICK x : x = [idVar |-> nombre, dirVar |-> dir]
    OBVIOUS
  <2>1. new = [args |-> nodo.args, vars |-> Append(nodo.vars, x), retPos |-> nodo.retPos,
               retVar |-> nodo.retVar]
    BY <1>1, <1>3, <2>0 DEF ConDireccion
  <2>2. x \in VarsDeNodo
    BY <1>3, <2>0 DEF VarsDeNodo
  <2>3. Append(nodo.vars, x) \in Seq(VarsDeNodo)
    BY <1>1, <2>2
  <2>4. new \in Nodo
    <3> HIDE DEF new
    <3> QED
      BY <1>1, <2>1, <2>3 DEF Nodo, VarsDeNodo
  <2>5. PICK v \in Seq(VarsDeNodo) : v = nodo.vars
    BY <1>1
  <2>6. PICK d : d = [i \in DOMAIN v |-> v[i].dirVar]
    OBVIOUS
  <2>7. PICK e : e = [i \in DOMAIN Append(v, x) |-> Append(v, x)[i].dirVar]
    OBVIOUS
  <2>8. d \in Seq(DireccionDeValor) /\ e = Append(d, dir)
    <3>1. \A z \in VarsDeNodo : z.dirVar \in DireccionDeValor
      BY DEF VarsDeNodo
    <3>2. DOMAIN v = 1..Len(v) /\ Len(v) \in Nat /\ \A i \in DOMAIN v : v[i] \in VarsDeNodo
      OBVIOUS
    <3>3. d \in [1..Len(v) -> DireccionDeValor]
      BY <2>6, <3>1, <3>2
    <3>4. d \in Seq(DireccionDeValor) /\ Len(d) = Len(v) /\ DOMAIN d = 1..Len(v)
      BY <3>2, <3>3
    <3>5. /\ DOMAIN Append(v, x) = 1..(Len(v) + 1) /\ Append(v, x)[Len(v) + 1] = x
          /\ \A i \in 1..Len(v) : Append(v, x)[i] = v[i]
      BY <2>2
    <3>6. /\ DOMAIN Append(d, dir) = 1..(Len(v) + 1) /\ Append(d, dir)[Len(v) + 1] = dir
          /\ \A i \in 1..Len(v) : Append(d, dir)[i] = d[i]
          /\ Append(d, dir) \in Seq(DireccionDeValor)
      BY <3>4
    <3>7. ASSUME NEW i \in 1..(Len(v) + 1) PROVE e[i] = Append(d, dir)[i]
      <4>1. CASE i \in 1..Len(v)
        BY <2>6, <2>7, <3>2, <3>5, <3>6, <4>1
      <4>2. CASE i = Len(v) + 1
        BY <2>0, <2>7, <3>5, <3>6, <4>2
      <4>3. i \in 1..(Len(v) + 1) /\ Len(v) \in Nat
        BY <3>2
      <4>4. i \in 1..Len(v) \/ i = Len(v) + 1
        BY ONLY <4>3
      <4> QED
        BY <4>1, <4>2, <4>4
    <3>8. e = [i \in 1..(Len(v) + 1) |-> e[i]]
      BY <2>7, <3>5
    <3>9. Append(d, dir) = [i \in 1..(Len(v) + 1) |-> Append(d, dir)[i]]
      <4>1. \A c \in Seq(DireccionDeValor) : c = [i \in DOMAIN c |-> c[i]]
        OBVIOUS
      <4> QED
        BY ONLY <3>6, <4>1
    <3> QED
      BY <3>4, <3>7, <3>8, <3>9
  <2>9. PICK a \in Seq(DireccionDeValor) : a = nodo.args
    BY <1>1
  <2>10. DireccionesDe(nodo) = a \o d
    BY <2>5, <2>6, <2>9 DEF DireccionesDe
  <2>11. DireccionesDe(new) = a \o Append(d, dir)
    <3>1. new.args = a /\ new.vars = Append(v, x)
      BY <2>1, <2>5, <2>9
    <3> QED
      BY <2>7, <2>8, <3>1 DEF DireccionesDe
  <2>12. a \o Append(d, dir) = Append(a \o d, dir)
    <3>1. /\ a \in Seq(DireccionDeValor) /\ d \in Seq(DireccionDeValor)
          /\ dir \in DireccionDeValor
      BY <2>8
    <3> QED
      BY ONLY <3>1
  <2> QED
    BY <2>4, <2>10, <2>11, <2>12
<1> QED
  BY <1>2, <1>3

\* The last node of a stack with the next value defined in it.
Definida(p, pila, nombre) ==
  [pila EXCEPT ![Len(pila)] = ConDireccion(pila[Len(pila)], nombre, DireccionSiguiente(p, pila))]

\* A definition keeps the order.
LEMMA DefinirEnOrden ==
  ASSUME programa \in Programas, NEW p \in PcbDelPrograma, NEW pila \in Seq(Nodo), pila # <<>>,
         EnOrden(pila), NEW nombre \in Nombres \cup ToSet(Argumentos),
         nombre \in ToSet(Argumentos) => pila[Len(pila)].vars = <<>>,
         DireccionSiguiente(p, pila).pagina < PaginasTotales
  PROVE  /\ Definida(p, pila, nombre) \in Seq(Nodo)
         /\ Len(Definida(p, pila, nombre)) = Len(pila)
         /\ EnOrden(Definida(p, pila, nombre))
<1>1. PICK dir : dir = DireccionSiguiente(p, pila)
  OBVIOUS
<1>2. /\ dir \in DireccionDeValor /\ dir.offset + 4 <= TamPagina
      /\ dir.pagina >= PaginasDeCodigo
      /\ \A n \in DOMAIN pila : \A i \in DOMAIN DireccionesDe(pila[n]) :
           PunteroDe(DireccionesDe(pila[n])[i]) + 4 <= PunteroDe(dir)
  BY <1>1, SiguienteLibre
<1>3. PICK t \in Nat : t = Len(pila) /\ t > 0
  <2>1. Len(pila) \in Nat /\ Len(pila) # 0
    BY EmptySeq
  <2> QED
    BY <2>1
<1>4. t \in DOMAIN pila /\ DOMAIN pila = 1..t
  BY <1>3
<1>5. PICK u \in Nodo : u = pila[t]
  BY <1>4
<1>6. PICK w : w = ConDireccion(u, nombre, dir)
  OBVIOUS
<1>7. w \in Nodo /\ DireccionesDe(w) = Append(DireccionesDe(u), dir)
  <2>1. nombre \in ToSet(Argumentos) => u.vars = <<>>
    BY <1>3, <1>5
  <2> QED
    BY <1>2, <1>6, <2>1, NodoConDireccion
<1>8. PICK nueva : nueva = Definida(p, pila, nombre)
  OBVIOUS
<1>9. nueva = [pila EXCEPT ![t] = w]
  BY <1>1, <1>3, <1>5, <1>6, <1>8 DEF Definida
<1>10. nueva \in Seq(Nodo) /\ Len(nueva) = t /\ DOMAIN nueva = 1..t
  BY <1>3, <1>4, <1>7, <1>9, CambiarLugar
<1>11. nueva[t] = w /\ \A n \in 1..t : n # t => nueva[n] = pila[n]
  BY <1>4, <1>9
<1>12. PICK k \in Nat : k = Len(DireccionesDe(u)) /\ DOMAIN DireccionesDe(u) = 1..k
  <2>1. DireccionesDe(u) \in Seq(DireccionDeValor)
    BY DireccionesDelNodo
  <2> QED
    BY ONLY <2>1
<1>13. /\ DOMAIN DireccionesDe(w) = 1..(k + 1) /\ DireccionesDe(w)[k + 1] = dir
       /\ \A i \in 1..k : DireccionesDe(w)[i] = DireccionesDe(u)[i]
  <2>1. PICK d \in Seq(DireccionDeValor) : d = DireccionesDe(u)
    BY DireccionesDelNodo
  <2> QED
    BY <1>2, <1>7, <1>12, <2>1
<1> DEFINE Nuevo(n, i) == n = t /\ i = k + 1
<1>14. ASSUME NEW n \in DOMAIN nueva, NEW i \in DOMAIN DireccionesDe(nueva[n]), ~Nuevo(n, i)
       PROVE  /\ n \in DOMAIN pila /\ i \in DOMAIN DireccionesDe(pila[n])
              /\ DireccionesDe(nueva[n])[i] = DireccionesDe(pila[n])[i]
  <2>1. CASE n = t
    <3>1. i \in 1..(k + 1) /\ i # k + 1
      BY <1>11, <1>13, <1>14, <2>1
    <3>2. i \in 1..k
      BY <3>1
    <3> QED
      BY <1>4, <1>5, <1>11, <1>12, <1>13, <2>1, <3>2
  <2>2. CASE n # t
    BY <1>4, <1>10, <1>11, <2>2
  <2> QED
    BY <2>1, <2>2
<1>15. ASSUME NEW n \in DOMAIN nueva, NEW i \in DOMAIN DireccionesDe(nueva[n]), Nuevo(n, i)
       PROVE  DireccionesDe(nueva[n])[i] = dir
  BY <1>11, <1>13, <1>15
<1>16. dir.pagina \in PaginasDeCodigo..(PaginasTotales - 1)
  <2>1. dir.pagina \in Int
    BY <1>2 DEF DireccionDeValor
  <2> QED
    BY <1>1, <1>2, <2>1, PaginasNaturales
<1> SUFFICES EnOrden(nueva)
  BY <1>3, <1>8, <1>10
<1> SUFFICES ASSUME NEW n \in DOMAIN nueva, NEW i \in DOMAIN DireccionesDe(nueva[n])
             PROVE  /\ DireccionesDe(nueva[n])[i].offset + 4 <= TamPagina
                    /\ DireccionesDe(nueva[n])[i].pagina \in PaginasDeCodigo..(PaginasTotales - 1)
                    /\ \A m \in DOMAIN nueva : \A j \in DOMAIN DireccionesDe(nueva[m]) :
                         n < m \/ (n = m /\ i < j) =>
                           PunteroDe(DireccionesDe(nueva[n])[i]) + 4
                             <= PunteroDe(DireccionesDe(nueva[m])[j])
  BY DEF EnOrden
<1>17. CASE Nuevo(n, i)
  <2>1. ASSUME NEW m \in DOMAIN nueva, NEW j \in DOMAIN DireccionesDe(nueva[m]),
               n < m \/ (n = m /\ i < j)
        PROVE  FALSE
    <3>1. n = t /\ i = k + 1 /\ m \in 1..t
      BY <1>10, <1>17
    <3>2. n = m /\ i < j
      BY <2>1, <3>1
    <3>3. j \in 1..(k + 1)
      BY <1>11, <1>13, <3>1, <3>2
    <3> QED
      BY <3>1, <3>2, <3>3
  <2> QED
    BY <1>2, <1>15, <1>16, <1>17, <2>1
<1>18. CASE ~Nuevo(n, i)
  <2>0. /\ n \in DOMAIN pila /\ i \in DOMAIN DireccionesDe(pila[n])
        /\ DireccionesDe(nueva[n])[i] = DireccionesDe(pila[n])[i]
    BY <1>14, <1>18
  <2>1. ASSUME NEW m \in DOMAIN nueva, NEW j \in DOMAIN DireccionesDe(nueva[m]),
               n < m \/ (n = m /\ i < j)
        PROVE  PunteroDe(DireccionesDe(nueva[n])[i]) + 4
                 <= PunteroDe(DireccionesDe(nueva[m])[j])
    <3>1. CASE Nuevo(m, j)
      BY <1>2, <1>15, <2>0, <3>1
    <3>2. CASE ~Nuevo(m, j)
      <4>1. /\ m \in DOMAIN pila /\ j \in DOMAIN DireccionesDe(pila[m])
            /\ DireccionesDe(nueva[m])[j] = DireccionesDe(pila[m])[j]
        BY <1>14, <3>2
      <4> QED
        BY <2>0, <2>1, <4>1 DEF EnOrden
    <3> QED
      BY <3>1, <3>2
  <2> QED
    BY <2>0, <2>1 DEF EnOrden
<1> QED
  BY <1>17, <1>18

-----------------------------------------------------------------------------
(* What the primitives take and give.                                      *)

Fatales == {"stackOverflow", "direccionInvalida", "excepcionMemoria"}

Marcha(m) ==
  /\ m = [pcb |-> m.pcb, memoria |-> m.memoria, aEjecutarDelPcb |-> m.aEjecutarDelPcb,
          interrupcion |-> m.interrupcion, puntero |-> m.puntero, valor |-> m.valor]
  /\ m.pcb \in PcbDelPrograma /\ EnOrden(m.pcb.indiceStack)
  /\ m.aEjecutarDelPcb \in Nat /\ m.interrupcion \in Interrupciones /\ m.puntero \in Int

\* An interruption is never taken back, only changed for another that is fatal.
Interrumpida(m, r) == r.interrupcion = m.interrupcion \/ r.interrupcion \in Fatales

\* A primitive that does not change the PCB.
Estable(m, r) ==
  /\ Marcha(r) /\ r.pcb = m.pcb /\ r.aEjecutarDelPcb = m.aEjecutarDelPcb
  /\ Interrumpida(m, r)

LEMMA EstableSeguida ==
  ASSUME NEW a, NEW b, NEW c, Estable(a, b), Estable(b, c)
  PROVE  Estable(a, c)
BY DEF Estable, Interrumpida

LEMMA MarchaInterrumpida ==
  ASSUME NEW m, Marcha(m), NEW motivo \in Interrupciones
  PROVE  /\ Marcha(Interrumpir(m, motivo)) /\ Interrumpir(m, motivo).pcb = m.pcb
         /\ Interrumpir(m, motivo).interrupcion = motivo
         /\ Interrumpir(m, motivo).aEjecutarDelPcb = m.aEjecutarDelPcb
         /\ motivo \in Fatales => Estable(m, Interrumpir(m, motivo))
<1>1. Interrumpir(m, motivo)
        = [pcb |-> m.pcb, memoria |-> m.memoria, aEjecutarDelPcb |-> m.aEjecutarDelPcb,
           interrupcion |-> motivo, puntero |-> m.puntero, valor |-> m.valor]
  BY DEF Interrumpir, Marcha
<1>2. Marcha(Interrumpir(m, motivo))
  BY <1>1 DEF Marcha
<1> QED
  BY <1>1, <1>2 DEF Estable, Interrumpida

LEMMA MarchaConValor ==
  ASSUME NEW m, Marcha(m), NEW x
  PROVE  Estable(m, [m EXCEPT !.valor = x])
<1>1. [m EXCEPT !.valor = x]
        = [pcb |-> m.pcb, memoria |-> m.memoria, aEjecutarDelPcb |-> m.aEjecutarDelPcb,
           interrupcion |-> m.interrupcion, puntero |-> m.puntero, valor |-> x]
  BY DEF Marcha
<1> QED
  BY <1>1 DEF Marcha, Estable, Interrumpida

LEMMA MarchaConPuntero ==
  ASSUME NEW m, Marcha(m), NEW x \in Int
  PROVE  Estable(m, [m EXCEPT !.puntero = x])
<1>1. [m EXCEPT !.puntero = x]
        = [pcb |-> m.pcb, memoria |-> m.memoria, aEjecutarDelPcb |-> m.aEjecutarDelPcb,
           interrupcion |-> m.interrupcion, puntero |-> x, valor |-> m.valor]
  BY DEF Marcha
<1> QED
  BY <1>1 DEF Marcha, Estable, Interrumpida

LEMMA MarchaConMemoria ==
  ASSUME NEW m, Marcha(m), NEW x
  PROVE  Estable(m, [m EXCEPT !.memoria = x])
<1>1. [m EXCEPT !.memoria = x]
        = [pcb |-> m.pcb, memoria |-> x, aEjecutarDelPcb |-> m.aEjecutarDelPcb,
           interrupcion |-> m.interrupcion, puntero |-> m.puntero, valor |-> m.valor]
  BY DEF Marcha
<1> QED
  BY <1>1 DEF Marcha, Estable, Interrumpida

\* The PCB with another stack, or at another instruction.
ConPila(p, pila) == [p EXCEPT !.indiceStack = pila]
ConContador(p, pc) == [p EXCEPT !.programCounter = pc]

LEMMA PcbConPila ==
  ASSUME NEW p \in PcbDelPrograma, NEW pila \in Seq(Nodo)
  PROVE  /\ ConPila(p, pila) \in PcbDelPrograma /\ ConPila(p, pila).indiceStack = pila
         /\ ConPila(p, pila).programCounter = p.programCounter
BY DEF ConPila, PcbDelPrograma

LEMMA PcbConContador ==
  ASSUME NEW p \in PcbDelPrograma, NEW pc \in Int
  PROVE  /\ ConContador(p, pc) \in PcbDelPrograma
         /\ ConContador(p, pc).indiceStack = p.indiceStack
         /\ ConContador(p, pc).programCounter = pc
BY DEF ConContador, PcbDelPrograma

LEMMA PcbConCodigo ==
  ASSUME NEW p \in PcbDelPrograma, NEW c \in Int
  PROVE  /\ ConCodigo(p, c) \in PcbDelPrograma
         /\ ConCodigo(p, c).indiceStack = p.indiceStack
         /\ ConCodigo(p, c).programCounter = p.programCounter
BY DEF ConCodigo, PcbDelPrograma

LEMMA PilaDelPcb ==
  ASSUME NEW p \in PcbDelPrograma
  PROVE  /\ p.indiceStack \in Seq(Nodo) /\ Len(p.indiceStack) \in Nat
         /\ DOMAIN p.indiceStack = 1..Len(p.indiceStack)
         /\ p.programCounter \in Int
         /\ \A n \in DOMAIN p.indiceStack : p.indiceStack[n] \in Nodo
         /\ p.indiceCodigo = programa.indice /\ p.indiceEtiquetas = programa.etiquetas
<1>1. PICK pila \in Seq(Nodo) : pila = p.indiceStack
  BY DEF PcbDelPrograma
<1> QED
  BY <1>1 DEF PcbDelPrograma

LEMMA NodoVacioTipado ==
  NodoVacio \in Nodo /\ NodoVacio.args = <<>> /\ NodoVacio.vars = <<>>
<1>1. TamPagina \in Nat /\ TamPagina > 0
  BY CPUAssumption
<1>2. DireccionDe(0, 0) \in Direccion
  BY <1>1, Division DEF DireccionDe, Direccion
<1>3. <<>> \in Seq(DireccionDeValor) /\ <<>> \in Seq(VarsDeNodo)
  OBVIOUS
<1> QED
  BY <1>2, <1>3 DEF NodoVacio, Nodo, VarsDeNodo

LEMMA ConNodoTipada ==
  ASSUME NEW pila \in Seq(Nodo), EnOrden(pila)
  PROVE  /\ ConNodo(pila) \in Seq(Nodo) /\ ConNodo(pila) # <<>> /\ EnOrden(ConNodo(pila))
         /\ pila # <<>> => ConNodo(pila) = pila
<1>1. CASE pila # <<>>
  BY <1>1 DEF ConNodo
<1>2. CASE pila = <<>>
  <2>1. ConNodo(pila) = <<NodoVacio>>
    BY <1>2 DEF ConNodo
  <2>2. <<NodoVacio>> \in Seq(Nodo) /\ <<NodoVacio>> # <<>>
    BY NodoVacioTipado
  <2>3. DOMAIN <<NodoVacio>> = 1..1 /\ <<NodoVacio>>[1] = NodoVacio
    OBVIOUS
  <2>4. DireccionesDe(NodoVacio) \in Seq(DireccionDeValor) /\ DOMAIN DireccionesDe(NodoVacio) = {}
    <3>1. PICK nodo \in Nodo : nodo = NodoVacio
      BY NodoVacioTipado
    <3>2. Len(nodo.args) = 0 /\ Len(nodo.vars) = 0
      BY <3>1, NodoVacioTipado
    <3>3. /\ DireccionesDe(nodo) \in Seq(DireccionDeValor)
          /\ DOMAIN DireccionesDe(nodo) = 1..(Len(nodo.args) + Len(nodo.vars))
      BY DireccionesDelNodo
    <3> QED
      BY <3>1, <3>2, <3>3
  <2>5. EnOrden(<<NodoVacio>>)
    BY <2>3, <2>4 DEF EnOrden
  <2> QED
    BY <1>2, <2>1, <2>2, <2>5
<1> QED
  BY <1>1, <1>2

Apilada(m, pila, x) == [m EXCEPT !.pcb.indiceStack = pila, !.puntero = x]

LEMMA MarchaConPila ==
  ASSUME NEW m, Marcha(m), NEW pila \in Seq(Nodo), EnOrden(pila), NEW x \in Int
  PROVE  /\ Marcha(Apilada(m, pila, x)) /\ Apilada(m, pila, x).pcb = ConPila(m.pcb, pila)
         /\ Apilada(m, pila, x).interrupcion = m.interrupcion
         /\ Apilada(m, pila, x).aEjecutarDelPcb = m.aEjecutarDelPcb
<1>0. Apilada(m, pila, x) = [[m EXCEPT !.pcb = ConPila(m.pcb, pila)] EXCEPT !.puntero = x]
  BY DEF ConPila, Apilada
<1>1. Apilada(m, pila, x) = [pcb |-> ConPila(m.pcb, pila), memoria |-> m.memoria,
           aEjecutarDelPcb |-> m.aEjecutarDelPcb,
           interrupcion |-> m.interrupcion, puntero |-> x, valor |-> m.valor]
  BY <1>0 DEF Marcha
<1>2. ConPila(m.pcb, pila) \in PcbDelPrograma /\ ConPila(m.pcb, pila).indiceStack = pila
  BY PcbConPila DEF Marcha
<1>3. Marcha(Apilada(m, pila, x))
  BY <1>1, <1>2 DEF Marcha
<1> QED
  BY <1>1, <1>3

\* definirVariable: the name is in the last node, or the stack was full.
LEMMA VariableDefinida ==
  ASSUME programa \in Programas, NEW m, Marcha(m), NEW pila,
         NEW nombre \in Nombres \cup ToSet(Argumentos),
         pila = ConNodo(m.pcb.indiceStack),
         nombre \in ToSet(Argumentos) => pila[Len(pila)].vars = <<>>,
         NEW r, r = definirVariable(m, nombre)
  PROVE  /\ Marcha(r) /\ r.aEjecutarDelPcb = m.aEjecutarDelPcb
         /\ \/ r.interrupcion = "stackOverflow" /\ r.pcb = ConPila(m.pcb, pila)
            \/ /\ r.interrupcion = m.interrupcion
               /\ r.pcb = ConPila(m.pcb, Definida(m.pcb, pila, nombre))
<1> DEFINE dir == DireccionSiguiente(m.pcb, pila)
<1>1. m.pcb \in PcbDelPrograma /\ EnOrden(m.pcb.indiceStack)
  BY DEF Marcha
<1>2. m.pcb.indiceStack \in Seq(Nodo)
  BY <1>1, PilaDelPcb
<1>3. pila \in Seq(Nodo) /\ pila # <<>> /\ EnOrden(pila)
  BY <1>1, <1>2, ConNodoTipada
<1>4. cantidadPaginasTotales(m.pcb) = PaginasTotales /\ PaginasTotales \in Nat
  BY <1>1, PaginasDelPcb, PaginasNaturales
<1>5. dir \in DireccionDeValor
  BY <1>1, <1>3, SiguienteLibre
<1>6. dir.pagina \in Int /\ PunteroDe(dir) \in Int
  <2>1. dir.pagina \in Int /\ dir.offset \in Int
    <3> HIDE DEF dir
    <3> QED
      BY <1>5 DEF DireccionDeValor
  <2> QED
    BY <2>1, PunteroEntero
<1>7. CASE dir.pagina >= PaginasTotales
  <2>1. PICK s : s = Apilada(m, pila, 0)
    OBVIOUS
  <2>2. Marcha(s) /\ s.pcb = ConPila(m.pcb, pila) /\ s.aEjecutarDelPcb = m.aEjecutarDelPcb
    <3>1. 0 \in Int
      OBVIOUS
    <3> QED
      BY <1>3, <2>1, <3>1, MarchaConPila
  <2>3. r = Interrumpir(s, "stackOverflow")
    BY <1>4, <1>7, <2>1 DEF definirVariable, Apilada
  <2>4. "stackOverflow" \in Interrupciones
    BY DEF Interrupciones
  <2>5. /\ Marcha(Interrumpir(s, "stackOverflow"))
        /\ Interrumpir(s, "stackOverflow").pcb = s.pcb
        /\ Interrumpir(s, "stackOverflow").interrupcion = "stackOverflow"
        /\ Interrumpir(s, "stackOverflow").aEjecutarDelPcb = s.aEjecutarDelPcb
    BY <2>2, <2>4, MarchaInterrumpida
  <2> QED
    BY <2>2, <2>3, <2>5
<1>8. CASE ~(dir.pagina >= PaginasTotales)
  <2>1. dir.pagina < PaginasTotales
    BY <1>4, <1>6, <1>8
  <2>2. PICK nueva : nueva = Definida(m.pcb, pila, nombre)
    OBVIOUS
  <2>3. nueva \in Seq(Nodo) /\ EnOrden(nueva)
    BY <1>1, <1>3, <2>1, <2>2, DefinirEnOrden
  <2>4. r = Apilada(m, nueva, PunteroDe(dir))
    BY <1>4, <1>8, <2>2 DEF definirVariable, Definida, Apilada
  <2>5. PICK s : s = Apilada(m, nueva, PunteroDe(dir))
    OBVIOUS
  <2>6. /\ Marcha(s) /\ s.pcb = ConPila(m.pcb, nueva) /\ s.interrupcion = m.interrupcion
        /\ s.aEjecutarDelPcb = m.aEjecutarDelPcb
    BY <1>6, <2>3, <2>5, MarchaConPila
  <2> QED
    BY <2>2, <2>4, <2>5, <2>6
<1> QED
  BY <1>7, <1>8

LEMMA NombresConDireccion ==
  ASSUME NEW nodo \in Nodo, NEW nombre, nombre \notin ToSet(Argumentos),
         NEW dir \in DireccionDeValor, NEW r, r = ConDireccion(nodo, nombre, dir)
  PROVE  /\ r.args = nodo.args /\ r.retPos = nodo.retPos
         /\ NombresDe(nodo) \subseteq NombresDe(r) /\ nombre \in NombresDe(r)
<1>0. PICK x : x = [idVar |-> nombre, dirVar |-> dir]
  OBVIOUS
<1>1. /\ nodo = [args |-> nodo.args, vars |-> nodo.vars, retPos |-> nodo.retPos,
                 retVar |-> nodo.retVar]
      /\ nodo.vars \in Seq(VarsDeNodo)
  BY NodoTipado
<1>2. r = [args |-> nodo.args, vars |-> Append(nodo.vars, x), retPos |-> nodo.retPos,
           retVar |-> nodo.retVar]
  BY <1>0, <1>1 DEF ConDireccion
<1>3. PICK T : T = VarsDeNodo \cup {x}
  OBVIOUS
<1>4. PICK v \in Seq(T) : v = nodo.vars
  <2>1. Seq(VarsDeNodo) \subseteq Seq(T)
    BY <1>3, SeqMonotona
  <2> QED
    BY <1>1, <2>1
<1>5. x \in T
  BY <1>3
<1>6. /\ DOMAIN Append(v, x) = 1..(Len(v) + 1) /\ Append(v, x)[Len(v) + 1] = x
      /\ DOMAIN v = 1..Len(v) /\ Len(v) \in Nat
      /\ \A i \in 1..Len(v) : Append(v, x)[i] = v[i]
  BY <1>5
<1>7. \A i \in DOMAIN v : i \in DOMAIN Append(v, x) /\ Append(v, x)[i] = v[i]
  BY <1>6
<1>8. Len(v) + 1 \in DOMAIN Append(v, x) /\ Append(v, x)[Len(v) + 1].idVar = nombre
  BY <1>0, <1>6
<1> QED
  BY <1>2, <1>4, <1>7, <1>8 DEF NombresDe

\* The stack with the first k names in its last node, and else as it was.
Extiende(s, p, nombres, k) ==
  /\ Len(s) = Len(p) /\ \A n \in 1..(Len(p) - 1) : s[n] = p[n]
  /\ s[Len(p)].args = p[Len(p)].args /\ s[Len(p)].retPos = p[Len(p)].retPos
  /\ NombresDe(p[Len(p)]) \subseteq NombresDe(s[Len(p)])
  /\ \A j \in 1..k : nombres[j] \in NombresDe(s[Len(p)])

\* What definirVariable has made of m after k names.
Avance(d, m, nombres, k) ==
  /\ Marcha(d) /\ d.aEjecutarDelPcb = m.aEjecutarDelPcb
  /\ d.pcb = ConPila(m.pcb, d.pcb.indiceStack)
  /\ k > 0 \/ m.pcb.indiceStack # <<>> => ConNodo(d.pcb.indiceStack) = d.pcb.indiceStack
  /\ \/ d.interrupcion = "stackOverflow"
     \/ /\ d.interrupcion = m.interrupcion
        /\ Extiende(ConNodo(d.pcb.indiceStack), ConNodo(m.pcb.indiceStack), nombres, k)

LEMMA AvanzaUnNombre ==
  ASSUME programa \in Programas, NEW m, Marcha(m), NEW k \in Nat, NEW nombres,
         nombres[k + 1] \in Nombres \ ToSet(Argumentos),
         NEW d, Avance(d, m, nombres, k), NEW r, r = definirVariable(d, nombres[k + 1])
  PROVE  Avance(r, m, nombres, k + 1)
<1>1. PICK nombre \in Nombres : nombre = nombres[k + 1] /\ nombre \notin ToSet(Argumentos)
  OBVIOUS
<1>2. PICK pila : pila = ConNodo(d.pcb.indiceStack)
  OBVIOUS
<1>3. Marcha(d) /\ d.pcb \in PcbDelPrograma /\ EnOrden(d.pcb.indiceStack)
  BY DEF Avance, Marcha
<1>4. pila \in Seq(Nodo) /\ pila # <<>> /\ EnOrden(pila)
  <2>1. d.pcb.indiceStack \in Seq(Nodo)
    BY <1>3, PilaDelPcb
  <2> QED
    BY <1>2, <1>3, <2>1, ConNodoTipada
<1>5. /\ Marcha(r) /\ r.aEjecutarDelPcb = d.aEjecutarDelPcb
      /\ \/ r.interrupcion = "stackOverflow" /\ r.pcb = ConPila(d.pcb, pila)
         \/ /\ r.interrupcion = d.interrupcion
            /\ r.pcb = ConPila(d.pcb, Definida(d.pcb, pila, nombre))
  BY <1>1, <1>2, <1>3, VariableDefinida
<1>6. \A s \in Seq(Nodo) : /\ ConPila(d.pcb, s).indiceStack = s
                          /\ ConPila(d.pcb, s) = ConPila(m.pcb, s)
  <2>1. d.pcb = ConPila(m.pcb, d.pcb.indiceStack)
    BY DEF Avance
  <2>2. \A s \in Seq(Nodo) : ConPila(d.pcb, s).indiceStack = s
    BY <1>3, PcbConPila
  <2>3. \A s, s0 : ConPila(ConPila(m.pcb, s0), s) = ConPila(m.pcb, s)
    <3>1. m.pcb \in PcbDelPrograma
      BY DEF Marcha
    <3> QED
      BY <3>1 DEF ConPila, PcbDelPrograma
  <2> QED
    BY <2>1, <2>2, <2>3
<1>7. r.aEjecutarDelPcb = m.aEjecutarDelPcb
  BY <1>5 DEF Avance
<1>8. CASE r.interrupcion = "stackOverflow" /\ r.pcb = ConPila(d.pcb, pila)
  <2>1. r.pcb.indiceStack = pila /\ r.pcb = ConPila(m.pcb, pila)
    BY <1>4, <1>6, <1>8
  <2>2. ConNodo(pila) = pila
    BY <1>4 DEF ConNodo
  <2> QED
    BY <1>5, <1>7, <1>8, <2>1, <2>2 DEF Avance
<1>9. CASE /\ r.interrupcion = d.interrupcion
           /\ r.pcb = ConPila(d.pcb, Definida(d.pcb, pila, nombre))
  <2>0. PICK nueva : nueva = Definida(d.pcb, pila, nombre)
    OBVIOUS
  <2>1. PICK t \in Nat : t = Len(pila) /\ t > 0 /\ DOMAIN pila = 1..t /\ t \in DOMAIN pila
    <3>1. Len(pila) \in Nat /\ Len(pila) # 0 /\ DOMAIN pila = 1..Len(pila)
      BY <1>4, EmptySeq
    <3>2. Len(pila) > 0 /\ Len(pila) \in 1..Len(pila)
      BY ONLY <3>1
    <3> QED
      BY ONLY <3>1, <3>2
  <2>2. PICK nodo \in Nodo : nodo = pila[t]
    BY <1>4, <2>1
  <2>3. PICK dir \in DireccionDeValor : dir = DireccionSiguiente(d.pcb, pila)
    BY <1>3, <1>4, SiguienteLibre
  <2>4. PICK w : w = ConDireccion(nodo, nombre, dir)
    OBVIOUS
  <2>5. nueva = [pila EXCEPT ![t] = w]
    BY <2>0, <2>1, <2>2, <2>3, <2>4 DEF Definida
  <2>6. w \in Nodo
    BY <1>1, <2>4, NodoConDireccion
  <2>7. nueva \in Seq(Nodo) /\ Len(nueva) = t
    BY <1>4, <2>1, <2>5, <2>6, CambiarLugar
  <2>8. nueva[t] = w /\ \A n \in 1..(t - 1) : nueva[n] = pila[n]
    BY <2>1, <2>5
  <2>9. /\ w.args = nodo.args /\ w.retPos = nodo.retPos
        /\ NombresDe(nodo) \subseteq NombresDe(w) /\ nombre \in NombresDe(w)
    BY <1>1, <2>4, NombresConDireccion
  <2>10. r.pcb.indiceStack = nueva /\ r.pcb = ConPila(m.pcb, nueva)
    BY <1>6, <1>9, <2>0, <2>7
  <2>11. ConNodo(nueva) = nueva
    <3>1. nueva # <<>>
      BY <2>1, <2>7
    <3> QED
      BY <3>1 DEF ConNodo
  <2>12. CASE d.interrupcion = "stackOverflow"
    BY <1>5, <1>7, <1>9, <2>10, <2>11, <2>12 DEF Avance
  <2>13. CASE d.interrupcion # "stackOverflow"
    <3>1. PICK p : p = ConNodo(m.pcb.indiceStack)
      OBVIOUS
    <3>2. d.interrupcion = m.interrupcion /\ Extiende(pila, p, nombres, k)
      BY <1>2, <2>13, <3>1 DEF Avance
    <3>3. Len(p) = t
      BY <2>1, <3>2 DEF Extiende
    <3>4. /\ \A n \in 1..(t - 1) : nueva[n] = p[n]
          /\ w.args = p[t].args /\ w.retPos = p[t].retPos
          /\ NombresDe(p[t]) \subseteq NombresDe(w)
      BY <2>2, <2>8, <2>9, <3>2, <3>3 DEF Extiende
    <3>5. \A j \in 1..(k + 1) : nombres[j] \in NombresDe(w)
      <4> SUFFICES ASSUME NEW j \in 1..(k + 1) PROVE nombres[j] \in NombresDe(w)
        OBVIOUS
      <4>1. CASE j = k + 1
        BY <1>1, <2>9, <4>1
      <4>2. CASE j # k + 1
        <5>1. j \in 1..k
          BY <4>2
        <5> QED
          BY <2>2, <2>9, <3>2, <3>3, <5>1 DEF Extiende
      <4> QED
        BY <4>1, <4>2
    <3>6. Extiende(nueva, p, nombres, k + 1)
      BY <2>7, <2>8, <3>3, <3>4, <3>5 DEF Extiende
    <3> QED
      BY <1>5, <1>7, <1>9, <2>10, <2>11, <3>1, <3>2, <3>6 DEF Avance
  <2> QED
    BY <2>12, <2>13
<1> QED
  BY <1>5, <1>8, <1>9

\* The recursion of the instruction that defines variables.
Definiendo(m, nombres, n, f) ==
  f = [k \in 0..n |-> IF k = 0 THEN m ELSE definirVariable(f[k - 1], nombres[k])]

LEMMA HayDefiniciones ==
  ASSUME NEW m, NEW nombres, NEW n \in Nat
  PROVE  \E f : Definiendo(m, nombres, n, f)
<1> DEFINE Paso(f, i) == IF i = 0 THEN m ELSE definirVariable(f[i - 1], nombres[i])
           Bien(k, f) == f = [i \in 0..k |-> Paso(f, i)]
           Hay(k) == \E f : Bien(k, f)
           B == {k \in 0..n : Hay(k)}
<1>1. Hay(0)
  <2> DEFINE f == [i \in 0..0 |-> m]
  <2>1. f = [i \in 0..0 |-> Paso(f, i)]
    OBVIOUS
  <2>2. Bien(0, f)
    BY <2>1
  <2> HIDE DEF f, Bien
  <2> QED
    BY <2>2
<1>2. ASSUME NEW k \in 1..n, Hay(k - 1) PROVE Hay(k)
  <2>1. PICK f : Bien(k - 1, f)
    BY <1>2
  <2>2. f = [i \in 0..(k-1) |-> Paso(f, i)]
    BY <2>1
  <2> DEFINE g == [i \in 0..k |-> Paso(f, i)]
  <2>3. ASSUME NEW i \in 0..k PROVE Paso(f, i) = Paso(g, i)
    <3>1. CASE i = 0
      BY <3>1
    <3>2. CASE i # 0
      <4>1. i - 1 \in 0..(k-1) /\ i - 1 \in 0..k
        BY <3>2
      <4>2. f[i-1] = Paso(f, i-1) /\ g[i-1] = Paso(f, i-1)
        BY <4>1, <2>2
      <4> QED
        BY <3>2, <4>2
    <3> QED
      BY <3>1, <3>2
  <2>4. Bien(k, g)
    BY <2>3
  <2> HIDE DEF Bien, g
  <2> QED
    BY <2>4
<1> HIDE DEF Hay
<1>3. B = 0..n
  <2>1. B \in SUBSET (0..n) /\ 0 \in B
    BY <1>1
  <2>2. ASSUME NEW k \in 1..n, k - 1 \in B PROVE k \in B
    BY <1>2, <2>2
  <2> HIDE DEF B
  <2> QED
    BY <2>1, <2>2, HastaN
<1>4. Hay(n)
  <2>1. n \in B
    BY <1>3
  <2> QED
    BY <2>1
<1>5. PICK f : Bien(n, f)
  BY <1>4 DEF Hay
<1> QED
  BY <1>5 DEF Definiendo

\* The names of an instruction, defined one after the other.
LEMMA VariablesDefinidas ==
  ASSUME programa \in Programas, NEW m, Marcha(m), NEW i,
         i.nombres \in Seq(Nombres \ ToSet(Argumentos)), NEW r, r = Variables(m, i)
  PROVE  Avance(r, m, i.nombres, Len(i.nombres))
<1>1. PICK n \in Nat : n = Len(i.nombres)
  OBVIOUS
<1>2. PICK nombres \in Seq(Nombres \ ToSet(Argumentos)) : nombres = i.nombres
  OBVIOUS
<1>3. PICK f : f = (CHOOSE g : Definiendo(m, nombres, n, g))
  OBVIOUS
<1>4. Definiendo(m, nombres, n, f)
  <2>1. \E g : Definiendo(m, nombres, n, g)
    BY HayDefiniciones
  <2> QED
    BY <1>3, <2>1
<1>5. r = f[n]
  BY <1>1, <1>2, <1>3 DEF Variables, Definiendo
<1>6. /\ f[0] = m
      /\ \A k \in 1..n : f[k] = definirVariable(f[k - 1], nombres[k])
  <2>1. 0 \in 0..n /\ \A k \in 1..n : k \in 0..n /\ k # 0
    OBVIOUS
  <2> QED
    BY <1>4, <2>1 DEF Definiendo
<1> DEFINE B == {k \in 0..n : Avance(f[k], m, nombres, k)}
<1>7. 0 \in B
  <2>1. m.pcb \in PcbDelPrograma
    BY DEF Marcha
  <2>2. m.pcb = ConPila(m.pcb, m.pcb.indiceStack)
    BY <2>1 DEF ConPila, PcbDelPrograma
  <2>3. \A p : Extiende(p, p, nombres, 0)
    BY DEF Extiende
  <2>4. m.pcb.indiceStack # <<>> => ConNodo(m.pcb.indiceStack) = m.pcb.indiceStack
    BY DEF ConNodo
  <2> QED
    BY <1>6, <2>2, <2>3, <2>4 DEF Avance
<1>8. ASSUME NEW k \in 1..n, k - 1 \in B PROVE k \in B
  <2>1. PICK j \in Nat : j = k - 1 /\ j + 1 = k
    <3>1. k - 1 \in Nat /\ (k - 1) + 1 = k
      OBVIOUS
    <3> QED
      BY <3>1
  <2>2. PICK d : d = f[j]
    OBVIOUS
  <2>3. Avance(d, m, nombres, j)
    BY <1>8, <2>1, <2>2
  <2>4. nombres[j + 1] \in Nombres \ ToSet(Argumentos)
    BY <1>1, <1>2, <2>1
  <2>5. PICK x : x = definirVariable(d, nombres[j + 1])
    OBVIOUS
  <2>6. Avance(x, m, nombres, j + 1)
    BY <2>3, <2>4, <2>5, AvanzaUnNombre
  <2>7. f[k] = x /\ k \in 0..n
    BY <1>6, <2>1, <2>2, <2>5
  <2> QED
    BY <2>1, <2>6, <2>7
<1>9. B = 0..n
  <2>1. B \in SUBSET (0..n)
    OBVIOUS
  <2> HIDE DEF B
  <2> QED
    BY <1>7, <1>8, <2>1, HastaN
<1>10. n \in B
  BY <1>9
<1> QED
  BY <1>1, <1>2, <1>5, <1>10

\* The directions that a node has for a name, as obtenerPosicionVariable finds them.
LEMMA DireccionHallada ==
  ASSUME NEW p \in PcbDelPrograma, p.indiceStack # <<>>, NEW nombre,
         NEW d, d = Direcciones(p, nombre), DOMAIN d # {},
         NEW nodo, nodo = p.indiceStack[Len(p.indiceStack)]
  PROVE  \E i \in DOMAIN DireccionesDe(nodo) : d[Max(DOMAIN d)] = DireccionesDe(nodo)[i]
<1>1. nodo \in Nodo
  <2>1. /\ Len(p.indiceStack) \in Nat /\ DOMAIN p.indiceStack = 1..Len(p.indiceStack)
        /\ \A n \in DOMAIN p.indiceStack : p.indiceStack[n] \in Nodo
    BY PilaDelPcb
  <2>2. Len(p.indiceStack) # 0
    <3>1. p.indiceStack \in Seq(Nodo)
      BY PilaDelPcb
    <3> QED
      BY <3>1, EmptySeq
  <2>3. Len(p.indiceStack) \in 1..Len(p.indiceStack)
    BY ONLY <2>1, <2>2
  <2> QED
    BY <2>1, <2>3
<1>2. PICK a \in Nat, v \in Nat :
        /\ a = Len(nodo.args) /\ v = Len(nodo.vars)
        /\ DOMAIN nodo.args = 1..a /\ DOMAIN nodo.vars = 1..v
  BY <1>1, NodoTipado
<1>3. /\ DOMAIN DireccionesDe(nodo) = 1..(a + v)
      /\ \A i \in 1..a : DireccionesDe(nodo)[i] = nodo.args[i]
      /\ \A i \in 1..v : DireccionesDe(nodo)[a + i] = nodo.vars[i].dirVar
  BY <1>1, <1>2, DireccionesDelNodo
<1>4. nodo = Last(p.indiceStack)
  BY DEF Last
<1>5. CASE nombre \in ToSet(Argumentos)
  <2>1. d = [i \in {k \in DOMAIN nodo.args : Argumentos[k] = nombre} |-> nodo.args[i]]
    BY <1>4, <1>5 DEF Direcciones
  <2>2. PICK I : I = {k \in 1..a : Argumentos[k] = nombre}
    OBVIOUS
  <2>3. DOMAIN d = I /\ \A i \in I : d[i] = nodo.args[i]
    BY <1>2, <2>1, <2>2
  <2>4. I \in SUBSET (1..a) /\ I # {}
    BY <2>2, <2>3
  <2>5. PICK x \in 1..a : x = Max(I) /\ x \in I
    BY <2>4, MayorDe
  <2>6. x \in 1..(a + v)
    OBVIOUS
  <2>7. DireccionesDe(nodo)[x] = d[x] /\ x \in DOMAIN DireccionesDe(nodo)
    BY <1>3, <2>3, <2>5, <2>6
  <2> QED
    BY <2>3, <2>5, <2>7
<1>6. CASE nombre \notin ToSet(Argumentos)
  <2>1. d = [i \in {k \in DOMAIN nodo.vars : nodo.vars[k].idVar = nombre} |-> nodo.vars[i].dirVar]
    BY <1>4, <1>6 DEF Direcciones
  <2>2. PICK I : I = {k \in 1..v : nodo.vars[k].idVar = nombre}
    OBVIOUS
  <2>3. DOMAIN d = I /\ \A i \in I : d[i] = nodo.vars[i].dirVar
    BY <1>2, <2>1, <2>2
  <2>4. I \in SUBSET (1..v) /\ I # {}
    BY <2>2, <2>3
  <2>5. PICK x \in 1..v : x = Max(I) /\ x \in I
    BY <2>4, MayorDe
  <2>6. a + x \in 1..(a + v)
    OBVIOUS
  <2>7. DireccionesDe(nodo)[a + x] = d[x] /\ a + x \in DOMAIN DireccionesDe(nodo)
    BY <1>3, <2>3, <2>5, <2>6
  <2> QED
    BY <2>3, <2>5, <2>7
<1> QED
  BY <1>5, <1>6

\* obtenerPosicionVariable: the position of a value of the last node, or the interruption.
LEMMA PosicionObtenida ==
  ASSUME programa \in Programas, NEW m, Marcha(m), m.pcb.indiceStack # <<>>, NEW nombre,
         NEW r, r = obtenerPosicionVariable(m, nombre)
  PROVE  /\ Estable(m, r)
         /\ DOMAIN Direcciones(m.pcb, nombre) # {} =>
              r.interrupcion = m.interrupcion /\ EnPaginas(m.pcb, r.puntero)
<1>1. PICK p \in PcbDelPrograma : p = m.pcb /\ EnOrden(p.indiceStack)
  BY DEF Marcha
<1>2. PICK d : d = Direcciones(p, nombre)
  OBVIOUS
<1>3. CASE DOMAIN d = {}
  <2>1. PICK s : s = [m EXCEPT !.puntero = -1]
    OBVIOUS
  <2>2. Estable(m, s)
    <3>1. -1 \in Int
      OBVIOUS
    <3> QED
      BY <2>1, <3>1, MarchaConPuntero
  <2>3. r = Interrumpir(s, "direccionInvalida")
    BY <1>1, <1>2, <1>3, <2>1 DEF obtenerPosicionVariable
  <2>4. "direccionInvalida" \in Interrupciones /\ "direccionInvalida" \in Fatales
    BY DEF Interrupciones, Fatales
  <2>5. Estable(s, Interrumpir(s, "direccionInvalida"))
    BY <2>2, <2>4, MarchaInterrumpida DEF Estable
  <2>6. Estable(m, r)
    BY <2>2, <2>3, <2>5, EstableSeguida
  <2> QED
    BY <1>1, <1>2, <1>3, <2>6
<1>4. CASE DOMAIN d # {}
  <2>1. PICK t : t = Len(p.indiceStack)
    OBVIOUS
  <2>2. PICK nodo : nodo = p.indiceStack[t]
    OBVIOUS
  <2>3. PICK i \in DOMAIN DireccionesDe(nodo) : d[Max(DOMAIN d)] = DireccionesDe(nodo)[i]
    <3>1. p.indiceStack # <<>>
      BY <1>1
    <3> QED
      BY <1>2, <1>4, <2>1, <2>2, <3>1, DireccionHallada
  <2>4. t \in DOMAIN p.indiceStack /\ nodo \in Nodo
    <3>1. p.indiceStack \in Seq(Nodo) /\ p.indiceStack # <<>>
      BY <1>1, PilaDelPcb
    <3>2. t \in Nat /\ t # 0 /\ DOMAIN p.indiceStack = 1..t
      BY <2>1, <3>1, EmptySeq
    <3>3. t \in DOMAIN p.indiceStack
      BY ONLY <3>2
    <3> QED
      BY <2>2, <3>1, <3>3
  <2>5. PICK dir \in DireccionDeValor : dir = DireccionesDe(nodo)[i]
    <3>1. DireccionesDe(nodo) \in Seq(DireccionDeValor)
      BY <2>4, DireccionesDelNodo
    <3> QED
      BY <3>1
  <2>6. dir.offset + 4 <= TamPagina /\ dir.pagina \in PaginasDeCodigo..(PaginasTotales - 1)
    BY <1>1, <2>2, <2>4, <2>5 DEF EnOrden
  <2>7. EnPaginas(p, PunteroDe(dir))
    BY <2>6, ValorEnPaginas
  <2>8. PunteroDe(dir) \in Int
    <3>1. dir.pagina \in Int /\ dir.offset \in Int
      BY DEF DireccionDeValor
    <3> QED
      BY <3>1, PunteroEntero
  <2>9. r = [m EXCEPT !.puntero = PunteroDe(dir)]
    BY <1>1, <1>2, <1>4, <2>3, <2>5 DEF obtenerPosicionVariable
  <2>10. Estable(m, r)
    BY <2>8, <2>9, MarchaConPuntero
  <2>11. r.puntero = PunteroDe(dir) /\ r.interrupcion = m.interrupcion
    BY <2>9 DEF Marcha
  <2> QED
    BY <1>1, <2>7, <2>10, <2>11
<1> QED
  BY <1>3, <1>4

LEMMA Dereferenciada ==
  ASSUME NEW m, Marcha(m), NEW puntero
  PROVE  Estable(m, dereferenciar(m, puntero))
<1>1. CASE EnPaginas(m.pcb, puntero)
  BY <1>1, MarchaConValor DEF dereferenciar
<1>2. CASE ~EnPaginas(m.pcb, puntero)
  <2>1. PICK s : s = [m EXCEPT !.valor = 0]
    OBVIOUS
  <2>2. Estable(m, s)
    BY <2>1, MarchaConValor
  <2>3. "direccionInvalida" \in Interrupciones /\ "direccionInvalida" \in Fatales
    BY DEF Interrupciones, Fatales
  <2>4. Estable(s, Interrumpir(s, "direccionInvalida"))
    BY <2>2, <2>3, MarchaInterrumpida DEF Estable
  <2>5. dereferenciar(m, puntero) = Interrumpir(s, "direccionInvalida")
    BY <1>2, <2>1 DEF dereferenciar
  <2> QED
    BY <2>2, <2>4, <2>5, EstableSeguida
<1> QED
  BY <1>1, <1>2

LEMMA EstableSiempre ==
  ASSUME NEW m, Marcha(m)
  PROVE  Estable(m, m)
BY DEF Estable, Interrumpida

LEMMA Almacenada ==
  ASSUME NEW m, Marcha(m), NEW puntero, NEW valor
  PROVE  /\ Estable(m, almacenarDatosEnMemoria(m, puntero, valor))
         /\ almacenarDatosEnMemoria(m, puntero, valor).interrupcion = m.interrupcion
<1>1. CASE EnPaginas(m.pcb, puntero)
  <2>1. PICK x : x = ConValor(m.memoria, puntero, valor)
    OBVIOUS
  <2>2. almacenarDatosEnMemoria(m, puntero, valor) = [m EXCEPT !.memoria = x]
    BY <1>1, <2>1 DEF almacenarDatosEnMemoria
  <2>3. Estable(m, [m EXCEPT !.memoria = x])
    BY MarchaConMemoria
  <2>4. [m EXCEPT !.memoria = x].interrupcion = m.interrupcion
    BY DEF Marcha
  <2> QED
    BY <2>2, <2>3, <2>4
<1>2. CASE ~EnPaginas(m.pcb, puntero)
  BY <1>2, EstableSiempre DEF almacenarDatosEnMemoria
<1> QED
  BY <1>1, <1>2

LEMMA Asignada ==
  ASSUME NEW m, Marcha(m), NEW puntero, NEW valor
  PROVE  /\ Estable(m, asignar(m, puntero, valor))
         /\ EnPaginas(m.pcb, puntero) => asignar(m, puntero, valor).interrupcion = m.interrupcion
<1>1. CASE EnPaginas(m.pcb, puntero)
  BY <1>1, Almacenada DEF asignar
<1>2. CASE ~EnPaginas(m.pcb, puntero)
  <2>1. "excepcionMemoria" \in Interrupciones /\ "excepcionMemoria" \in Fatales
    BY DEF Interrupciones, Fatales
  <2> QED
    BY <1>2, <2>1, MarchaInterrumpida DEF asignar
<1> QED
  BY <1>1, <1>2

\* An operand that is read changes nothing but the value at hand.
LEMMA Operada ==
  ASSUME programa \in Programas, NEW m, Marcha(m), m.pcb.indiceStack # <<>>, NEW operando
  PROVE  Estable(m, Operar(m, operando))
<1>1. CASE EsVariable(operando)
  <2>1. PICK p : p = obtenerPosicionVariable(m, operando[2])
    OBVIOUS
  <2>2. Estable(m, p)
    BY <2>1, PosicionObtenida
  <2>3. Estable(p, dereferenciar(p, p.puntero))
    BY <2>2, Dereferenciada DEF Estable
  <2>4. Operar(m, operando) = dereferenciar(p, p.puntero)
    BY <1>1, <2>1 DEF Operar
  <2> QED
    BY <2>2, <2>3, <2>4, EstableSeguida
<1>2. CASE ~EsVariable(operando)
  BY <1>2, MarchaConValor DEF Operar
<1> QED
  BY <1>1, <1>2

LEMMA Escrita ==
  ASSUME programa \in Programas, NEW m, Marcha(m), m.pcb.indiceStack # <<>>, NEW nombre, NEW valor
  PROVE  /\ Estable(m, Escribir(m, nombre, valor))
         /\ DOMAIN Direcciones(m.pcb, nombre) # {} =>
              Escribir(m, nombre, valor).interrupcion = m.interrupcion
<1>1. PICK p : p = obtenerPosicionVariable(m, nombre)
  OBVIOUS
<1>2. /\ Estable(m, p)
      /\ DOMAIN Direcciones(m.pcb, nombre) # {} =>
           p.interrupcion = m.interrupcion /\ EnPaginas(m.pcb, p.puntero)
  BY <1>1, PosicionObtenida
<1>3. /\ Estable(p, asignar(p, p.puntero, valor))
      /\ EnPaginas(p.pcb, p.puntero) => asignar(p, p.puntero, valor).interrupcion = p.interrupcion
  BY <1>2, Asignada DEF Estable
<1>4. Escribir(m, nombre, valor) = asignar(p, p.puntero, valor) /\ p.pcb = m.pcb
  BY <1>1, <1>2 DEF Escribir, Estable
<1> QED
  BY <1>2, <1>3, <1>4, EstableSeguida

-----------------------------------------------------------------------------
(* Where each frame of the stack is in the text.                           *)

EnSuLugar(nodo, lugar, k) ==
  \E e \in Entradas(programa) :
    /\ EsDeRutina(programa, e, lugar)
    /\ (e = Principal(programa)) = (k = 1)
    /\ Visibles(programa, e, lugar) \subseteq NombresDe(nodo)

LEMMA EntradasEnElTexto ==
  ASSUME programa \in Programas
  PROVE  /\ Principal(programa) \in Entradas(programa)
         /\ Entradas(programa) \subseteq DOMAIN programa.codigo
         /\ DOMAIN programa.codigo \subseteq Nat /\ Entradas(programa) \subseteq Nat
<1>1. /\ DOMAIN programa.codigo = 1..Len(programa.codigo) /\ Len(programa.codigo) \in Nat
      /\ programa.etiquetas \in [DOMAIN programa.etiquetas -> 0..(Len(programa.codigo) - 1)]
      /\ RutinasBienFormadas(programa)
  BY TextoDelPrograma
<1>2. Principal(programa) \in DOMAIN programa.codigo
  BY <1>1 DEF RutinasBienFormadas
<1>3. DOMAIN programa.codigo \subseteq Nat
  BY <1>1
<1>4. ASSUME NEW i \in Llamadores(programa)
      PROVE  programa.etiquetas[programa.codigo[i].etiqueta] + 1 \in DOMAIN programa.codigo
  <2>1. programa.codigo[i].etiqueta \in DOMAIN programa.etiquetas
    BY DEF Llamadores, Etiquetada
  <2>2. programa.etiquetas[programa.codigo[i].etiqueta] \in 0..(Len(programa.codigo) - 1)
    BY <1>1, <2>1
  <2> QED
    BY <1>1, <2>2
<1>5. Entradas(programa) \subseteq DOMAIN programa.codigo
  BY <1>2, <1>4 DEF Entradas
<1> QED
  BY <1>2, <1>3, <1>5 DEF Entradas

\* What the program has after an instruction that does not leave its routine.
LEMMA SiguienteEnElTexto ==
  ASSUME programa \in Programas, NEW i \in DOMAIN programa.codigo,
         programa.codigo[i].op \notin {"fin", "retornar"}
  PROVE  i + 1 \in DOMAIN programa.codigo /\ i + 1 \notin Entradas(programa)
<1>1. RutinasBienFormadas(programa)
  BY TextoDelPrograma
<1> QED
  BY <1>1 DEF RutinasBienFormadas

LEMMA SiguienteEnSuLugar ==
  ASSUME programa \in Programas, NEW i \in DOMAIN programa.codigo,
         programa.codigo[i].op \notin {"fin", "retornar"},
         NEW nodo, NEW k, EnSuLugar(nodo, i, k),
         NEW w, NombresDe(nodo) \subseteq NombresDe(w),
         programa.codigo[i].op = "variables" =>
           ToSet(programa.codigo[i].nombres) \subseteq NombresDe(w)
  PROVE  i + 1 \in DOMAIN programa.codigo /\ EnSuLugar(w, i + 1, k)
<1>1. i + 1 \in DOMAIN programa.codigo /\ i + 1 \notin Entradas(programa)
  BY SiguienteEnElTexto
<1>2. PICK e \in Entradas(programa) :
        /\ EsDeRutina(programa, e, i)
        /\ (e = Principal(programa)) = (k = 1)
        /\ Visibles(programa, e, i) \subseteq NombresDe(nodo)
  BY DEF EnSuLugar
<1>3. /\ i \in Nat /\ e \in Nat /\ \A f \in Entradas(programa) : f \in Nat
  BY EntradasEnElTexto
<1>4. EsDeRutina(programa, e, i + 1)
  <2>1. e <= i /\ \A f \in Entradas(programa) : f <= i => f <= e
    BY <1>2 DEF EsDeRutina
  <2>2. ASSUME NEW f \in Entradas(programa), f <= i + 1 PROVE f <= e
    <3>1. f # i + 1
      BY <1>1
    <3>2. f \in Nat /\ i \in Nat /\ f <= i + 1
      BY <1>3, <2>2
    <3>3. f <= i
      BY ONLY <3>1, <3>2
    <3> QED
      BY <2>1, <3>3
  <2>3. e <= i + 1
    BY <1>3, <2>1
  <2> QED
    BY <2>2, <2>3 DEF EsDeRutina
<1>5. Visibles(programa, e, i + 1) \subseteq NombresDe(w)
  <2>1. e <= i
    BY <1>2 DEF EsDeRutina
  <2>2. CASE e = i
    BY <1>2, <1>3, <2>2 DEF Visibles
  <2>3. CASE e # i
    <3>1. e < i
      BY <1>3, <2>1, <2>3
    <3>2. Visibles(programa, e, i + 1) = Visibles(programa, e, i)
      BY <1>3, <3>1 DEF Visibles
    <3> QED
      BY <1>2, <3>2
  <2> QED
    BY <2>2, <2>3
<1> QED
  BY <1>1, <1>2, <1>4, <1>5 DEF EnSuLugar

\* A jump stays in its routine.
LEMMA SaltoEnSuLugar ==
  ASSUME programa \in Programas, NEW i \in DOMAIN programa.codigo,
         programa.codigo[i].op = "saltar", Etiquetada(programa, i),
         NEW nodo, NEW k, EnSuLugar(nodo, i, k),
         NEW j, j = programa.etiquetas[programa.codigo[i].etiqueta] + 1
  PROVE  j \in DOMAIN programa.codigo /\ EnSuLugar(nodo, j, k)
<1>1. /\ DOMAIN programa.codigo = 1..Len(programa.codigo) /\ Len(programa.codigo) \in Nat
      /\ programa.etiquetas \in [DOMAIN programa.etiquetas -> 0..(Len(programa.codigo) - 1)]
      /\ RutinasBienFormadas(programa)
  BY TextoDelPrograma
<1>2. programa.etiquetas[programa.codigo[i].etiqueta] \in 0..(Len(programa.codigo) - 1)
  BY <1>1 DEF Etiquetada
<1>3. j \in DOMAIN programa.codigo /\ j \in Nat
  BY <1>1, <1>2
<1>4. \A e \in Entradas(programa) : e <= i <=> e <= j
  BY <1>1 DEF RutinasBienFormadas
<1>5. PICK e \in Entradas(programa) :
        /\ EsDeRutina(programa, e, i)
        /\ (e = Principal(programa)) = (k = 1)
        /\ Visibles(programa, e, i) \subseteq NombresDe(nodo)
  BY DEF EnSuLugar
<1>6. EsDeRutina(programa, e, j)
  BY <1>4, <1>5 DEF EsDeRutina
<1>7. Visibles(programa, e, j) \subseteq NombresDe(nodo)
  <2>1. /\ i \in Nat /\ e \in Nat /\ e <= i
    BY <1>5, EntradasEnElTexto DEF EsDeRutina
  <2>2. CASE e = i
    <3>1. programa.codigo[e].op # "variables"
      BY <2>2
    <3>2. Visibles(programa, e, j) \subseteq Visibles(programa, e, i)
      BY <3>1 DEF Visibles
    <3> QED
      BY <1>5, <3>2
  <2>3. CASE e # i
    <3>1. e < i
      BY <2>1, <2>3
    <3>2. Visibles(programa, e, j) \subseteq Visibles(programa, e, i)
      BY <3>1 DEF Visibles
    <3> QED
      BY <1>5, <3>2
  <2> QED
    BY <2>2, <2>3
<1> QED
  BY <1>3, <1>5, <1>6, <1>7 DEF EnSuLugar

\* The frames of a stack, each in its place.
LEMMA MarcosEnSuLugar ==
  ASSUME programa \in Programas, NEW p \in PcbDelPrograma
  PROVE  PilaEnRutinas(p) <=>
           /\ p.programCounter + 1 \in DOMAIN programa.codigo
           /\ p.indiceStack = <<>> => p.programCounter = programa.inicio
           /\ \A k \in DOMAIN p.indiceStack :
                /\ LugarDe(p, k) \in DOMAIN programa.codigo
                /\ k < Len(p.indiceStack) => programa.codigo[LugarDe(p, k)].op = "llamar"
                /\ Len(p.indiceStack[k].args) = IF k = 1 THEN 0 ELSE 1
                /\ EnSuLugar(p.indiceStack[k], LugarDe(p, k), k)
<1>1. \A k : EnSuLugar(p.indiceStack[k], LugarDe(p, k), k)
              <=> \E e \in Entradas(programa) : MarcoEnRutina(p, k, e)
  BY DEF EnSuLugar, MarcoEnRutina
<1> QED
  BY <1>1 DEF PilaEnRutinas

\* The last frame moves, the others stay.
LEMMA PilaMueve ==
  ASSUME programa \in Programas, NEW p \in PcbDelPrograma, PilaEnRutinas(p),
         p.indiceStack # <<>>, NEW q \in PcbDelPrograma, NEW nombres, NEW n,
         Extiende(q.indiceStack, p.indiceStack, nombres, n),
         NEW j \in DOMAIN programa.codigo, q.programCounter + 1 = j,
         EnSuLugar(q.indiceStack[Len(p.indiceStack)], j, Len(p.indiceStack))
  PROVE  PilaEnRutinas(q)
<1>1. PICK pila \in Seq(Nodo) : pila = p.indiceStack /\ pila # <<>>
  BY PilaDelPcb
<1>2. PICK s \in Seq(Nodo) : s = q.indiceStack
  BY PilaDelPcb
<1>3. PICK t \in Nat : t = Len(pila) /\ t > 0 /\ DOMAIN pila = 1..t /\ t \in 1..t
  <2>1. Len(pila) \in Nat /\ Len(pila) # 0 /\ DOMAIN pila = 1..Len(pila)
    BY <1>1, EmptySeq
  <2>2. Len(pila) > 0 /\ Len(pila) \in 1..Len(pila)
    BY ONLY <2>1
  <2> QED
    BY ONLY <2>1, <2>2
<1>4. /\ Len(s) = t /\ DOMAIN s = 1..t /\ \A k \in 1..(t - 1) : s[k] = pila[k]
      /\ s[t].args = pila[t].args /\ s[t].retPos = pila[t].retPos
  BY <1>1, <1>2, <1>3 DEF Extiende
<1>5. /\ \A k \in 1..t :
            /\ LugarDe(p, k) \in DOMAIN programa.codigo
            /\ k < t => programa.codigo[LugarDe(p, k)].op = "llamar"
            /\ Len(pila[k].args) = IF k = 1 THEN 0 ELSE 1
            /\ EnSuLugar(pila[k], LugarDe(p, k), k)
  BY <1>1, <1>3, MarcosEnSuLugar
<1>6. ASSUME NEW k \in 1..t
      PROVE  /\ LugarDe(q, k) \in DOMAIN programa.codigo
             /\ k < t => programa.codigo[LugarDe(q, k)].op = "llamar"
             /\ Len(s[k].args) = IF k = 1 THEN 0 ELSE 1
             /\ EnSuLugar(s[k], LugarDe(q, k), k)
  <2>1. CASE k = t
    <3>1. LugarDe(q, k) = j
      BY <1>2, <1>4, <2>1 DEF LugarDe
    <3>2. EnSuLugar(s[t], j, t)
      BY <1>1, <1>2, <1>3
    <3>3. Len(s[t].args) = IF t = 1 THEN 0 ELSE 1
      <4>1. Len(pila[t].args) = IF t = 1 THEN 0 ELSE 1
        BY <1>3, <1>5
      <4> QED
        BY <1>4, <4>1
    <3>4. ~(k < t) /\ LugarDe(q, k) \in DOMAIN programa.codigo
      BY <1>3, <2>1, <3>1
    <3> QED
      BY <2>1, <3>1, <3>2, <3>3, <3>4
  <2>2. CASE k # t
    <3>1. k \in 1..(t - 1) /\ k + 1 \in 1..t
      BY <2>2
    <3>2. s[k + 1].retPos = pila[k + 1].retPos
      <4>1. CASE k + 1 = t
        BY <1>4, <4>1
      <4>2. CASE k + 1 # t
        <5>1. k + 1 \in 1..(t - 1)
          BY <3>1, <4>2
        <5> QED
          BY <1>4, <5>1
      <4> QED
        BY <4>1, <4>2
    <3>3. LugarDe(q, k) = LugarDe(p, k)
      BY <1>1, <1>2, <1>3, <1>4, <2>2, <3>2 DEF LugarDe
    <3>4. s[k] = pila[k]
      BY <1>4, <3>1
    <3> QED
      BY <1>5, <3>3, <3>4
  <2> QED
    BY <2>1, <2>2
<1>7. s # <<>>
  BY <1>3, <1>4
<1> QED
  BY <1>2, <1>4, <1>6, <1>7, MarcosEnSuLugar

\* The last frame goes on to the next instruction.
LEMMA PilaSigue ==
  ASSUME programa \in Programas, NEW p \in PcbDelPrograma, PilaEnRutinas(p),
         p.indiceStack # <<>>, NEW q \in PcbDelPrograma, NEW nombres, NEW n,
         Extiende(q.indiceStack, p.indiceStack, nombres, n),
         NEW i, i = programa.codigo[p.programCounter + 1], i.op \notin {"fin", "retornar"},
         q.programCounter = p.programCounter + 1,
         i.op = "variables" => nombres = i.nombres /\ DOMAIN nombres = 1..n
  PROVE  PilaEnRutinas(q)
<1>1. PICK pila \in Seq(Nodo) : pila = p.indiceStack /\ pila # <<>>
  BY PilaDelPcb
<1>2. PICK t \in Nat : t = Len(pila) /\ t \in DOMAIN pila
  <2>1. Len(pila) \in Nat /\ Len(pila) # 0 /\ DOMAIN pila = 1..Len(pila)
    BY <1>1, EmptySeq
  <2>2. Len(pila) \in 1..Len(pila)
    BY ONLY <2>1
  <2> QED
    BY ONLY <2>1, <2>2
<1>3. PICK x \in DOMAIN programa.codigo : x = p.programCounter + 1
  BY DEF PilaEnRutinas
<1>4. EnSuLugar(pila[t], x, t)
  <2>1. LugarDe(p, t) = x
    BY <1>1, <1>2, <1>3 DEF LugarDe
  <2> QED
    BY <1>1, <1>2, <2>1, MarcosEnSuLugar
<1>5. PICK w : w = q.indiceStack[t]
  OBVIOUS
<1>6. NombresDe(pila[t]) \subseteq NombresDe(w)
  BY <1>1, <1>2, <1>5 DEF Extiende
<1>7. programa.codigo[x].op = "variables" =>
        ToSet(programa.codigo[x].nombres) \subseteq NombresDe(w)
  <2>1. ASSUME programa.codigo[x].op = "variables",
               NEW y \in ToSet(programa.codigo[x].nombres)
        PROVE  y \in NombresDe(w)
    <3>1. nombres = programa.codigo[x].nombres /\ DOMAIN nombres = 1..n
      BY <1>3, <2>1
    <3>2. PICK j \in DOMAIN nombres : y = nombres[j]
      BY <2>1, <3>1 DEF ToSet
    <3>3. j \in 1..n
      BY <3>1, <3>2
    <3>4. nombres[j] \in NombresDe(w)
      BY <1>1, <1>2, <1>5, <3>3 DEF Extiende
    <3> QED
      BY <3>2, <3>4
  <2> QED
    BY <2>1
<1>8. x + 1 \in DOMAIN programa.codigo /\ EnSuLugar(w, x + 1, t)
  BY <1>3, <1>4, <1>6, <1>7, SiguienteEnSuLugar
<1>9. q.programCounter + 1 = x + 1
  BY <1>3
<1> QED
  BY <1>1, <1>2, <1>5, <1>8, <1>9, PilaMueve

-----------------------------------------------------------------------------
(* The count of instructions of a process that does not recur.             *)

LEMMA LimiteEs ==
  ASSUME programa \in Programas, NEW i \in DOMAIN programa.codigo,
         NEW n, n = Len(programa.codigo)
  PROVE  /\ Limite(i) \in Nat /\ i < Limite(i) /\ Limite(i) <= n + 1
         /\ Limite(i) \in Entradas(programa) \/ Limite(i) = n + 1
         /\ \A e \in Entradas(programa) : e > i => Limite(i) <= e
         /\ i \in Nat /\ n \in Nat /\ i <= n /\ Resto(i) \in 0..(n - i)
<1>1. n \in Nat /\ DOMAIN programa.codigo = 1..n /\ Entradas(programa) \subseteq 1..n
  BY TextoDelPrograma, EntradasEnElTexto
<1>2. i \in Nat /\ i >= 1 /\ i <= n
  BY <1>1
<1>3. PICK I : I = {e \in Entradas(programa) : e > i} \cup {n + 1}
  OBVIOUS
<1>4. I \in SUBSET Nat /\ I # {} /\ n + 1 \in I
  BY <1>1, <1>3
<1>5. PICK k \in I : \A j \in I : k <= j
  BY <1>4, MinimoDeNaturales
<1>6. Min(I) \in I /\ \A j \in I : Min(I) <= j
  BY <1>5 DEF Min
<1>7. Limite(i) = Min(I)
  BY <1>3 DEF Limite
<1>8. PICK l : l = Limite(i)
  OBVIOUS
<1>9. l \in I /\ l \in Nat /\ l <= n + 1 /\ \A e \in Entradas(programa) : e > i => l <= e
  BY <1>3, <1>4, <1>6, <1>7, <1>8
<1>10. i < l
  BY <1>2, <1>3, <1>9
<1>11. l \in Entradas(programa) \/ l = n + 1
  BY <1>3, <1>9
<1>12. l - i - 1 \in 0..(n - i)
  BY <1>1, <1>2, <1>9, <1>10
<1> QED
  BY <1>1, <1>2, <1>8, <1>9, <1>10, <1>11, <1>12 DEF Resto

\* Two instructions of a routine have the same end.
LEMMA MismoLimite ==
  ASSUME programa \in Programas, NEW i \in DOMAIN programa.codigo,
         NEW j \in DOMAIN programa.codigo, \A e \in Entradas(programa) : e <= i <=> e <= j
  PROVE  Limite(i) = Limite(j)
<1>1. \A e \in Entradas(programa) : e \in Nat /\ i \in Nat /\ j \in Nat
  BY EntradasEnElTexto
<1>2. \A e \in Entradas(programa) : e > i <=> e > j
  BY <1>1
<1> QED
  BY <1>2 DEF Limite

LEMMA LimiteSiguiente ==
  ASSUME programa \in Programas, NEW i \in DOMAIN programa.codigo,
         programa.codigo[i].op \notin {"fin", "retornar"}
  PROVE  /\ i + 1 \in DOMAIN programa.codigo /\ i + 1 \notin Entradas(programa)
         /\ Limite(i + 1) = Limite(i) /\ Resto(i + 1) = Resto(i) - 1
<1>1. i + 1 \in DOMAIN programa.codigo /\ i + 1 \notin Entradas(programa)
  BY SiguienteEnElTexto
<1>2. PICK j \in DOMAIN programa.codigo : j = i + 1
  BY <1>1
<1>3. \A e \in Entradas(programa) : e <= i <=> e <= j
  <2>1. \A e \in Entradas(programa) : e \in Nat /\ i \in Nat /\ e # i + 1
    BY <1>1, EntradasEnElTexto
  <2> QED
    BY <1>2, <2>1
<1>4. Limite(i) = Limite(j)
  BY <1>3, MismoLimite
<1>5. Limite(i) \in Nat /\ i \in Nat
  BY LimiteEs
<1> QED
  BY <1>1, <1>2, <1>4, <1>5 DEF Resto

\* The places of the stack, and what each has left.
Tramos(s) == [k \in DOMAIN s |-> Resto(s[k])]

LEMMA TramosNaturales ==
  ASSUME programa \in Programas, NEW s \in Seq(DOMAIN programa.codigo)
  PROVE  /\ Faltan(s) = 1 + SumFunctionOnSet(Tramos(s), 1..Len(s))
         /\ DOMAIN s = 1..Len(s) /\ Len(s) \in Nat
         /\ \A k \in 1..Len(s) : Tramos(s)[k] = Resto(s[k]) /\ Tramos(s)[k] \in Nat
<1>1. DOMAIN s = 1..Len(s) /\ Len(s) \in Nat /\ \A k \in 1..Len(s) : s[k] \in DOMAIN programa.codigo
  OBVIOUS
<1>2. ASSUME NEW i \in DOMAIN programa.codigo PROVE Resto(i) \in Nat
  <2>1. PICK n \in Nat : n = Len(programa.codigo) /\ i \in Nat /\ Resto(i) \in 0..(n - i)
    BY LimiteEs
  <2> QED
    BY <2>1
<1> QED
  BY <1>1, <1>2 DEF Faltan, Tramos

\* A process that goes on has at least the instruction where it is.
LEMMA AlgoFalta ==
  ASSUME programa \in Programas, NEW s \in Seq(DOMAIN programa.codigo)
  PROVE  Faltan(s) \in Nat /\ Faltan(s) >= 1
<1> DEFINE f == Tramos(s)
           Sf(k) == SumFunctionOnSet(f, 1..k)
<1>1. PICK t \in Nat : t = Len(s)
  BY TramosNaturales
<1>2. \A k \in 1..t : f[k] \in Nat
  BY <1>1, TramosNaturales
<1> HIDE DEF f
<1>3. PICK B \in SUBSET (0..t) : B = {k \in 0..t : Sf(k) \in Nat}
  OBVIOUS
<1>4. 0 \in B
  BY <1>3, SumaVacia
<1>5. ASSUME NEW k \in 1..t, k - 1 \in B PROVE k \in B
  <2>1. k - 1 \in Nat /\ (k - 1) + 1 = k /\ k \in Nat
    OBVIOUS
  <2>2. \A i \in 1..((k - 1) + 1) : f[i] \in Int
    BY <1>2, <2>1
  <2>3. Sf((k - 1) + 1) = Sf(k - 1) + f[(k - 1) + 1]
    BY <2>1, <2>2, SumaUltimo
  <2>4. Sf(k) = Sf(k - 1) + f[k]
    BY <2>1, <2>3
  <2>5. Sf(k - 1) \in Nat /\ f[k] \in Nat
    BY <1>2, <1>3, <1>5
  <2>6. Sf(k) \in Nat
    BY <2>4, <2>5
  <2> QED
    BY <1>3, <2>6
<1>6. t \in B
  BY SMTT(30), <1>4, <1>5, HastaN
<1>7. Sf(t) \in Nat
  BY <1>3, <1>6
<1>8. Faltan(s) = 1 + Sf(t)
  BY <1>1, TramosNaturales DEF f
<1> QED
  BY <1>7, <1>8

\* The last frame has its part of what is left.
LEMMA FaltanConUltimo ==
  ASSUME programa \in Programas, NEW s \in Seq(DOMAIN programa.codigo), NEW t \in Nat,
         Len(s) = t + 1, NEW r \in Seq(DOMAIN programa.codigo), Len(r) = t,
         \A k \in 1..t : r[k] = s[k]
  PROVE  Faltan(s) = Faltan(r) + Resto(s[t + 1]) /\ Faltan(r) \in Nat
<1> DEFINE f == Tramos(r)
           g == Tramos(s)
<1>1. /\ Faltan(s) = 1 + SumFunctionOnSet(g, 1..(t + 1))
      /\ \A k \in 1..(t + 1) : g[k] = Resto(s[k]) /\ g[k] \in Int
  BY TramosNaturales
<1>2. /\ Faltan(r) = 1 + SumFunctionOnSet(f, 1..t)
      /\ \A k \in 1..t : f[k] = Resto(r[k]) /\ f[k] \in Int
  BY TramosNaturales
<1> HIDE DEF f, g
<1>3. \A k \in 1..t : k \in 1..(t + 1)
  OBVIOUS
<1>4. \A k \in 1..t : f[k] = g[k]
  BY <1>1, <1>2, <1>3
<1>5. t + 1 \in 1..(t + 1)
  OBVIOUS
<1>6. SumFunctionOnSet(g, 1..(t + 1)) = SumFunctionOnSet(f, 1..t) + g[t + 1]
  BY ZenonT(60), <1>1, <1>4, SumaConLugar
<1>7. SumFunctionOnSet(f, 1..t) \in Int /\ g[t + 1] \in Int /\ g[t + 1] = Resto(s[t + 1])
  <2>1. IsFiniteSet(1..t)
    BY FS_Interval
  <2> QED
    BY <1>1, <1>2, <1>5, <2>1, SumaEntera
<1>8. Faltan(r) \in Nat
  BY AlgoFalta
<1> QED
  BY <1>1, <1>2, <1>6, <1>7, <1>8

\* What is left fits in the count of the whole code.
LEMMA FaltaLoQueHay ==
  ASSUME programa \in Programas, NEW s \in Seq(DOMAIN programa.codigo), s # <<>>, EnAscenso(s)
  PROVE  Faltan(s) <= Len(programa.codigo)
<1> DEFINE f == Tramos(s)
           Sf(k) == SumFunctionOnSet(f, 1..k)
<1>1. PICK t \in Nat : t = Len(s) /\ t >= 1
  <2>1. Len(s) \in Nat /\ Len(s) # 0
    BY EmptySeq
  <2> QED
    BY <2>1
<1>2. \A k \in 1..t : f[k] = Resto(s[k]) /\ f[k] \in Nat
  BY <1>1, TramosNaturales
<1>3. Faltan(s) = 1 + Sf(t)
  BY <1>1, TramosNaturales
<1>4. PICK n \in Nat : n = Len(programa.codigo)
  BY TextoDelPrograma
<1>5. ASSUME NEW k \in 1..t
      PROVE  /\ s[k] \in Nat /\ s[k] >= 1 /\ Limite(s[k]) \in Nat /\ Limite(s[k]) <= n + 1
             /\ f[k] = Limite(s[k]) - s[k] - 1
  <2>1. s[k] \in DOMAIN programa.codigo /\ DOMAIN programa.codigo = 1..n
    BY <1>1, <1>4, TextoDelPrograma
  <2>2. Limite(s[k]) \in Nat /\ Limite(s[k]) <= n + 1
    BY <1>4, <2>1, LimiteEs
  <2>3. f[k] = Resto(s[k])
    BY <1>2
  <2> QED
    BY <2>1, <2>2, <2>3 DEF Resto
<1>6. \A k \in 1..(t - 1) : Limite(s[k]) <= s[k + 1]
  BY <1>1 DEF EnAscenso
<1> HIDE DEF f
<1>7. 1 \in 1..t /\ s[1] \in Nat /\ s[1] >= 1
  <2>1. 1 \in 1..t
    BY <1>1
  <2> QED
    BY <1>5, <2>1
<1>8. PICK B \in SUBSET (0..t) :
        B = {k \in 0..t : k > 0 => Sf(k) <= Limite(s[k]) - s[1] - k /\ Sf(k) \in Int}
  OBVIOUS
<1>9. 0 \in B
  BY <1>8
<1>10. ASSUME NEW k \in 1..t, k - 1 \in B PROVE k \in B
  <2>1. k - 1 \in Nat /\ (k - 1) + 1 = k /\ k \in Nat
    OBVIOUS
  <2>2. \A i \in 1..((k - 1) + 1) : f[i] \in Int
    BY <1>2, <2>1
  <2>3. Sf((k - 1) + 1) = Sf(k - 1) + f[(k - 1) + 1]
    BY <2>1, <2>2, SumaUltimo
  <2>4. Sf(k) = Sf(k - 1) + f[k]
    BY <2>1, <2>3
  <2>5. Sf(k) <= Limite(s[k]) - s[1] - k /\ Sf(k) \in Int
    <3>1. CASE k = 1
      <4>1. Sf(k - 1) = 0
        BY <3>1, SumaVacia
      <4>2. Sf(k) = f[1] /\ f[1] = Limite(s[1]) - s[1] - 1 /\ Limite(s[1]) \in Nat
        BY <1>2, <1>5, <1>7, <2>4, <3>1, <4>1
      <4> QED
        BY <1>7, <3>1, <4>2
    <3>2. CASE k # 1
      <4>1. k - 1 \in 1..t /\ k - 1 \in 1..(t - 1) /\ k - 1 > 0
        BY <3>2
      <4>2. Sf(k - 1) <= Limite(s[k - 1]) - s[1] - (k - 1) /\ Sf(k - 1) \in Int
        BY <1>8, <1>10, <4>1
      <4>3. Limite(s[k - 1]) <= s[k]
        BY <1>6, <2>1, <4>1
      <4>4. Limite(s[k - 1]) \in Nat
        BY <1>5, <4>1
      <4>5. s[k] \in Nat /\ Limite(s[k]) \in Nat /\ f[k] = Limite(s[k]) - s[k] - 1
        BY <1>5
      <4>6. PICK a \in Int, b \in Int, c \in Int, d \in Int, e \in Int :
              /\ a = Sf(k - 1) /\ b = Limite(s[k - 1]) /\ c = s[k] /\ d = Limite(s[k])
              /\ e = s[1]
        BY <1>7, <4>2, <4>4, <4>5
      <4>7. a <= b - e - (k - 1) /\ b <= c
        BY <4>2, <4>3, <4>6
      <4>8. Sf(k) = a + (d - c - 1)
        BY <2>4, <4>5, <4>6
      <4>9. a + (d - c - 1) <= d - e - k /\ a + (d - c - 1) \in Int
        BY <2>1, <4>7
      <4> QED
        BY <4>6, <4>8, <4>9
    <3> QED
      BY <3>1, <3>2
  <2> QED
    BY <1>8, <2>5
<1>11. t \in B
  BY <1>9, <1>10, HastaN
<1>12. Sf(t) <= Limite(s[t]) - s[1] - t /\ Sf(t) \in Int
  BY <1>1, <1>8, <1>11
<1>13. Limite(s[t]) \in Nat /\ Limite(s[t]) <= n + 1
  <2>1. t \in 1..t
    BY <1>1
  <2> QED
    BY <1>5, <2>1
<1> QED
  BY <1>1, <1>3, <1>4, <1>7, <1>12, <1>13

LEMMA Prefijo ==
  ASSUME NEW S, NEW s \in Seq(S), NEW x \in Nat, x <= Len(s)
  PROVE  /\ SubSeq(s, 1, x) \in Seq(S) /\ Len(SubSeq(s, 1, x)) = x
         /\ \A k \in 1..x : SubSeq(s, 1, x)[k] = s[k]
<1>1. Len(s) \in Nat /\ 1 \in 1..(Len(s) + 1) /\ x \in (1 - 1)..Len(s)
  OBVIOUS
<1>2. /\ SubSeq(s, 1, x) \in Seq(S) /\ Len(SubSeq(s, 1, x)) = x - 1 + 1
      /\ \A k \in 1..(x - 1 + 1) : SubSeq(s, 1, x)[k] = s[1 + k - 1]
  BY <1>1, SubSeqProperties
<1>3. x - 1 + 1 = x /\ \A k \in 1..x : 1 + k - 1 = k
  OBVIOUS
<1> QED
  BY <1>2, <1>3

\* The last frame moves inside its routine.
Movido(s, t, x, i, j) ==
  /\ s \in Seq(DOMAIN programa.codigo) /\ t \in Seq(DOMAIN programa.codigo)
  /\ x \in Nat /\ Len(s) = x + 1 /\ Len(t) = x + 1
  /\ \A k \in 1..x : t[k] = s[k]
  /\ i = s[x + 1] /\ j = t[x + 1]
  /\ \A e \in Entradas(programa) : e <= i <=> e <= j

LEMMA CuentaMueve ==
  ASSUME programa \in Programas, NEW s, NEW t, NEW x, NEW i, NEW j, Movido(s, t, x, i, j)
  PROVE  /\ EnAscenso(s) => EnAscenso(t)
         /\ Faltan(t) = Faltan(s) - Resto(i) + Resto(j)
<1> USE DEF Movido
<1>1. /\ DOMAIN s = 1..(x + 1) /\ DOMAIN t = 1..(x + 1) /\ x + 1 \in 1..(x + 1)
      /\ \A k \in 1..x : k \in 1..(x + 1)
  OBVIOUS
<1>2. i \in DOMAIN programa.codigo /\ j \in DOMAIN programa.codigo
  BY <1>1
<1>3. PICK n \in Nat : n = Len(programa.codigo) /\ DOMAIN programa.codigo = 1..n
  BY TextoDelPrograma
<1>4. Faltan(t) = Faltan(s) - Resto(i) + Resto(j)
  <2>1. PICK r : r = SubSeq(s, 1, x)
    OBVIOUS
  <2>2. r \in Seq(DOMAIN programa.codigo) /\ Len(r) = x /\ \A k \in 1..x : r[k] = s[k]
    <3>1. s \in Seq(DOMAIN programa.codigo) /\ x \in Nat /\ x <= Len(s)
      OBVIOUS
    <3> QED
      BY ONLY <2>1, <3>1, Prefijo
  <2>3. \A k \in 1..x : r[k] = t[k]
    BY <2>2
  <2>4. Faltan(s) = Faltan(r) + Resto(i) /\ Faltan(r) \in Nat
    BY <2>2, FaltanConUltimo
  <2>5. Faltan(t) = Faltan(r) + Resto(j)
    BY <2>2, <2>3, FaltanConUltimo
  <2>6. Resto(i) \in Int /\ Resto(j) \in Int
    <3>1. Resto(i) \in 0..(n - i) /\ Resto(j) \in 0..(n - j)
      BY <1>2, <1>3, LimiteEs
    <3> QED
      BY <3>1
  <2> QED
    BY <2>4, <2>5, <2>6
<1>5. ASSUME EnAscenso(s), NEW k \in 1..x PROVE Limite(t[k]) <= t[k + 1]
  <2>1. Limite(s[k]) <= s[k + 1] /\ t[k] = s[k]
    BY <1>5 DEF EnAscenso
  <2>2. CASE k # x
    <3>1. k + 1 \in 1..x
      BY <2>2
    <3> QED
      BY <2>1, <3>1
  <2>3. CASE k = x
    <3>1. PICK l : l = Limite(s[k])
      OBVIOUS
    <3>2. s[k] \in DOMAIN programa.codigo
      BY <1>1
    <3>3. l \in Nat /\ (l \in Entradas(programa) \/ l = n + 1)
      BY <1>3, <3>1, <3>2, LimiteEs
    <3>4. l <= i /\ i <= n /\ i \in Nat
      BY <1>2, <1>3, <2>1, <2>3, <3>1
    <3>5. l \in Entradas(programa)
      BY <3>3, <3>4
    <3>6. l <= j
      BY <3>4, <3>5
    <3> QED
      BY <2>1, <2>3, <3>1, <3>6
  <2> QED
    BY <2>2, <2>3
<1>6. Len(t) - 1 = x
  OBVIOUS
<1>7. EnAscenso(s) => EnAscenso(t)
  BY <1>5, <1>6 DEF EnAscenso
<1> QED
  BY <1>4, <1>7

\* To the next instruction.
Avanzado(s, t, x) ==
  /\ s \in Seq(DOMAIN programa.codigo) /\ t \in Seq(DOMAIN programa.codigo)
  /\ x \in Nat /\ Len(s) = x + 1 /\ Len(t) = x + 1
  /\ \A k \in 1..x : t[k] = s[k]
  /\ t[x + 1] = s[x + 1] + 1 /\ programa.codigo[s[x + 1]].op \notin {"fin", "retornar"}

LEMMA CuentaAvanza ==
  ASSUME programa \in Programas, NEW s, NEW t, NEW x, Avanzado(s, t, x)
  PROVE  /\ EnAscenso(s) => EnAscenso(t)
         /\ Faltan(t) = Faltan(s) - 1
<1> USE DEF Avanzado
<1>1. x + 1 \in 1..(x + 1)
  OBVIOUS
<1>2. PICK i \in DOMAIN programa.codigo : i = s[x + 1]
  BY <1>1
<1>3. /\ i + 1 \in DOMAIN programa.codigo /\ i + 1 \notin Entradas(programa)
      /\ Resto(i + 1) = Resto(i) - 1
  BY <1>2, LimiteSiguiente
<1>4. \A e \in Entradas(programa) : e <= i <=> e <= i + 1
  <2>1. \A e \in Entradas(programa) : e \in Nat /\ i \in Nat /\ e # i + 1
    BY <1>3, EntradasEnElTexto
  <2> QED
    BY <2>1
<1>5. PICK j : j = i + 1
  OBVIOUS
<1>6. Movido(s, t, x, i, j)
  BY <1>2, <1>4, <1>5 DEF Movido
<1>7. /\ EnAscenso(s) => EnAscenso(t)
      /\ Faltan(t) = Faltan(s) - Resto(i) + Resto(j)
  BY <1>6, CuentaMueve
<1>8. Resto(i) \in Int /\ Faltan(s) \in Int
  <2>1. PICK n \in Nat : n = Len(programa.codigo) /\ i \in Nat /\ Resto(i) \in 0..(n - i)
    BY LimiteEs
  <2>2. Faltan(s) \in Nat
    BY AlgoFalta
  <2> QED
    BY <2>1, <2>2
<1> QED
  BY <1>3, <1>5, <1>7, <1>8

\* By a jump.
LEMMA CuentaSalta ==
  ASSUME programa \in Programas, NEW s, NEW t, NEW x, NEW i, NEW j, Movido(s, t, x, i, j)
  PROVE  /\ EnAscenso(s) => EnAscenso(t)
         /\ Faltan(t) <= Faltan(s) + (Len(programa.codigo) - j)
<1>1. /\ EnAscenso(s) => EnAscenso(t)
      /\ Faltan(t) = Faltan(s) - Resto(i) + Resto(j)
  BY CuentaMueve
<1>2. i \in DOMAIN programa.codigo /\ j \in DOMAIN programa.codigo /\ Faltan(s) \in Nat
  <2>1. s \in Seq(DOMAIN programa.codigo) /\ t \in Seq(DOMAIN programa.codigo)
    BY DEF Movido
  <2>2. x + 1 \in DOMAIN s /\ x + 1 \in DOMAIN t /\ i = s[x + 1] /\ j = t[x + 1]
    BY DEF Movido
  <2> QED
    BY <2>1, <2>2, AlgoFalta
<1>3. PICK n \in Nat : n = Len(programa.codigo)
  BY TextoDelPrograma
<1>4. /\ i \in Nat /\ j \in Nat /\ i <= n /\ j <= n
      /\ Resto(i) \in 0..(n - i) /\ Resto(j) \in 0..(n - j)
  BY <1>2, <1>3, LimiteEs
<1>5. PICK a \in Nat, b \in 0..(n - i), c \in 0..(n - j) :
        a = Faltan(s) /\ b = Resto(i) /\ c = Resto(j)
  BY <1>2, <1>4
<1>6. Faltan(t) = a - b + c
  BY <1>1, <1>5
<1>7. a - b + c <= a + (n - j)
  BY <1>4, <1>5
<1> QED
  BY <1>1, <1>3, <1>5, <1>6, <1>7

\* By a call: to a routine that starts after it.
Llamado(s, t, x, i, e) ==
  /\ s \in Seq(DOMAIN programa.codigo) /\ t \in Seq(DOMAIN programa.codigo)
  /\ x \in Nat /\ x >= 1 /\ Len(s) = x /\ Len(t) = x + 1
  /\ \A k \in 1..x : t[k] = s[k]
  /\ i = s[x] /\ e = t[x + 1] /\ e \in Entradas(programa) /\ i < e

LEMMA CuentaLlama ==
  ASSUME programa \in Programas, NEW s, NEW t, NEW x, NEW i, NEW e, Llamado(s, t, x, i, e)
  PROVE  /\ EnAscenso(s) => EnAscenso(t)
         /\ Faltan(t) <= Faltan(s) + (Len(programa.codigo) - e)
<1> USE DEF Llamado
<1>1. x \in 1..x /\ x + 1 \in 1..(x + 1) /\ DOMAIN s = 1..x /\ DOMAIN t = 1..(x + 1)
  OBVIOUS
<1>2. i \in DOMAIN programa.codigo /\ e \in DOMAIN programa.codigo
  BY <1>1
<1>3. PICK n \in Nat : n = Len(programa.codigo)
  BY TextoDelPrograma
<1>4. Faltan(t) <= Faltan(s) + (n - e)
  <2>1. Faltan(t) = Faltan(s) + Resto(e) /\ Faltan(s) \in Nat
    <3>1. \A k \in 1..x : s[k] = t[k]
      OBVIOUS
    <3> QED
      BY <3>1, FaltanConUltimo
  <2>2. e \in Nat /\ e <= n /\ Resto(e) \in 0..(n - e)
    BY <1>2, <1>3, LimiteEs
  <2> QED
    BY <1>3, <2>1, <2>2
<1>5. ASSUME EnAscenso(s), NEW k \in 1..x PROVE Limite(t[k]) <= t[k + 1]
  <2>1. CASE k # x
    <3>1. k \in 1..(x - 1) /\ k + 1 \in 1..x
      BY <2>1
    <3>2. Limite(s[k]) <= s[k + 1]
      BY <1>5, <3>1 DEF EnAscenso
    <3> QED
      BY <3>1, <3>2
  <2>2. CASE k = x
    <3>1. \A f \in Entradas(programa) : f > i => Limite(i) <= f
      BY <1>2, LimiteEs
    <3>2. e > i
      <4>1. e \in Nat /\ i \in Nat
        BY <1>2, EntradasEnElTexto
      <4> QED
        BY <4>1
    <3> QED
      BY <2>2, <3>1, <3>2
  <2> QED
    BY <2>1, <2>2
<1>6. Len(t) - 1 = x
  OBVIOUS
<1> QED
  BY <1>3, <1>4, <1>5, <1>6 DEF EnAscenso

\* By a return: the caller goes on.
Devuelto(s, t, x) ==
  /\ s \in Seq(DOMAIN programa.codigo) /\ t \in Seq(DOMAIN programa.codigo)
  /\ x \in Nat /\ Len(s) = x + 2 /\ Len(t) = x + 1
  /\ \A k \in 1..x : t[k] = s[k]
  /\ t[x + 1] = s[x + 1] + 1 /\ programa.codigo[s[x + 1]].op = "llamar"

LEMMA CuentaVuelve ==
  ASSUME programa \in Programas, NEW s, NEW t, NEW x, Devuelto(s, t, x)
  PROVE  /\ EnAscenso(s) => EnAscenso(t)
         /\ Faltan(t) <= Faltan(s) - 1
<1> USE DEF Devuelto
<1>1. PICK r : r = SubSeq(s, 1, x + 1)
  OBVIOUS
<1>2. /\ r \in Seq(DOMAIN programa.codigo) /\ Len(r) = x + 1
      /\ \A k \in 1..(x + 1) : r[k] = s[k]
  <2>1. x + 1 \in Nat /\ x + 1 <= Len(s)
    OBVIOUS
  <2> QED
    BY <1>1, <2>1, Prefijo
<1>3. EnAscenso(s) => EnAscenso(r)
  <2>1. \A k \in 1..x : k \in 1..(x + 1) /\ k + 1 \in 1..(x + 1)
    OBVIOUS
  <2>2. Len(r) - 1 = x /\ Len(s) - 1 = x + 1
    BY <1>2
  <2> QED
    BY <1>2, <2>1, <2>2 DEF EnAscenso
<1>4. Faltan(s) = Faltan(r) + Resto(s[x + 2]) /\ Faltan(r) \in Nat
  <2>1. (x + 1) + 1 = x + 2 /\ x + 1 \in Nat
    OBVIOUS
  <2>2. Len(s) = (x + 1) + 1
    BY <2>1
  <2>3. Faltan(s) = Faltan(r) + Resto(s[(x + 1) + 1]) /\ Faltan(r) \in Nat
    BY <1>2, <2>1, <2>2, FaltanConUltimo
  <2> QED
    BY <2>1, <2>3
<1>5. Resto(s[x + 2]) \in Nat
  <2>1. PICK i \in DOMAIN programa.codigo : i = s[x + 2]
    <3>1. x + 2 \in DOMAIN s
      OBVIOUS
    <3> QED
      BY <3>1
  <2>2. PICK n \in Nat : n = Len(programa.codigo) /\ i \in Nat /\ Resto(i) \in 0..(n - i)
    BY LimiteEs
  <2> QED
    BY <2>1, <2>2
<1>6. Avanzado(r, t, x)
  <2>1. x + 1 \in 1..(x + 1) /\ \A k \in 1..x : k \in 1..(x + 1)
    OBVIOUS
  <2> QED
    BY <1>2, <2>1 DEF Avanzado
<1>7. /\ EnAscenso(r) => EnAscenso(t)
      /\ Faltan(t) = Faltan(r) - 1
  BY <1>6, CuentaAvanza
<1> QED
  BY <1>3, <1>4, <1>5, <1>7

\* The places of a stack with frames, and of one without.
LEMMA LugaresDe ==
  ASSUME programa \in Programas, NEW p \in PcbDelPrograma, PilaEnRutinas(p)
  PROVE  /\ Lugares(p) \in Seq(DOMAIN programa.codigo) /\ Lugares(p) # <<>>
         /\ p.indiceStack = <<>> => Lugares(p) = <<p.programCounter + 1>>
         /\ p.indiceStack # <<>> =>
              /\ Len(Lugares(p)) = Len(p.indiceStack) /\ Len(p.indiceStack) >= 1
              /\ \A k \in 1..Len(p.indiceStack) : Lugares(p)[k] = LugarDe(p, k)
<1>1. p.programCounter + 1 \in DOMAIN programa.codigo
  BY DEF PilaEnRutinas
<1>2. CASE p.indiceStack = <<>>
  <2>1. Lugares(p) = <<p.programCounter + 1>>
    BY <1>2 DEF Lugares
  <2>2. PICK y \in DOMAIN programa.codigo : y = p.programCounter + 1
    BY <1>1
  <2>3. <<y>> \in Seq(DOMAIN programa.codigo) /\ <<y>> # <<>>
    <3>1. PICK D : D = DOMAIN programa.codigo
      OBVIOUS
    <3>2. y \in D
      BY <3>1
    <3>3. <<y>> \in Seq(D) /\ <<y>> # <<>>
      BY ONLY <3>2
    <3> QED
      BY <3>1, <3>3
  <2> QED
    BY <1>2, <2>1, <2>2, <2>3
<1>3. CASE p.indiceStack # <<>>
  <2>1. PICK pila \in Seq(Nodo) : pila = p.indiceStack /\ pila # <<>>
    BY <1>3, PilaDelPcb
  <2>2. PICK t \in Nat : t = Len(pila) /\ t >= 1 /\ DOMAIN pila = 1..t
    <3>1. Len(pila) \in Nat /\ Len(pila) # 0 /\ DOMAIN pila = 1..Len(pila)
      BY <2>1, EmptySeq
    <3>2. Len(pila) >= 1
      BY ONLY <3>1
    <3> QED
      BY ONLY <3>1, <3>2
  <2>3. \A k \in 1..t : LugarDe(p, k) \in DOMAIN programa.codigo
    BY <2>1, <2>2 DEF PilaEnRutinas
  <2>4. PICK s : s = [k \in 1..t |-> LugarDe(p, k)]
    OBVIOUS
  <2>5. s \in Seq(DOMAIN programa.codigo) /\ Len(s) = t
    BY <2>3, <2>4
  <2>6. Lugares(p) = s
    BY <1>3, <2>1, <2>2, <2>4 DEF Lugares
  <2>7. s # <<>>
    <3>1. Len(<<>>) = 0
      OBVIOUS
    <3> QED
      BY <2>2, <2>5, <3>1
  <2> QED
    BY <1>3, <2>1, <2>2, <2>4, <2>5, <2>6, <2>7
<1> QED
  BY <1>2, <1>3

\* What an instruction that leaves q takes from the count, and what it adds to it.
Cuenta(p, a, q, b) ==
  ~LlamaHaciaAtras /\ EnAscenso(Lugares(p)) =>
    EnAscenso(Lugares(q)) /\ Faltan(Lugares(q)) + 1 + a <= Faltan(Lugares(p)) + b

\* The last frame moves, the others stay.
LugarCambiado(p, q, s, t, x) ==
  /\ s = Lugares(p) /\ t = Lugares(q) /\ x \in Nat
  /\ s \in Seq(DOMAIN programa.codigo) /\ t \in Seq(DOMAIN programa.codigo)
  /\ Len(s) = x + 1 /\ Len(t) = x + 1 /\ \A k \in 1..x : t[k] = s[k]
  /\ s[x + 1] = p.programCounter + 1 /\ t[x + 1] = q.programCounter + 1

LEMMA LugaresMueven ==
  ASSUME programa \in Programas, NEW p \in PcbDelPrograma, PilaEnRutinas(p),
         p.indiceStack # <<>>, NEW q \in PcbDelPrograma, PilaEnRutinas(q), NEW nombres, NEW n,
         Extiende(q.indiceStack, p.indiceStack, nombres, n)
  PROVE  \E s, t, x : LugarCambiado(p, q, s, t, x)
<1>1. PICK pila \in Seq(Nodo) : pila = p.indiceStack /\ pila # <<>>
  BY PilaDelPcb
<1>2. PICK u \in Seq(Nodo) : u = q.indiceStack
  BY PilaDelPcb
<1>3. PICK s \in Seq(DOMAIN programa.codigo) :
        /\ s = Lugares(p) /\ Len(s) = Len(pila) /\ Len(pila) >= 1
        /\ \A k \in 1..Len(pila) : s[k] = LugarDe(p, k)
  BY <1>1, LugaresDe
<1>4. PICK x \in Nat : x + 1 = Len(pila)
  <2>1. Len(pila) \in Nat /\ Len(pila) - 1 \in Nat /\ (Len(pila) - 1) + 1 = Len(pila)
    BY <1>3
  <2> QED
    BY <2>1
<1>5. /\ Len(u) = x + 1 /\ \A k \in 1..x : u[k] = pila[k]
      /\ u[x + 1].retPos = pila[x + 1].retPos
  <2>1. (x + 1) - 1 = x
    OBVIOUS
  <2> QED
    BY <1>1, <1>2, <1>4, <2>1 DEF Extiende
<1>6. u # <<>>
  <2>1. Len(<<>>) = 0
    OBVIOUS
  <2> QED
    BY <1>5, <2>1
<1>7. PICK t \in Seq(DOMAIN programa.codigo) :
        t = Lugares(q) /\ Len(t) = x + 1 /\ \A k \in 1..(x + 1) : t[k] = LugarDe(q, k)
  BY <1>2, <1>5, <1>6, LugaresDe
<1>8. ASSUME NEW k \in 1..x PROVE t[k] = s[k]
  <2>1. k \in 1..(x + 1) /\ k + 1 \in 1..(x + 1) /\ k # x + 1
    OBVIOUS
  <2>2. LugarDe(q, k) = u[k + 1].retPos + 1
    BY <1>2, <1>5, <2>1 DEF LugarDe
  <2>3. LugarDe(p, k) = pila[k + 1].retPos + 1
    BY <1>1, <1>4, <2>1 DEF LugarDe
  <2>4. u[k + 1].retPos = pila[k + 1].retPos
    <3>1. CASE k + 1 = x + 1
      BY <1>5, <3>1
    <3>2. CASE k + 1 # x + 1
      <4>1. k + 1 \in 1..x
        BY <3>2
      <4> QED
        BY <1>5, <4>1
    <3> QED
      BY <3>1, <3>2
  <2>5. t[k] = LugarDe(q, k) /\ s[k] = LugarDe(p, k)
    BY <1>3, <1>4, <1>7, <2>1
  <2> QED
    BY <2>2, <2>3, <2>4, <2>5
<1>9. s[x + 1] = p.programCounter + 1 /\ t[x + 1] = q.programCounter + 1
  <2>1. x + 1 \in 1..(x + 1)
    OBVIOUS
  <2>2. s[x + 1] = LugarDe(p, x + 1) /\ t[x + 1] = LugarDe(q, x + 1)
    BY <1>3, <1>4, <1>7, <2>1
  <2> QED
    BY <1>1, <1>2, <1>4, <1>5, <2>2 DEF LugarDe
<1>10. LugarCambiado(p, q, s, t, x)
  BY <1>3, <1>4, <1>7, <1>8, <1>9 DEF LugarCambiado
<1> QED
  BY <1>10

LEMMA CuentaSigue ==
  ASSUME programa \in Programas, NEW p \in PcbDelPrograma, PilaEnRutinas(p),
         p.indiceStack # <<>>, NEW q \in PcbDelPrograma, PilaEnRutinas(q), NEW nombres, NEW n,
         Extiende(q.indiceStack, p.indiceStack, nombres, n),
         programa.codigo[p.programCounter + 1].op \notin {"fin", "retornar"},
         q.programCounter = p.programCounter + 1, NEW a \in Nat
  PROVE  Cuenta(p, a, q, a)
<1>1. PICK s, t, x : LugarCambiado(p, q, s, t, x)
  BY LugaresMueven
<1>2. Avanzado(s, t, x)
  BY <1>1 DEF LugarCambiado, Avanzado
<1>3. /\ EnAscenso(s) => EnAscenso(t)
      /\ Faltan(t) = Faltan(s) - 1
  BY <1>2, CuentaAvanza
<1>4. s = Lugares(p) /\ t = Lugares(q) /\ Faltan(s) \in Nat
  <2>1. s = Lugares(p) /\ t = Lugares(q) /\ s \in Seq(DOMAIN programa.codigo)
    BY <1>1 DEF LugarCambiado
  <2> QED
    BY <2>1, AlgoFalta
<1>5. Faltan(t) + 1 + a <= Faltan(s) + a
  BY <1>3, <1>4
<1> QED
  BY <1>3, <1>4, <1>5 DEF Cuenta

-----------------------------------------------------------------------------
(* The instructions.                                                       *)

\* A process that goes on, at the instruction i.
EnCurso(m, i) ==
  /\ Marcha(m) /\ m.interrupcion = "ninguna" /\ PilaEnRutinas(m.pcb)
  /\ i = programa.codigo[m.pcb.programCounter + 1]

\* What an instruction, refused or not, leaves for the check that follows it.
Ejecutada(m, r, rechazo) ==
  /\ Marcha(r) /\ (rechazo => r.interrupcion # "ninguna")
  /\ r.interrupcion \in PorKernel /\ ~rechazo =>
       /\ r.interrupcion = "resEjecNegativo"
       /\ PuedeDiscordar(ConContador(r.pcb, r.pcb.programCounter + 1))
  /\ r.interrupcion \notin PorKernel /\ rechazo =>
       PuedeDiscordar(ConContador(r.pcb, r.pcb.programCounter + 1))
  /\ r.interrupcion \in {"ninguna", "semWait"} =>
       /\ PilaEnRutinas(ConContador(r.pcb, r.pcb.programCounter + 1))
       /\ Cuenta(m.pcb, m.aEjecutarDelPcb, ConContador(r.pcb, r.pcb.programCounter + 1),
                 r.aEjecutarDelPcb)

LEMMA ConNodoEnRutinas ==
  ASSUME programa \in Programas, NEW p \in PcbDelPrograma, PilaEnRutinas(p),
         NEW q \in PcbDelPrograma, q = ConPila(p, ConNodo(p.indiceStack))
  PROVE  PilaEnRutinas(q)
<1>1. CASE p.indiceStack # <<>>
  <2>1. q = p
    BY <1>1 DEF ConNodo, ConPila, PcbDelPrograma
  <2> QED
    BY <2>1
<1>2. CASE p.indiceStack = <<>>
  <2>1. q.indiceStack = <<NodoVacio>> /\ q.programCounter = p.programCounter
    BY <1>2 DEF ConNodo, ConPila, PcbDelPrograma
  <2>2. DOMAIN <<NodoVacio>> = {1} /\ Len(<<NodoVacio>>) = 1 /\ <<NodoVacio>>[1] = NodoVacio
    OBVIOUS
  <2>3. /\ p.programCounter + 1 = Principal(programa)
        /\ p.programCounter + 1 \in DOMAIN programa.codigo
    BY <1>2 DEF PilaEnRutinas, Principal
  <2>4. LugarDe(q, 1) = Principal(programa)
    BY <2>1, <2>2, <2>3 DEF LugarDe
  <2>5. EnSuLugar(NodoVacio, Principal(programa), 1)
    <3>1. Principal(programa) \in Entradas(programa) /\ Principal(programa) \in Nat
      BY EntradasEnElTexto
    <3>2. EsDeRutina(programa, Principal(programa), Principal(programa))
      BY <3>1 DEF EsDeRutina
    <3>3. Visibles(programa, Principal(programa), Principal(programa)) = {}
      BY <3>1 DEF Visibles
    <3> QED
      BY <3>1, <3>2, <3>3 DEF EnSuLugar
  <2>6. Len(NodoVacio.args) = 0
    BY NodoVacioTipado
  <2>7. <<NodoVacio>> # <<>>
    OBVIOUS
  <2>8. PICK s : s = <<NodoVacio>>
    OBVIOUS
  <2>9. /\ q.indiceStack = s /\ s # <<>> /\ DOMAIN s = {1} /\ Len(s) = 1
        /\ Len(s[1].args) = 0 /\ EnSuLugar(s[1], LugarDe(q, 1), 1)
    BY <2>1, <2>2, <2>4, <2>5, <2>6, <2>7, <2>8
  <2>10. LugarDe(q, 1) \in DOMAIN programa.codigo /\ q.programCounter + 1 \in DOMAIN programa.codigo
    BY <2>1, <2>3, <2>4
  <2>11. ASSUME NEW k \in DOMAIN s
         PROVE  /\ LugarDe(q, k) \in DOMAIN programa.codigo
                /\ k < Len(s) => programa.codigo[LugarDe(q, k)].op = "llamar"
                /\ Len(s[k].args) = IF k = 1 THEN 0 ELSE 1
                /\ EnSuLugar(s[k], LugarDe(q, k), k)
    <3>1. k = 1
      BY <2>9
    <3>2. ~(k < Len(s))
      BY <2>9, <3>1
    <3> QED
      BY <2>9, <2>10, <3>1, <3>2
  <2> QED
    BY <2>9, <2>10, <2>11, MarcosEnSuLugar
<1> QED
  BY <1>1, <1>2

\* The first node takes no place that the program has not.
LEMMA LugaresConNodo ==
  ASSUME NEW p \in PcbDelPrograma, NEW q, q = ConPila(p, ConNodo(p.indiceStack))
  PROVE  Lugares(q) = Lugares(p)
<1>1. CASE p.indiceStack # <<>>
  <2>1. q = p
    BY <1>1 DEF ConNodo, ConPila, PcbDelPrograma
  <2> QED
    BY <2>1
<1>2. CASE p.indiceStack = <<>>
  <2>1. q.indiceStack = <<NodoVacio>> /\ q.programCounter = p.programCounter
    BY <1>2 DEF ConNodo, ConPila, PcbDelPrograma
  <2>2. PICK u : u = <<NodoVacio>>
    OBVIOUS
  <2>3. DOMAIN u = 1..1 /\ Len(u) = 1 /\ u # <<>> /\ 1 \in 1..1
    BY <2>2
  <2>4. PICK x : x = p.programCounter + 1
    OBVIOUS
  <2>5. \A k \in 1..1 : LugarDe(q, k) = x
    BY <2>1, <2>2, <2>3, <2>4 DEF LugarDe
  <2>6. Lugares(q) = [k \in 1..1 |-> x]
    BY <2>1, <2>2, <2>3, <2>5 DEF Lugares
  <2>7. <<x>> = [k \in 1..1 |-> x]
    OBVIOUS
  <2>8. Lugares(p) = <<x>>
    BY <1>2, <2>4 DEF Lugares
  <2> QED
    BY <2>6, <2>7, <2>8
<1> QED
  BY <1>1, <1>2

LEMMA PilaNoVacia ==
  ASSUME programa \in Programas, NEW m, NEW i, EnCurso(m, i), i.op # "variables"
  PROVE  m.pcb.indiceStack # <<>>
<1>1. ASSUME m.pcb.indiceStack = <<>> PROVE FALSE
  <2>1. i = programa.codigo[Principal(programa)]
    BY <1>1 DEF EnCurso, PilaEnRutinas, Principal
  <2>2. programa.codigo[Principal(programa)].op = "variables"
    BY TextoDelPrograma DEF RutinasBienFormadas
  <2> QED
    BY <2>1, <2>2
<1> QED
  BY <1>1

LEMMA SigueIgual ==
  ASSUME programa \in Programas, NEW m, NEW i, EnCurso(m, i),
         i.op \notin {"variables", "fin", "retornar"}, NEW p, p = m.pcb, NEW a \in Nat
  PROVE  /\ PilaEnRutinas(ConContador(p, p.programCounter + 1))
         /\ Cuenta(p, a, ConContador(p, p.programCounter + 1), a)
<1>1. p \in PcbDelPrograma /\ PilaEnRutinas(p) /\ i = programa.codigo[p.programCounter + 1]
  BY DEF EnCurso, Marcha
<1>2. p.indiceStack # <<>>
  BY PilaNoVacia
<1>3. PICK q : q = ConContador(p, p.programCounter + 1)
  OBVIOUS
<1>4. /\ q \in PcbDelPrograma /\ q.indiceStack = p.indiceStack
      /\ q.programCounter = p.programCounter + 1
  <2>1. p.programCounter + 1 \in Int
    BY <1>1, PilaDelPcb
  <2> QED
    BY <1>1, <1>3, <2>1, PcbConContador
<1>5. Extiende(q.indiceStack, p.indiceStack, <<>>, 0)
  BY <1>4 DEF Extiende
<1>6. PilaEnRutinas(q)
  BY <1>1, <1>2, <1>4, <1>5, PilaSigue
<1>7. Cuenta(p, a, q, a)
  BY <1>1, <1>2, <1>4, <1>5, <1>6, CuentaSigue
<1> QED
  BY <1>3, <1>6, <1>7

LEMMA EstableEjecutada ==
  ASSUME programa \in Programas, NEW m, NEW i, EnCurso(m, i),
         i.op \notin {"variables", "fin", "retornar"}, NEW r, Estable(m, r)
  PROVE  Ejecutada(m, r, FALSE)
<1>1. /\ r.pcb = m.pcb /\ Marcha(r) /\ r.interrupcion \notin PorKernel
      /\ r.aEjecutarDelPcb = m.aEjecutarDelPcb
  BY DEF Estable, Interrumpida, EnCurso, PorKernel, Fatales
<1>2. /\ PilaEnRutinas(ConContador(r.pcb, r.pcb.programCounter + 1))
      /\ Cuenta(m.pcb, m.aEjecutarDelPcb, ConContador(r.pcb, r.pcb.programCounter + 1),
                r.aEjecutarDelPcb)
  <2>1. r.aEjecutarDelPcb \in Nat
    BY <1>1 DEF Marcha
  <2> QED
    BY <1>1, <2>1, SigueIgual
<1> QED
  BY <1>1, <1>2 DEF Ejecutada

\* An interruption for good, whatever the PCB.
LEMMA FatalEjecutada ==
  ASSUME NEW m, NEW r, Marcha(r), r.interrupcion \in Fatales
  PROVE  Ejecutada(m, r, FALSE)
BY DEF Ejecutada, Fatales, PorKernel

LEMMA VariablesEjecutada ==
  ASSUME programa \in Programas, NEW m, NEW i, EnCurso(m, i), i.op = "variables",
         NEW r, r = Variables(m, i)
  PROVE  Ejecutada(m, r, FALSE)
<1>1. Marcha(m) /\ m.pcb \in PcbDelPrograma /\ m.interrupcion = "ninguna" /\ EnOrden(m.pcb.indiceStack)
  BY DEF EnCurso, Marcha
<1>2. PICK x \in DOMAIN programa.codigo : x = m.pcb.programCounter + 1 /\ i = programa.codigo[x]
  BY DEF EnCurso, PilaEnRutinas
<1>3. i.nombres \in Seq(Nombres \ ToSet(Argumentos))
  BY <1>2, TextoDelPrograma DEF RutinasBienFormadas
<1>4. PICK n \in Nat : n = Len(i.nombres) /\ DOMAIN i.nombres = 1..n
  BY <1>3
<1>5. Avance(r, m, i.nombres, n)
  BY <1>1, <1>3, <1>4, VariablesDefinidas
<1>6. Marcha(r)
  BY <1>5 DEF Avance
<1>7. CASE r.interrupcion = "stackOverflow"
  BY <1>6, <1>7, FatalEjecutada DEF Fatales
<1>8. CASE r.interrupcion # "stackOverflow"
  <2>1. PICK p : p = ConPila(m.pcb, ConNodo(m.pcb.indiceStack))
    OBVIOUS
  <2>2. /\ p \in PcbDelPrograma /\ p.indiceStack = ConNodo(m.pcb.indiceStack)
        /\ p.programCounter = m.pcb.programCounter /\ p.indiceStack # <<>>
    <3>1. m.pcb.indiceStack \in Seq(Nodo)
      BY <1>1, PilaDelPcb
    <3>2. ConNodo(m.pcb.indiceStack) \in Seq(Nodo) /\ ConNodo(m.pcb.indiceStack) # <<>>
      BY <1>1, <3>1, ConNodoTipada
    <3> QED
      BY <1>1, <2>1, <3>2, PcbConPila
  <2>3. PilaEnRutinas(p)
    BY <1>1, <2>1, <2>2, ConNodoEnRutinas DEF EnCurso
  <2>4. r.interrupcion = "ninguna" /\ r.pcb = ConPila(m.pcb, r.pcb.indiceStack)
    BY <1>1, <1>5, <1>8 DEF Avance
  <2>5. /\ r.pcb \in PcbDelPrograma /\ r.pcb.programCounter = m.pcb.programCounter
    BY <1>1, <1>6, <2>4 DEF Marcha, ConPila, PcbDelPrograma
  <2>6. PICK q : q = ConContador(r.pcb, r.pcb.programCounter + 1)
    OBVIOUS
  <2>7. /\ q \in PcbDelPrograma /\ q.indiceStack = r.pcb.indiceStack
        /\ q.programCounter = p.programCounter + 1
    <3>1. r.pcb.programCounter + 1 \in Int
      BY <2>5, PilaDelPcb
    <3> QED
      BY <2>2, <2>5, <2>6, <3>1, PcbConContador
  <2>8. n > 0 \/ m.pcb.indiceStack # <<>>
    <3>1. ASSUME m.pcb.indiceStack = <<>> PROVE n > 0
      <4>1. x = Principal(programa)
        BY <1>2, <3>1 DEF EnCurso, PilaEnRutinas, Principal
      <4>2. i.nombres # <<>>
        BY <1>2, <4>1, TextoDelPrograma DEF RutinasBienFormadas
      <4>3. Len(i.nombres) # 0
        BY <1>3, <4>2, EmptySeq
      <4> QED
        BY <1>4, <4>3
    <3> QED
      BY <3>1
  <2>9. Extiende(q.indiceStack, p.indiceStack, i.nombres, n)
    BY <1>1, <1>5, <1>8, <2>2, <2>7, <2>8 DEF Avance
  <2>10. PilaEnRutinas(q)
    BY <1>2, <1>4, <2>2, <2>3, <2>7, <2>9, PilaSigue
  <2>11. PICK a \in Nat : a = m.aEjecutarDelPcb /\ a = r.aEjecutarDelPcb
    BY <1>1, <1>5 DEF Avance, Marcha
  <2>12. Cuenta(p, a, q, a)
    <3>1. programa.codigo[p.programCounter + 1].op \notin {"fin", "retornar"}
      BY <1>2, <2>2
    <3> QED
      BY <2>2, <2>3, <2>7, <2>9, <2>10, <3>1, CuentaSigue
  <2>13. Cuenta(m.pcb, a, q, a)
    <3>1. Lugares(p) = Lugares(m.pcb)
      BY <1>1, <2>1, LugaresConNodo
    <3> QED
      BY <2>12, <3>1 DEF Cuenta
  <2> QED
    BY <1>6, <2>4, <2>6, <2>10, <2>11, <2>13 DEF Ejecutada, PorKernel
<1> QED
  BY <1>7, <1>8

LEMMA AsignacionEjecutada ==
  ASSUME programa \in Programas, NEW m, NEW i, EnCurso(m, i), i.op = "asignar",
         NEW r, r = Asignacion(m, i)
  PROVE  Ejecutada(m, r, FALSE)
<1>1. Marcha(m) /\ m.pcb.indiceStack # <<>>
  BY PilaNoVacia DEF EnCurso
<1>2. PICK v : v = Operar(m, i.operando)
  OBVIOUS
<1>3. Estable(m, v)
  BY <1>1, <1>2, Operada
<1>4. Marcha(v) /\ v.pcb.indiceStack # <<>>
  BY <1>1, <1>3 DEF Estable
<1>5. Estable(v, Escribir(v, i.destino, v.valor))
  BY <1>4, Escrita
<1>6. Estable(m, r)
  BY <1>2, <1>3, <1>5, EstableSeguida DEF Asignacion
<1> QED
  BY <1>6, EstableEjecutada

LEMMA EsperaEjecutada ==
  ASSUME programa \in Programas, NEW m, NEW i, EnCurso(m, i), i.op = "wait",
         NEW rechazo \in BOOLEAN, NEW r, r = Espera(m, rechazo)
  PROVE  Ejecutada(m, r, rechazo)
<1>1. Marcha(m)
  BY DEF EnCurso
<1>2. CASE rechazo = TRUE
  <2>1. r = Interrumpir(m, "semWait") /\ "semWait" \in Interrupciones
    BY <1>2 DEF Espera, Interrupciones
  <2>2. /\ Marcha(r) /\ r.pcb = m.pcb /\ r.interrupcion = "semWait"
        /\ r.aEjecutarDelPcb = m.aEjecutarDelPcb
    BY <1>1, <2>1, MarchaInterrumpida
  <2>3. /\ PilaEnRutinas(ConContador(r.pcb, r.pcb.programCounter + 1))
        /\ Cuenta(m.pcb, m.aEjecutarDelPcb, ConContador(r.pcb, r.pcb.programCounter + 1),
                  r.aEjecutarDelPcb)
    <3>1. r.aEjecutarDelPcb \in Nat
      BY <2>2 DEF Marcha
    <3> QED
      BY <2>2, <3>1, SigueIgual
  <2> QED
    BY <1>2, <2>2, <2>3 DEF Ejecutada, PorKernel
<1>3. CASE rechazo = FALSE
  <2>1. Estable(m, r)
    BY <1>1, <1>3, EstableSiempre DEF Espera
  <2>2. Ejecutada(m, r, FALSE)
    BY <2>1, EstableEjecutada
  <2> QED
    BY <1>3, <2>2
<1> QED
  BY <1>2, <1>3

\* What the Kernel refuses ends the process.
LEMMA RechazoPedido ==
  ASSUME NEW m, Marcha(m), NEW r, r = Pedido(m, TRUE)
  PROVE  /\ Marcha(r) /\ r.pcb = m.pcb /\ r.interrupcion = "resEjecNegativo"
         /\ r.aEjecutarDelPcb = m.aEjecutarDelPcb
<1>1. r = Interrumpir(m, "resEjecNegativo") /\ "resEjecNegativo" \in Interrupciones
  BY DEF Pedido, Interrupciones
<1>2. /\ Marcha(Interrumpir(m, "resEjecNegativo"))
      /\ Interrumpir(m, "resEjecNegativo").pcb = m.pcb
      /\ Interrumpir(m, "resEjecNegativo").interrupcion = "resEjecNegativo"
      /\ Interrumpir(m, "resEjecNegativo").aEjecutarDelPcb = m.aEjecutarDelPcb
  BY <1>1, MarchaInterrumpida
<1> QED
  BY <1>1, <1>2

LEMMA PedidoEjecutado ==
  ASSUME programa \in Programas, NEW m, NEW i, EnCurso(m, i), i.op = "pedir",
         NEW rechazo \in BOOLEAN, NEW r, r = Pedido(m, rechazo)
  PROVE  Ejecutada(m, r, rechazo)
<1>1. Marcha(m)
  BY DEF EnCurso
<1>2. CASE rechazo = TRUE
  <2>1. Marcha(r) /\ r.interrupcion = "resEjecNegativo"
    BY <1>1, <1>2, RechazoPedido
  <2> QED
    BY <1>2, <2>1 DEF Ejecutada, PorKernel
<1>3. CASE rechazo = FALSE
  <2>1. Estable(m, r)
    BY <1>1, <1>3, EstableSiempre DEF Pedido
  <2>2. Ejecutada(m, r, FALSE)
    BY <2>1, EstableEjecutada
  <2> QED
    BY <1>3, <2>2
<1> QED
  BY <1>2, <1>3

LEMMA PrimerArgumento == Argumentos[1] \in ToSet(Argumentos) /\ 1 \in DOMAIN Argumentos
<1>1. Argumentos \in Seq(ToSet(Argumentos)) /\ Argumentos # <<>>
  BY CPUAssumption
<1>2. 1 \in DOMAIN Argumentos
  BY <1>1, EmptySeq
<1> QED
  BY <1>2 DEF ToSet

\* What the CPU reads and what the Kernel decided may differ, and the assignment may fail.
LEMMA AlocarEjecutado ==
  ASSUME programa \in Programas, NEW m, NEW i, EnCurso(m, i), i.op \in ConRespuesta,
         NEW rechazo \in BOOLEAN, NEW negativa \in Negativa(i.op, rechazo),
         NEW x, NEW r, r = Alocar(m, i, negativa, x)
  PROVE  Ejecutada(m, r, rechazo)
<1>1. Marcha(m) /\ m.pcb.indiceStack # <<>> /\ m.interrupcion = "ninguna"
  BY PilaNoVacia DEF EnCurso, ConRespuesta
<1>2. /\ negativa \in BOOLEAN /\ (rechazo => negativa)
      /\ negativa # rechazo => i.op = "alocar"
  BY DEF Negativa
<1>3. PICK s : s = Pedido(m, negativa)
  OBVIOUS
<1>4. /\ Marcha(s) /\ s.pcb = m.pcb /\ s.aEjecutarDelPcb = m.aEjecutarDelPcb
      /\ s.interrupcion = IF negativa THEN "resEjecNegativo" ELSE "ninguna"
  <2>1. CASE negativa = TRUE
    BY <1>1, <1>3, <2>1, RechazoPedido
  <2>2. CASE negativa = FALSE
    BY <1>1, <1>3, <2>2 DEF Pedido
  <2> QED
    BY <1>2, <2>1, <2>2
<1>5. PICK y : y = (IF negativa THEN 0 ELSE x)
  OBVIOUS
<1>6. /\ Estable(s, Escribir(s, i.destino, y))
      /\ DOMAIN Direcciones(s.pcb, i.destino) # {} =>
           Escribir(s, i.destino, y).interrupcion = s.interrupcion
  BY <1>1, <1>4, Escrita
<1>7. r = Escribir(s, i.destino, y)
  BY <1>3, <1>5 DEF Alocar
<1>8. /\ Marcha(r) /\ r.pcb = m.pcb /\ r.aEjecutarDelPcb = m.aEjecutarDelPcb
      /\ r.interrupcion = s.interrupcion \/ r.interrupcion \in Fatales
      /\ DOMAIN Direcciones(m.pcb, i.destino) # {} => r.interrupcion = s.interrupcion
  BY <1>4, <1>6, <1>7 DEF Estable, Interrumpida
<1>9. PICK q : q = ConContador(r.pcb, r.pcb.programCounter + 1)
  OBVIOUS
<1>10. /\ q.indiceStack = m.pcb.indiceStack /\ i = programa.codigo[q.programCounter]
  <2>1. m.pcb \in PcbDelPrograma /\ m.pcb.programCounter + 1 \in Int
    BY <1>1, PilaDelPcb DEF Marcha
  <2>2. q.indiceStack = m.pcb.indiceStack /\ q.programCounter = m.pcb.programCounter + 1
    BY <1>8, <1>9, <2>1, PcbConContador
  <2> QED
    BY <2>2 DEF EnCurso
<1>11. SinDestino(q) <=> DOMAIN Direcciones(m.pcb, i.destino) = {}
  BY <1>10 DEF SinDestino, Direcciones
<1>12. (r.interrupcion \in PorKernel) # rechazo => PuedeDiscordar(q)
  <2>1. i.op = "alocar" \/ i.op = "abrir"
    BY DEF ConRespuesta
  <2>2. CASE i.op = "alocar"
    BY <1>10, <2>2 DEF PuedeDiscordar
  <2>3. CASE i.op = "abrir" /\ SinDestino(q)
    BY <1>10, <2>3 DEF PuedeDiscordar
  <2>4. CASE i.op = "abrir" /\ ~SinDestino(q)
    <3>1. negativa = rechazo /\ r.interrupcion = s.interrupcion
      BY <1>2, <1>8, <1>11, <2>4
    <3> QED
      BY <1>4, <3>1 DEF PorKernel
  <2> QED
    BY <2>1, <2>2, <2>3, <2>4
<1>15. r.interrupcion \in PorKernel => r.interrupcion = "resEjecNegativo"
  BY <1>4, <1>8 DEF PorKernel, Fatales
<1>13. rechazo => r.interrupcion # "ninguna"
  BY <1>2, <1>4, <1>8 DEF Fatales
<1>14. r.interrupcion \in {"ninguna", "semWait"} =>
         PilaEnRutinas(q) /\ Cuenta(m.pcb, m.aEjecutarDelPcb, q, r.aEjecutarDelPcb)
  <2>1. r.aEjecutarDelPcb \in Nat
    BY <1>8 DEF Marcha
  <2>2. i.op \notin {"variables", "fin", "retornar"}
    BY DEF ConRespuesta
  <2> QED
    BY <1>8, <1>9, <2>1, <2>2, SigueIgual
<1> QED
  BY <1>8, <1>9, <1>12, <1>13, <1>14, <1>15 DEF Ejecutada

ConPcb(m, p) == [m EXCEPT !.pcb = p]

LEMMA MarchaConPcb ==
  ASSUME NEW m, Marcha(m), NEW p \in PcbDelPrograma, EnOrden(p.indiceStack)
  PROVE  /\ Marcha(ConPcb(m, p)) /\ ConPcb(m, p).pcb = p
         /\ ConPcb(m, p).interrupcion = m.interrupcion
         /\ ConPcb(m, p).puntero = m.puntero
         /\ ConPcb(m, p).aEjecutarDelPcb = m.aEjecutarDelPcb
<1>1. ConPcb(m, p) = [pcb |-> p, memoria |-> m.memoria, aEjecutarDelPcb |-> m.aEjecutarDelPcb,
                      interrupcion |-> m.interrupcion, puntero |-> m.puntero, valor |-> m.valor]
  BY DEF Marcha, ConPcb
<1>2. Marcha(ConPcb(m, p))
  BY <1>1 DEF Marcha
<1> QED
  BY <1>1, <1>2

\* A jump: to its label, or nowhere.
LEMMA Saltado ==
  ASSUME programa \in Programas, NEW m, Marcha(m), NEW etiqueta, NEW r, r = Saltar(m, etiqueta)
  PROVE  /\ Marcha(r) /\ r.pcb.indiceStack = m.pcb.indiceStack
         /\ \/ r.interrupcion = "direccionInvalida"
            \/ /\ etiqueta \in DOMAIN programa.etiquetas /\ r.interrupcion = m.interrupcion
               /\ r.pcb = ConContador(m.pcb, programa.etiquetas[etiqueta] - 1)
               /\ r.aEjecutarDelPcb = m.aEjecutarDelPcb
                    + (Len(programa.codigo) - (programa.etiquetas[etiqueta] - 1))
<1>1. /\ m.pcb \in PcbDelPrograma /\ m.pcb.indiceEtiquetas = programa.etiquetas
      /\ cantidadInstrucciones(m.pcb) = Len(programa.codigo)
  <2>1. m.pcb \in PcbDelPrograma
    BY DEF Marcha
  <2>2. m.pcb.indiceEtiquetas = programa.etiquetas /\ m.pcb.indiceCodigo = programa.indice
    BY <2>1, PilaDelPcb
  <2> QED
    BY <2>1, <2>2, TextoDelPrograma DEF cantidadInstrucciones
<1>2. CASE etiqueta \notin DOMAIN programa.etiquetas
  <2>1. r = Interrumpir(m, "direccionInvalida") /\ "direccionInvalida" \in Interrupciones
    BY <1>1, <1>2 DEF Saltar, Interrupciones
  <2>2. /\ Marcha(Interrumpir(m, "direccionInvalida"))
        /\ Interrumpir(m, "direccionInvalida").pcb = m.pcb
        /\ Interrumpir(m, "direccionInvalida").interrupcion = "direccionInvalida"
    BY <2>1, MarchaInterrumpida
  <2> QED
    BY <2>1, <2>2
<1>3. CASE etiqueta \in DOMAIN programa.etiquetas
  <2>1. PICK n \in Nat : n = Len(programa.codigo)
    BY TextoDelPrograma
  <2>2. PICK e \in 0..(n - 1) : e = programa.etiquetas[etiqueta]
    BY <1>3, <2>1, TextoDelPrograma
  <2>3. PICK q : q = ConContador(m.pcb, e - 1)
    OBVIOUS
  <2>4. q \in PcbDelPrograma /\ q.indiceStack = m.pcb.indiceStack
    <3>1. e - 1 \in Int
      OBVIOUS
    <3> QED
      BY <1>1, <2>3, <3>1, PcbConContador
  <2>5. PICK s : s = ConPcb(m, q)
    OBVIOUS
  <2>6. Marcha(s) /\ s.pcb = q /\ s.interrupcion = m.interrupcion /\ s.aEjecutarDelPcb = m.aEjecutarDelPcb
    <3>1. EnOrden(q.indiceStack)
      BY <2>4 DEF Marcha
    <3>2. ConPcb(m, q).aEjecutarDelPcb = m.aEjecutarDelPcb
      BY DEF ConPcb, Marcha
    <3> QED
      BY <2>4, <2>5, <3>1, <3>2, MarchaConPcb
  <2>7. PICK c \in Nat : c = m.aEjecutarDelPcb + (n - (e - 1))
    <3>1. m.aEjecutarDelPcb \in Nat
      BY DEF Marcha
    <3>2. m.aEjecutarDelPcb + (n - (e - 1)) \in Nat
      BY <3>1
    <3> QED
      BY <3>2
  <2>8. r = [s EXCEPT !.aEjecutarDelPcb = c]
    BY <1>1, <1>3, <2>1, <2>2, <2>3, <2>5, <2>7 DEF Saltar, ConPcb, ConContador
  <2>9. r = [pcb |-> q, memoria |-> s.memoria, aEjecutarDelPcb |-> c,
             interrupcion |-> s.interrupcion, puntero |-> s.puntero, valor |-> s.valor]
    BY <2>6, <2>8 DEF Marcha
  <2>10. Marcha(r)
    BY <2>6, <2>9 DEF Marcha
  <2> QED
    BY <1>3, <2>1, <2>2, <2>3, <2>4, <2>6, <2>7, <2>9, <2>10
<1> QED
  BY <1>2, <1>3

LEMMA SaltoEjecutado ==
  ASSUME programa \in Programas, NEW m, NEW i, EnCurso(m, i), i.op = "saltar",
         NEW r, r = SaltoSiCero(m, i)
  PROVE  Ejecutada(m, r, FALSE)
<1>1. /\ Marcha(m) /\ m.pcb.indiceStack # <<>> /\ m.interrupcion = "ninguna"
      /\ m.pcb \in PcbDelPrograma /\ PilaEnRutinas(m.pcb)
  BY PilaNoVacia DEF EnCurso, Marcha
<1>2. PICK v : v = Operar(m, i.operando)
  OBVIOUS
<1>3. Estable(m, v)
  BY <1>1, <1>2, Operada
<1>4. CASE v.valor # 0
  <2>1. r = v
    BY <1>2, <1>4 DEF SaltoSiCero
  <2> QED
    BY <1>3, <2>1, EstableEjecutada
<1>5. CASE v.valor = 0
  <2>1. r = Saltar(v, i.etiqueta)
    BY <1>2, <1>5 DEF SaltoSiCero, irAlLabel
  <2>2. /\ Marcha(r)
        /\ \/ r.interrupcion = "direccionInvalida"
           \/ /\ i.etiqueta \in DOMAIN programa.etiquetas /\ r.interrupcion = v.interrupcion
              /\ r.pcb = ConContador(v.pcb, programa.etiquetas[i.etiqueta] - 1)
              /\ r.aEjecutarDelPcb = m.aEjecutarDelPcb
                   + (Len(programa.codigo) - (programa.etiquetas[i.etiqueta] - 1))
    BY <1>3, <2>1, Saltado DEF Estable
  <2>3. CASE r.interrupcion \in Fatales
    BY <2>2, <2>3, FatalEjecutada
  <2>4. CASE r.interrupcion \notin Fatales
    <3>1. /\ i.etiqueta \in DOMAIN programa.etiquetas /\ r.interrupcion = "ninguna"
          /\ r.pcb = ConContador(m.pcb, programa.etiquetas[i.etiqueta] - 1)
      BY <1>1, <1>3, <2>2, <2>4 DEF Estable, Interrumpida, Fatales
    <3>2. PICK x \in DOMAIN programa.codigo : x = m.pcb.programCounter + 1 /\ i = programa.codigo[x]
      BY DEF EnCurso, PilaEnRutinas
    <3>3. PICK d \in Nat : d = programa.etiquetas[i.etiqueta]
      BY <3>1, TextoDelPrograma
    <3>4. PICK t \in Nat : t = Len(m.pcb.indiceStack) /\ t \in DOMAIN m.pcb.indiceStack
      <4>1. PICK s \in Seq(Nodo) : s = m.pcb.indiceStack /\ s # <<>>
        BY <1>1, PilaDelPcb
      <4>2. Len(s) \in Nat /\ Len(s) # 0 /\ DOMAIN s = 1..Len(s)
        BY <4>1, EmptySeq
      <4>3. Len(s) \in 1..Len(s)
        BY ONLY <4>2
      <4> QED
        BY <4>1, <4>2, <4>3
    <3>5. EnSuLugar(m.pcb.indiceStack[t], x, t)
      <4>1. LugarDe(m.pcb, t) = x
        BY <3>2, <3>4 DEF LugarDe
      <4> QED
        BY <1>1, <3>4, <4>1, MarcosEnSuLugar
    <3>6. PICK j : j = d + 1
      OBVIOUS
    <3>7. j \in DOMAIN programa.codigo /\ EnSuLugar(m.pcb.indiceStack[t], j, t)
      <4>1. Etiquetada(programa, x)
        BY <3>1, <3>2 DEF Etiquetada
      <4> QED
        BY <3>2, <3>3, <3>5, <3>6, <4>1, SaltoEnSuLugar
    <3>8. PICK q : q = ConContador(r.pcb, r.pcb.programCounter + 1)
      OBVIOUS
    <3>9. /\ q \in PcbDelPrograma /\ q.indiceStack = m.pcb.indiceStack
          /\ q.programCounter + 1 = j
      <4>1. r.pcb \in PcbDelPrograma /\ r.pcb.indiceStack = m.pcb.indiceStack
            /\ r.pcb.programCounter = d - 1
        <5>1. d - 1 \in Int
          OBVIOUS
        <5> QED
          BY <1>1, <3>1, <3>3, <5>1, PcbConContador
      <4>2. r.pcb.programCounter + 1 \in Int /\ r.pcb.programCounter + 1 = d
        BY <4>1
      <4> QED
        BY <3>6, <3>8, <4>1, <4>2, PcbConContador
    <3>10. Extiende(q.indiceStack, m.pcb.indiceStack, <<>>, 0)
      BY <3>9 DEF Extiende
    <3>11. PilaEnRutinas(q)
      <4>1. EnSuLugar(q.indiceStack[Len(m.pcb.indiceStack)], j, Len(m.pcb.indiceStack))
        BY <3>4, <3>7, <3>9
      <4> QED
        BY <1>1, <3>7, <3>9, <3>10, <4>1, PilaMueve
    <3>12. PICK a \in Nat, b \in Nat : a = m.aEjecutarDelPcb /\ b = r.aEjecutarDelPcb
      BY <1>1, <2>2 DEF Marcha
    <3>13. PICK n \in Nat : n = Len(programa.codigo)
      BY TextoDelPrograma
    <3>14. b = a + (n - (d - 1))
      BY <2>2, <2>4, <3>3, <3>12, <3>13 DEF Fatales
    <3>15. Cuenta(m.pcb, a, q, b)
      <4>1. PICK s, u, w : LugarCambiado(m.pcb, q, s, u, w)
        BY <1>1, <3>9, <3>10, <3>11, LugaresMueven
      <4>2. \A e \in Entradas(programa) : e <= x <=> e <= j
        <5>1. Etiquetada(programa, x)
          BY <3>1, <3>2 DEF Etiquetada
        <5>2. \A e \in Entradas(programa) :
                e <= x <=> e <= programa.etiquetas[programa.codigo[x].etiqueta] + 1
          BY <3>2, <5>1, TextoDelPrograma DEF RutinasBienFormadas
        <5> QED
          BY <3>2, <3>3, <3>6, <5>2
      <4>3. Movido(s, u, w, x, j)
        BY <3>2, <3>9, <4>1, <4>2 DEF LugarCambiado, Movido
      <4>4. /\ EnAscenso(s) => EnAscenso(u)
            /\ Faltan(u) <= Faltan(s) + (n - j)
        BY <3>13, <4>3, CuentaSalta
      <4>5. s = Lugares(m.pcb) /\ u = Lugares(q) /\ Faltan(s) \in Nat /\ Faltan(u) \in Nat
        <5>1. /\ s = Lugares(m.pcb) /\ u = Lugares(q)
              /\ s \in Seq(DOMAIN programa.codigo) /\ u \in Seq(DOMAIN programa.codigo)
          BY <4>1 DEF LugarCambiado
        <5> QED
          BY <5>1, AlgoFalta
      <4>6. Faltan(u) + 1 + a <= Faltan(s) + b
        BY <3>6, <3>14, <4>4, <4>5
      <4> QED
        BY <4>4, <4>5, <4>6 DEF Cuenta
    <3> QED
      BY <2>2, <3>1, <3>8, <3>11, <3>12, <3>15 DEF Ejecutada, PorKernel
  <2> QED
    BY <2>3, <2>4
<1> QED
  BY <1>4, <1>5

\* A frame without values takes no place.
LEMMA ApilarEnOrden ==
  ASSUME NEW pila \in Seq(Nodo), EnOrden(pila), NEW nuevo \in Nodo,
         nuevo.args = <<>>, nuevo.vars = <<>>, NEW s, s = Append(pila, nuevo)
  PROVE  s \in Seq(Nodo) /\ EnOrden(s)
<1>1. PICK t \in Nat : t = Len(pila) /\ DOMAIN pila = 1..t
  OBVIOUS
<1>2. /\ s \in Seq(Nodo) /\ DOMAIN s = 1..(t + 1) /\ s[t + 1] = nuevo
      /\ \A n \in 1..t : s[n] = pila[n]
  BY <1>1
<1>3. DOMAIN DireccionesDe(nuevo) = {}
  <2>1. Len(nuevo.args) = 0 /\ Len(nuevo.vars) = 0
    OBVIOUS
  <2>2. DOMAIN DireccionesDe(nuevo) = 1..(Len(nuevo.args) + Len(nuevo.vars))
    BY DireccionesDelNodo
  <2> QED
    BY <2>1, <2>2
<1>4. ASSUME NEW n \in DOMAIN s, NEW i \in DOMAIN DireccionesDe(s[n])
      PROVE  n \in DOMAIN pila /\ s[n] = pila[n]
  <2>1. n # t + 1
    BY <1>2, <1>3, <1>4
  <2>2. n \in 1..(t + 1) /\ t \in Nat
    BY <1>2
  <2>3. n \in 1..t
    BY ONLY <2>1, <2>2
  <2> QED
    BY <1>1, <1>2, <2>3
<1>5. EnOrden(s)
  <2> SUFFICES ASSUME NEW n \in DOMAIN s, NEW i \in DOMAIN DireccionesDe(s[n])
               PROVE  /\ DireccionesDe(s[n])[i].offset + 4 <= TamPagina
                      /\ DireccionesDe(s[n])[i].pagina \in PaginasDeCodigo..(PaginasTotales - 1)
                      /\ \A m \in DOMAIN s : \A j \in DOMAIN DireccionesDe(s[m]) :
                           n < m \/ (n = m /\ i < j) =>
                             PunteroDe(DireccionesDe(s[n])[i]) + 4
                               <= PunteroDe(DireccionesDe(s[m])[j])
    BY DEF EnOrden
  <2>1. n \in DOMAIN pila /\ s[n] = pila[n] /\ i \in DOMAIN DireccionesDe(pila[n])
    BY <1>4
  <2>2. ASSUME NEW m \in DOMAIN s, NEW j \in DOMAIN DireccionesDe(s[m]),
               n < m \/ (n = m /\ i < j)
        PROVE  PunteroDe(DireccionesDe(s[n])[i]) + 4 <= PunteroDe(DireccionesDe(s[m])[j])
    <3>1. m \in DOMAIN pila /\ s[m] = pila[m] /\ j \in DOMAIN DireccionesDe(pila[m])
      BY <1>4
    <3> QED
      BY <2>1, <2>2, <3>1 DEF EnOrden
  <2> QED
    BY <2>1, <2>2 DEF EnOrden
<1> QED
  BY <1>2, <1>5

LEMMA QuitarEnOrden ==
  ASSUME NEW pila \in Seq(Nodo), pila # <<>>, EnOrden(pila), NEW s, s = Front(pila),
         NEW t \in Nat, t = Len(pila)
  PROVE  /\ s \in Seq(Nodo) /\ EnOrden(s) /\ Len(s) = t - 1 /\ DOMAIN s = 1..(t - 1)
         /\ \A n \in 1..(t - 1) : s[n] = pila[n]
<1>1. t > 0 /\ DOMAIN pila = 1..t
  <2>1. Len(pila) # 0
    BY EmptySeq
  <2> QED
    BY <2>1
<1>2. s = SubSeq(pila, 1, t - 1)
  BY DEF Front
<1>3. s \in Seq(Nodo) /\ Len(s) = t - 1 /\ \A n \in 1..(t - 1) : s[n] = pila[n]
  BY <1>1, <1>2
<1>4. DOMAIN s = 1..(t - 1) /\ DOMAIN s \subseteq DOMAIN pila
  BY <1>1, <1>3
<1>5. EnOrden(s)
  BY <1>3, <1>4 DEF EnOrden
<1> QED
  BY <1>3, <1>4, <1>5

\* The call has defined the argument of the new frame and jumped to its entry.
Llamo(p, i, t, q, s, w) ==
  /\ p \in PcbDelPrograma /\ PilaEnRutinas(p) /\ p.indiceStack # <<>>
  /\ i \in Llamadores(programa) /\ i = p.programCounter + 1
  /\ t \in Nat /\ t = Len(p.indiceStack)
  /\ q \in PcbDelPrograma /\ s \in Seq(Nodo) /\ s = q.indiceStack /\ Len(s) = t + 1
  /\ \A k \in 1..t : s[k] = p.indiceStack[k]
  /\ w = s[t + 1] /\ w.retPos = p.programCounter /\ Len(w.args) = 1
  /\ q.programCounter = programa.etiquetas[programa.codigo[i].etiqueta]

LEMMA PilaLlama ==
  ASSUME programa \in Programas, NEW p, NEW i, NEW t, NEW q, NEW s, NEW w,
         Llamo(p, i, t, q, s, w)
  PROVE  PilaEnRutinas(q)
<1> USE DEF Llamo
<1>1. PICK pila \in Seq(Nodo) : pila = p.indiceStack /\ pila # <<>>
  BY PilaDelPcb
<1>2. t > 0 /\ DOMAIN pila = 1..t /\ DOMAIN s = 1..(t + 1) /\ s # <<>>
  <2>1. Len(pila) # 0
    BY <1>1, EmptySeq
  <2> QED
    BY <1>1, <2>1
<1>3. PICK e \in Entradas(programa) : e = q.programCounter + 1
  BY DEF Entradas
<1>4. /\ e \in DOMAIN programa.codigo /\ e \in Nat /\ i \in Nat /\ i \in DOMAIN programa.codigo
      /\ programa.codigo[i].op = "llamar" /\ Etiquetada(programa, i)
  BY EntradasEnElTexto DEF Llamadores
<1>5. e # Principal(programa)
  <2>1. programa.etiquetas[programa.codigo[i].etiqueta] # programa.inicio
    BY <1>4, TextoDelPrograma DEF RutinasBienFormadas
  <2>2. q.programCounter \in Int /\ programa.inicio \in Int
    <3>1. q.programCounter \in Int
      BY PilaDelPcb
    <3>2. programa.inicio \in Nat
      BY TextoDelPrograma
    <3> QED
      BY <3>1, <3>2
  <2> QED
    BY <1>3, <2>1, <2>2 DEF Principal
<1>6. EnSuLugar(w, e, t + 1)
  <2>1. EsDeRutina(programa, e, e)
    BY <1>4 DEF EsDeRutina
  <2>2. Visibles(programa, e, e) = {Argumentos[1]}
    BY <1>4, <1>5 DEF Visibles
  <2>3. Argumentos[1] \in NombresDe(w)
    <3>1. w \in Nodo
      BY <1>2
    <3>2. 1 \in DOMAIN w.args
      BY SMTT(30), <3>1, NodoTipado
    <3> QED
      BY <3>2 DEF NombresDe
  <2>4. t + 1 # 1
    BY <1>2
  <2> QED
    BY <1>5, <2>1, <2>2, <2>3, <2>4 DEF EnSuLugar
<1>7. /\ \A k \in 1..t :
            /\ LugarDe(p, k) \in DOMAIN programa.codigo
            /\ k < t => programa.codigo[LugarDe(p, k)].op = "llamar"
            /\ Len(pila[k].args) = IF k = 1 THEN 0 ELSE 1
            /\ EnSuLugar(pila[k], LugarDe(p, k), k)
  BY <1>1, <1>2, MarcosEnSuLugar
<1>8. ASSUME NEW k \in 1..(t + 1)
      PROVE  /\ LugarDe(q, k) \in DOMAIN programa.codigo
             /\ k < t + 1 => programa.codigo[LugarDe(q, k)].op = "llamar"
             /\ Len(s[k].args) = IF k = 1 THEN 0 ELSE 1
             /\ EnSuLugar(s[k], LugarDe(q, k), k)
  <2>0. k \in 1..t \/ k = t + 1
    <3>1. k \in 1..(t + 1) /\ t \in Nat
      OBVIOUS
    <3> QED
      BY ONLY <3>1
  <2>1. CASE k = t + 1
    <3>1. LugarDe(q, k) = e
      BY <1>3, <2>1 DEF LugarDe
    <3>2. ~(k < t + 1) /\ k # 1
      BY <1>2, <2>1
    <3>3. Len(s[k].args) = 1 /\ EnSuLugar(s[k], e, k)
      BY <1>6, <2>1
    <3> QED
      BY <1>4, <3>1, <3>2, <3>3
  <2>2. CASE k \in 1..t
    <3>1. LugarDe(q, k) = LugarDe(p, k) /\ (k = t => LugarDe(p, k) = i)
      <4>1. CASE k = t
        <5>1. LugarDe(q, k) = w.retPos + 1
          BY <4>1 DEF LugarDe
        <5>2. LugarDe(p, k) = p.programCounter + 1
          BY <4>1 DEF LugarDe
        <5> QED
          BY <5>1, <5>2
      <4>2. CASE k # t
        <5>1. k + 1 \in 1..t /\ k # t + 1
          BY <2>2, <4>2
        <5>2. s[k + 1] = pila[k + 1]
          BY <1>1, <5>1
        <5>3. LugarDe(q, k) = s[k + 1].retPos + 1
          BY <5>1 DEF LugarDe
        <5>4. LugarDe(p, k) = pila[k + 1].retPos + 1
          BY <1>1, <4>2 DEF LugarDe
        <5> QED
          BY <4>2, <5>2, <5>3, <5>4
      <4> QED
        BY <4>1, <4>2
    <3>2. programa.codigo[LugarDe(p, k)].op = "llamar"
      <4>1. CASE k = t
        BY <1>4, <3>1, <4>1
      <4>2. CASE k # t
        <5>1. k < t
          BY <2>2, <4>2
        <5> QED
          BY <1>7, <2>2, <5>1
      <4> QED
        BY <4>1, <4>2
    <3>3. s[k] = pila[k]
      BY <1>1, <2>2
    <3>4. /\ LugarDe(p, k) \in DOMAIN programa.codigo
          /\ Len(pila[k].args) = IF k = 1 THEN 0 ELSE 1
          /\ EnSuLugar(pila[k], LugarDe(p, k), k)
      BY <1>7, <2>2
    <3> QED
      BY <3>1, <3>2, <3>3, <3>4
  <2> QED
    BY <2>0, <2>1, <2>2
<1>9. q.programCounter + 1 \in DOMAIN programa.codigo
  BY <1>3, <1>4
<1> QED
  BY <1>2, <1>8, <1>9, MarcosEnSuLugar

LEMMA CuentaDeLlamada ==
  ASSUME programa \in Programas, NEW p, NEW i, NEW t, NEW q, NEW s, NEW w,
         Llamo(p, i, t, q, s, w), PilaEnRutinas(q), NEW a \in Nat, NEW b \in Nat,
         b = a + (Len(programa.codigo) - (q.programCounter - 1))
  PROVE  Cuenta(p, a, q, b)
<1> USE DEF Llamo
<1>1. PICK pila \in Seq(Nodo) : pila = p.indiceStack /\ pila # <<>>
  BY PilaDelPcb
<1>2. PICK l \in Seq(DOMAIN programa.codigo) :
        /\ l = Lugares(p) /\ Len(l) = t /\ t >= 1 /\ \A k \in 1..t : l[k] = LugarDe(p, k)
  BY LugaresDe
<1>3. s # <<>>
  <2>1. Len(<<>>) = 0
    OBVIOUS
  <2> QED
    BY SMTT(30), <2>1
<1>4. PICK u \in Seq(DOMAIN programa.codigo) :
        /\ u = Lugares(q) /\ Len(u) = t + 1 /\ \A k \in 1..(t + 1) : u[k] = LugarDe(q, k)
  BY SMTT(30), <1>3, LugaresDe
<1>5. PICK e \in Entradas(programa) : e = q.programCounter + 1
  BY DEF Entradas
<1>6. e \in Nat /\ i \in Nat /\ q.programCounter \in Int
  BY <1>5, EntradasEnElTexto, PilaDelPcb DEF Llamadores
<1>7. l[t] = i /\ u[t + 1] = e
  <2>1. t \in 1..t /\ t + 1 \in 1..(t + 1)
    BY SMTT(30), <1>2
  <2>2. l[t] = LugarDe(p, t) /\ u[t + 1] = LugarDe(q, t + 1)
    BY <1>2, <1>4, <2>1
  <2> QED
    BY <1>5, <2>2 DEF LugarDe
<1>8. ASSUME NEW k \in 1..t PROVE u[k] = l[k]
  <2>1. k \in 1..(t + 1) /\ k # t + 1
    BY SMTT(30)
  <2>2. LugarDe(q, k) = LugarDe(p, k)
    <3>1. CASE k = t
      <4>1. LugarDe(q, k) = w.retPos + 1
        BY <2>1, <3>1 DEF LugarDe
      <4>2. LugarDe(p, k) = p.programCounter + 1
        BY <3>1 DEF LugarDe
      <4> QED
        BY <4>1, <4>2
    <3>2. CASE k # t
      <4>1. k + 1 \in 1..t
        BY SMTT(30), <3>2
      <4>2. s[k + 1] = pila[k + 1]
        BY <1>1, <4>1
      <4>3. LugarDe(q, k) = s[k + 1].retPos + 1
        BY <2>1 DEF LugarDe
      <4>4. LugarDe(p, k) = pila[k + 1].retPos + 1
        BY <1>1, <3>2 DEF LugarDe
      <4> QED
        BY <4>2, <4>3, <4>4
    <3> QED
      BY <3>1, <3>2
  <2>3. u[k] = LugarDe(q, k) /\ l[k] = LugarDe(p, k)
    BY <1>2, <1>4, <2>1
  <2> QED
    BY <2>2, <2>3
<1>9. PICK n \in Nat : n = Len(programa.codigo)
  BY TextoDelPrograma
<1>10. ASSUME ~LlamaHaciaAtras, EnAscenso(l)
       PROVE  EnAscenso(u) /\ Faltan(u) + 1 + a <= Faltan(l) + b
  <2>1. ~(programa.etiquetas[programa.codigo[i].etiqueta] < i)
    BY <1>10 DEF LlamaHaciaAtras
  <2>2. i < e
    <3>1. ~(q.programCounter < i)
      BY <2>1
    <3>2. /\ e \in Nat /\ i \in Nat /\ q.programCounter \in Int
          /\ e = q.programCounter + 1
      BY <1>5, <1>6
    <3> QED
      BY ONLY <3>1, <3>2
  <2>3. Llamado(l, u, t, i, e)
    BY <1>2, <1>4, <1>7, <1>8, <2>2 DEF Llamado
  <2>4. /\ EnAscenso(l) => EnAscenso(u)
        /\ Faltan(u) <= Faltan(l) + (n - e)
    BY <1>9, <2>3, CuentaLlama
  <2>5. Faltan(l) \in Nat /\ Faltan(u) \in Nat
    BY AlgoFalta
  <2>6. b = a + (n - (e - 2))
    <3>1. b = a + (n - (q.programCounter - 1))
      BY <1>9
    <3>2. q.programCounter \in Int /\ e = q.programCounter + 1
      BY <1>5, <1>6
    <3>3. q.programCounter - 1 = e - 2
      BY ONLY <3>2
    <3> QED
      BY <3>1, <3>3
  <2>7. EnAscenso(u)
    BY <1>10, <2>4
  <2>8. PICK x \in Nat : x = Faltan(u)
    BY <2>5
  <2>9. PICK y \in Nat : y = Faltan(l)
    BY <2>5
  <2>10. x <= y + (n - e)
    BY <1>10, <2>4, <2>8, <2>9
  <2>11. a \in Nat /\ n \in Nat /\ e \in Nat
    BY <1>6, <1>9
  <2>12. x + 1 + a <= y + b
    BY ONLY <2>6, <2>8, <2>9, <2>10, <2>11
  <2> QED
    BY <2>7, <2>8, <2>9, <2>12
<1> QED
  BY <1>2, <1>4, <1>10 DEF Cuenta

LEMMA MarcoNuevoTipado ==
  ASSUME NEW p \in PcbDelPrograma, NEW x \in Int, NEW nodo,
         nodo = [args |-> <<>>, vars |-> <<>>, retPos |-> p.programCounter,
                 retVar |-> DireccionDe(x, 4)]
  PROVE  nodo \in Nodo /\ nodo.args = <<>> /\ nodo.vars = <<>> /\ nodo.retPos = p.programCounter
<1>1. TamPagina \in Nat /\ TamPagina > 0
  BY CPUAssumption
<1>2. x \div TamPagina \in Int /\ x % TamPagina \in 0..(TamPagina - 1)
  BY <1>1, Division
<1>3. DireccionDe(x, 4) \in Direccion
  BY <1>1, <1>2 DEF DireccionDe, Direccion
<1>4. <<>> \in Seq(DireccionDeValor) /\ <<>> \in Seq(VarsDeNodo) /\ p.programCounter \in Int
  BY PilaDelPcb
<1> QED
  BY <1>3, <1>4 DEF Nodo, VarsDeNodo

\* The argument of a call, defined in its new frame.
Apilado(p, pila, nodo, s, r, t) ==
  /\ p \in PcbDelPrograma /\ pila \in Seq(Nodo) /\ t \in Nat /\ t = Len(pila)
  /\ nodo \in Nodo /\ nodo.args = <<>> /\ nodo.vars = <<>>
  /\ s \in Seq(Nodo) /\ s = Append(pila, nodo) /\ EnOrden(s)
  /\ r = Definida(p, s, Argumentos[1])

LEMMA MarcoConArgumento ==
  ASSUME programa \in Programas, NEW p, NEW pila, NEW nodo, NEW s, NEW r, NEW t,
         Apilado(p, pila, nodo, s, r, t)
  PROVE  /\ Len(r) = t + 1 /\ \A k \in 1..t : r[k] = pila[k]
         /\ Len(r[t + 1].args) = 1 /\ r[t + 1].retPos = nodo.retPos
         /\ r \in Seq(Nodo)
<1> USE DEF Apilado
<1>1. /\ Len(s) = t + 1 /\ DOMAIN s = 1..(t + 1) /\ s[t + 1] = nodo
      /\ \A k \in 1..t : s[k] = pila[k]
  OBVIOUS
<1>2. PICK dir \in DireccionDeValor : dir = DireccionSiguiente(p, s)
  BY SiguienteLibre
<1>3. PICK w : w = ConDireccion(nodo, Argumentos[1], dir)
  OBVIOUS
<1>4. Argumentos[1] \in ToSet(Argumentos)
  BY PrimerArgumento
<1>5. w \in Nodo
  BY <1>3, <1>4, NodoConDireccion
<1>6. w.args = Append(<<>>, dir) /\ w.retPos = nodo.retPos
  BY <1>3, <1>4, NodoTipado DEF ConDireccion
<1>7. Len(w.args) = 1
  <2>1. <<>> \in Seq(DireccionDeValor) /\ Len(<<>>) = 0
    OBVIOUS
  <2> QED
    BY <1>6, <2>1
<1>8. r = [s EXCEPT ![t + 1] = w]
  BY <1>1, <1>2, <1>3 DEF Definida
<1>9. t + 1 \in DOMAIN s
  BY <1>1
<1>10. r \in Seq(Nodo) /\ Len(r) = t + 1
  BY <1>1, <1>5, <1>8, <1>9, CambiarLugar
<1>11. r[t + 1] = w /\ \A k \in 1..t : r[k] = s[k]
  <2>1. \A k \in 1..t : k \in DOMAIN s /\ k # t + 1
    BY <1>1
  <2> QED
    BY <1>8, <1>9, <2>1
<1> QED
  BY <1>1, <1>6, <1>7, <1>10, <1>11

LEMMA LlamadaEjecutada ==
  ASSUME programa \in Programas, NEW m, NEW i, EnCurso(m, i), i.op = "llamar",
         NEW r, r = Llamada(m, i)
  PROVE  Ejecutada(m, r, FALSE)
<1>1. /\ Marcha(m) /\ m.interrupcion = "ninguna"
      /\ m.pcb \in PcbDelPrograma /\ PilaEnRutinas(m.pcb)
  BY DEF EnCurso, Marcha
<1>2. PICK pila \in Seq(Nodo) : pila = m.pcb.indiceStack /\ pila # <<>>
  BY <1>1, PilaNoVacia, PilaDelPcb
<1>3. PICK t \in Nat : t = Len(pila)
  OBVIOUS
<1>4. PICK v : v = Operar(m, i.operando)
  OBVIOUS
<1>5. PICK d : d = obtenerPosicionVariable(v, i.destino)
  OBVIOUS
<1>6. Estable(m, v)
  BY <1>1, <1>2, <1>4, Operada
<1>7. Estable(v, d)
  <2>1. Marcha(v) /\ v.pcb.indiceStack # <<>>
    BY <1>2, <1>6 DEF Estable
  <2> QED
    BY <1>5, <2>1, PosicionObtenida
<1>8. Estable(m, d)
  BY <1>6, <1>7, EstableSeguida
<1>9. Marcha(d) /\ d.pcb = m.pcb /\ d.puntero \in Int
  BY <1>8 DEF Estable, Marcha
<1>10. PICK nodo : nodo = [args |-> <<>>, vars |-> <<>>, retPos |-> m.pcb.programCounter,
                           retVar |-> DireccionDe(d.puntero, 4)]
  OBVIOUS
<1>11. /\ nodo \in Nodo /\ nodo.args = <<>> /\ nodo.vars = <<>>
       /\ nodo.retPos = m.pcb.programCounter
  BY <1>1, <1>9, <1>10, MarcoNuevoTipado
<1>12. PICK s : s = Append(pila, nodo)
  OBVIOUS
<1>13. s \in Seq(Nodo) /\ EnOrden(s)
  <2>1. EnOrden(pila)
    BY <1>1, <1>2 DEF Marcha
  <2> QED
    BY <1>11, <1>12, <2>1, ApilarEnOrden
<1>14. PICK p : p = ConPila(m.pcb, s)
  OBVIOUS
<1>15. p \in PcbDelPrograma /\ p.indiceStack = s /\ p.programCounter = m.pcb.programCounter
  BY <1>1, <1>13, <1>14, PcbConPila
<1>16. PICK a : a = ConPcb(d, p)
  OBVIOUS
<1>17. /\ Marcha(a) /\ a.pcb = p /\ a.interrupcion = d.interrupcion
       /\ a.aEjecutarDelPcb = d.aEjecutarDelPcb
  BY <1>9, <1>13, <1>15, <1>16, MarchaConPcb
<1>18. PICK l : l = Saltar(a, i.etiqueta)
  OBVIOUS
<1>19. l = llamarConRetorno(d, i.etiqueta, d.puntero)
  <2>1. [d EXCEPT !.pcb.indiceStack =
            Append(@, [args |-> <<>>, vars |-> <<>>, retPos |-> d.pcb.programCounter,
                       retVar |-> DireccionDe(d.puntero, 4)])] = a
    BY <1>2, <1>9, <1>10, <1>12, <1>14, <1>16 DEF ConPcb, ConPila
  <2> QED
    BY <1>18, <2>1 DEF llamarConRetorno
<1>20. /\ Marcha(l) /\ l.pcb.indiceStack = s
       /\ \/ l.interrupcion = "direccionInvalida"
          \/ /\ i.etiqueta \in DOMAIN programa.etiquetas /\ l.interrupcion = a.interrupcion
             /\ l.pcb = ConContador(p, programa.etiquetas[i.etiqueta] - 1)
             /\ l.aEjecutarDelPcb = a.aEjecutarDelPcb
                  + (Len(programa.codigo) - (programa.etiquetas[i.etiqueta] - 1))
  BY <1>15, <1>17, <1>18, Saltado
<1>21. PICK g : g = definirVariable(l, Argumentos[1])
  OBVIOUS
<1>22. /\ Marcha(g) /\ g.aEjecutarDelPcb = l.aEjecutarDelPcb
       /\ \/ g.interrupcion = "stackOverflow"
          \/ /\ g.interrupcion = l.interrupcion
             /\ g.pcb = ConPila(l.pcb, Definida(l.pcb, s, Argumentos[1]))
  <2>1. s = ConNodo(l.pcb.indiceStack)
    <3>1. s # <<>>
      BY <1>2, <1>3, <1>12, <1>13
    <3> QED
      BY <1>20, <3>1 DEF ConNodo
  <2>2. s[Len(s)].vars = <<>>
    <3>1. Len(s) = t + 1 /\ s[t + 1] = nodo
      BY <1>3, <1>11, <1>12
    <3> QED
      BY <1>11, <3>1
  <2>3. Argumentos[1] \in Nombres \cup ToSet(Argumentos)
    BY PrimerArgumento
  <2> QED
    BY <1>20, <1>21, <2>1, <2>2, <2>3, VariableDefinida
<1>23. Estable(g, r)
  <2>1. r = asignar(g, g.puntero, v.valor)
    BY <1>4, <1>5, <1>19, <1>21 DEF Llamada, ConArgumento
  <2> QED
    BY <1>22, <2>1, Asignada
<1>24. Marcha(r) /\ r.pcb = g.pcb /\ r.aEjecutarDelPcb = g.aEjecutarDelPcb
  BY <1>23 DEF Estable
<1>25. CASE r.interrupcion \in Fatales
  BY <1>24, <1>25, FatalEjecutada
<1>26. CASE r.interrupcion \notin Fatales
  <2>1. r.interrupcion = g.interrupcion /\ g.interrupcion \notin Fatales
    BY <1>23, <1>26 DEF Estable, Interrumpida
  <2>2. /\ g.interrupcion = l.interrupcion
        /\ g.pcb = ConPila(l.pcb, Definida(l.pcb, s, Argumentos[1]))
    BY <1>22, <2>1 DEF Fatales
  <2>3. /\ i.etiqueta \in DOMAIN programa.etiquetas /\ l.interrupcion = d.interrupcion
        /\ l.pcb = ConContador(p, programa.etiquetas[i.etiqueta] - 1)
        /\ l.aEjecutarDelPcb = a.aEjecutarDelPcb
             + (Len(programa.codigo) - (programa.etiquetas[i.etiqueta] - 1))
    BY <1>17, <1>20, <2>1, <2>2 DEF Fatales
  <2>4. r.interrupcion = "ninguna"
    BY <1>1, <1>8, <2>1, <2>2, <2>3 DEF Estable, Interrumpida
  <2>5. PICK n \in Nat : n = programa.etiquetas[i.etiqueta]
    BY <2>3, TextoDelPrograma
  <2>6. l.pcb \in PcbDelPrograma /\ l.pcb.programCounter = n - 1
    <3>1. n - 1 \in Int
      OBVIOUS
    <3> QED
      BY <1>15, <2>3, <2>5, <3>1, PcbConContador
  <2>7. PICK u : u = Definida(l.pcb, s, Argumentos[1])
    OBVIOUS
  <2>8. /\ Len(u) = t + 1 /\ \A k \in 1..t : u[k] = pila[k]
        /\ Len(u[t + 1].args) = 1 /\ u[t + 1].retPos = m.pcb.programCounter
        /\ u \in Seq(Nodo)
    <3>1. Apilado(l.pcb, pila, nodo, s, u, t)
      BY <1>3, <1>11, <1>12, <1>13, <2>6, <2>7 DEF Apilado
    <3>2. /\ Len(u) = t + 1 /\ \A k \in 1..t : u[k] = pila[k]
          /\ Len(u[t + 1].args) = 1 /\ u[t + 1].retPos = nodo.retPos
          /\ u \in Seq(Nodo)
      BY <3>1, MarcoConArgumento
    <3> QED
      BY <1>11, <3>2
  <2>9. r.pcb \in PcbDelPrograma /\ r.pcb.indiceStack = u /\ r.pcb.programCounter = n - 1
    BY <1>24, <2>2, <2>6, <2>7, <2>8, PcbConPila
  <2>10. PICK q : q = ConContador(r.pcb, r.pcb.programCounter + 1)
    OBVIOUS
  <2>11. q \in PcbDelPrograma /\ q.indiceStack = u /\ q.programCounter = n
    <3>1. r.pcb.programCounter + 1 \in Int /\ r.pcb.programCounter + 1 = n
      BY <2>9
    <3> QED
      BY <2>9, <2>10, <3>1, PcbConContador
  <2>12. PICK x \in DOMAIN programa.codigo : x = m.pcb.programCounter + 1 /\ i = programa.codigo[x]
    BY DEF EnCurso, PilaEnRutinas
  <2>13. x \in Llamadores(programa)
    BY <2>3, <2>12 DEF Llamadores, Etiquetada
  <2>14. PICK w : Llamo(m.pcb, x, t, q, u, w)
    <3>1. PICK w : w = u[t + 1]
      OBVIOUS
    <3>2. Len(w.args) = 1 /\ w.retPos = m.pcb.programCounter
      BY <2>8, <3>1
    <3>3. \A k \in 1..t : u[k] = m.pcb.indiceStack[k]
      BY <1>2, <2>8
    <3>4. q.programCounter = programa.etiquetas[programa.codigo[x].etiqueta]
      BY <2>5, <2>11, <2>12
    <3>5. Llamo(m.pcb, x, t, q, u, w)
      BY <1>1, <1>2, <1>3, <2>8, <2>11, <2>12, <2>13, <3>1, <3>2, <3>3, <3>4 DEF Llamo
    <3> QED
      BY <3>5
  <2>15. PilaEnRutinas(q)
    BY <2>14, PilaLlama
  <2>16. PICK y \in Nat, z \in Nat : y = m.aEjecutarDelPcb /\ z = r.aEjecutarDelPcb
    BY <1>1, <1>24 DEF Marcha
  <2>17. z = y + (Len(programa.codigo) - (q.programCounter - 1))
    <3>1. d.aEjecutarDelPcb = m.aEjecutarDelPcb
      BY <1>8 DEF Estable
    <3> QED
      BY <1>17, <1>22, <1>24, <2>3, <2>5, <2>11, <2>16, <3>1
  <2>18. Cuenta(m.pcb, y, q, z)
    BY <2>14, <2>15, <2>17, CuentaDeLlamada
  <2> QED
    BY <1>24, <2>4, <2>10, <2>15, <2>16, <2>18 DEF Ejecutada, PorKernel
<1> QED
  BY <1>25, <1>26

\* The call has returned: its caller goes on after it.
Volvio(p, t, q, s) ==
  /\ p \in PcbDelPrograma /\ PilaEnRutinas(p)
  /\ t \in Nat /\ t >= 2 /\ t = Len(p.indiceStack)
  /\ q \in PcbDelPrograma /\ s \in Seq(Nodo) /\ s = q.indiceStack /\ Len(s) = t - 1
  /\ \A k \in 1..(t - 1) : s[k] = p.indiceStack[k]
  /\ q.programCounter = p.indiceStack[t].retPos + 1

LEMMA PilaVuelve ==
  ASSUME programa \in Programas, NEW p, NEW t, NEW q, NEW s, Volvio(p, t, q, s)
  PROVE  PilaEnRutinas(q)
<1> USE DEF Volvio
<1>1. PICK pila \in Seq(Nodo) : pila = p.indiceStack
  BY PilaDelPcb
<1>2. DOMAIN pila = 1..t /\ DOMAIN s = 1..(t - 1) /\ s # <<>>
  BY <1>1
<1>3. /\ \A k \in 1..t :
            /\ LugarDe(p, k) \in DOMAIN programa.codigo
            /\ k < t => programa.codigo[LugarDe(p, k)].op = "llamar"
            /\ Len(pila[k].args) = IF k = 1 THEN 0 ELSE 1
            /\ EnSuLugar(pila[k], LugarDe(p, k), k)
  BY <1>1, <1>2, MarcosEnSuLugar
<1>4. PICK u \in Nat : u = t - 1 /\ u \in 1..t /\ u < t /\ t = u + 1
  <2>1. t - 1 \in Nat /\ t - 1 \in 1..t /\ t - 1 < t /\ t = (t - 1) + 1
    OBVIOUS
  <2> QED
    BY <2>1
<1>5. PICK y \in DOMAIN programa.codigo : y = LugarDe(p, u)
  BY <1>3, <1>4
<1>6. programa.codigo[y].op = "llamar" /\ EnSuLugar(pila[u], y, u)
  BY <1>3, <1>4, <1>5
<1>7. q.programCounter = y
  <2>1. u # Len(p.indiceStack)
    BY <1>4
  <2>2. LugarDe(p, u) = p.indiceStack[t].retPos + 1
    BY <1>4, <2>1 DEF LugarDe
  <2> QED
    BY <1>5, <2>2
<1>8. y + 1 \in DOMAIN programa.codigo /\ EnSuLugar(pila[u], y + 1, u)
  BY <1>6, SiguienteEnSuLugar
<1>9. ASSUME NEW k \in 1..u
      PROVE  /\ LugarDe(q, k) \in DOMAIN programa.codigo
             /\ k < u => programa.codigo[LugarDe(q, k)].op = "llamar"
             /\ Len(s[k].args) = IF k = 1 THEN 0 ELSE 1
             /\ EnSuLugar(s[k], LugarDe(q, k), k)
  <2>0. s[k] = pila[k] /\ Len(s) = u /\ k \in 1..t
    BY <1>1, <1>4
  <2>1. CASE k = u
    <3>1. LugarDe(q, k) = y + 1
      BY <1>7, <2>0, <2>1 DEF LugarDe
    <3>2. ~(k < u) /\ Len(s[k].args) = IF k = 1 THEN 0 ELSE 1
      BY <1>3, <2>0, <2>1
    <3> QED
      BY <1>8, <2>0, <2>1, <3>1, <3>2
  <2>2. CASE k # u
    <3>1. k + 1 \in 1..(t - 1) /\ k < t /\ k # t
      BY <1>4, <2>2
    <3>2. LugarDe(q, k) = s[k + 1].retPos + 1
      BY <2>0, <2>2 DEF LugarDe
    <3>3. LugarDe(p, k) = pila[k + 1].retPos + 1
      BY <1>1, <3>1 DEF LugarDe
    <3>4. s[k + 1] = pila[k + 1]
      BY <1>1, <3>1
    <3>5. LugarDe(q, k) = LugarDe(p, k)
      BY <3>2, <3>3, <3>4
    <3> QED
      BY <1>3, <2>0, <3>1, <3>5
  <2> QED
    BY <2>1, <2>2
<1>10. q.programCounter + 1 \in DOMAIN programa.codigo
  BY <1>7, <1>8
<1> QED
  BY <1>2, <1>4, <1>9, <1>10, MarcosEnSuLugar

LEMMA CuentaDeRetorno ==
  ASSUME programa \in Programas, NEW p, NEW t, NEW q, NEW s, Volvio(p, t, q, s),
         PilaEnRutinas(q), NEW a \in Nat
  PROVE  Cuenta(p, a, q, a)
<1> USE DEF Volvio
<1>1. PICK pila \in Seq(Nodo) : pila = p.indiceStack
  BY PilaDelPcb
<1>2. PICK x \in Nat : t = x + 2 /\ x + 1 \in 1..t /\ x + 1 < t
  <2>1. t - 2 \in Nat /\ t = (t - 2) + 2 /\ (t - 2) + 1 \in 1..t /\ (t - 2) + 1 < t
    OBVIOUS
  <2> QED
    BY <2>1
<1>3. /\ Len(pila) = x + 2 /\ DOMAIN pila = 1..(x + 2) /\ pila # <<>>
      /\ Len(s) = x + 1 /\ s # <<>> /\ \A k \in 1..(x + 1) : s[k] = pila[k]
  <2>1. Len(<<>>) = 0 /\ (x + 2) - 1 = x + 1 /\ x + 2 # 0 /\ x + 1 # 0
    OBVIOUS
  <2>2. Len(pila) = x + 2 /\ Len(s) = t - 1 /\ t - 1 = x + 1
    BY <1>1, <1>2, <2>1
  <2>3. DOMAIN pila = 1..Len(pila)
    OBVIOUS
  <2>4. \A k \in 1..(x + 1) : s[k] = pila[k]
    BY <1>1, <2>2
  <2> QED
    BY <2>1, <2>2, <2>3, <2>4
<1>4. PICK l \in Seq(DOMAIN programa.codigo) :
        /\ l = Lugares(p) /\ Len(l) = x + 2 /\ \A k \in 1..(x + 2) : l[k] = LugarDe(p, k)
  BY <1>1, <1>3, LugaresDe
<1>5. PICK u \in Seq(DOMAIN programa.codigo) :
        /\ u = Lugares(q) /\ Len(u) = x + 1 /\ \A k \in 1..(x + 1) : u[k] = LugarDe(q, k)
  BY <1>3, LugaresDe
<1>6. ASSUME NEW k \in 1..x PROVE u[k] = l[k]
  <2>1. k \in 1..(x + 1) /\ k \in 1..(x + 2) /\ k + 1 \in 1..(x + 1) /\ k # x + 1 /\ k # x + 2
    OBVIOUS
  <2>2. LugarDe(q, k) = s[k + 1].retPos + 1
    BY <1>3, <2>1 DEF LugarDe
  <2>3. LugarDe(p, k) = pila[k + 1].retPos + 1
    BY <1>1, <1>3, <2>1 DEF LugarDe
  <2>4. s[k + 1] = pila[k + 1]
    BY <1>3, <2>1
  <2>5. u[k] = LugarDe(q, k) /\ l[k] = LugarDe(p, k)
    BY <1>4, <1>5, <2>1
  <2> QED
    BY <2>2, <2>3, <2>4, <2>5
<1>7. u[x + 1] = l[x + 1] + 1 /\ programa.codigo[l[x + 1]].op = "llamar"
  <2>1. x + 1 \in 1..(x + 1) /\ x + 1 \in 1..(x + 2) /\ x + 1 # x + 2 /\ (x + 1) + 1 = x + 2
    OBVIOUS
  <2>2. u[x + 1] = LugarDe(q, x + 1) /\ l[x + 1] = LugarDe(p, x + 1)
    BY <1>4, <1>5, <2>1
  <2>3. LugarDe(q, x + 1) = q.programCounter + 1
    BY <1>3 DEF LugarDe
  <2>4. LugarDe(p, x + 1) = pila[x + 2].retPos + 1
    BY <1>1, <1>3, <2>1 DEF LugarDe
  <2>5. q.programCounter = pila[x + 2].retPos + 1
    BY <1>1, <1>2
  <2>6. programa.codigo[LugarDe(p, x + 1)].op = "llamar"
    BY <1>1, <1>2, <1>3, <2>1 DEF PilaEnRutinas
  <2> QED
    BY <2>2, <2>3, <2>4, <2>5, <2>6
<1>8. Devuelto(l, u, x)
  BY <1>4, <1>5, <1>6, <1>7 DEF Devuelto
<1>9. /\ EnAscenso(l) => EnAscenso(u)
      /\ Faltan(u) <= Faltan(l) - 1
  BY <1>8, CuentaVuelve
<1>10. Faltan(l) \in Nat /\ Faltan(u) \in Nat
  BY AlgoFalta
<1>11. Faltan(u) + 1 + a <= Faltan(l) + a
  BY <1>9, <1>10
<1> QED
  BY <1>4, <1>5, <1>9, <1>11 DEF Cuenta

LEMMA RetornoEjecutado ==
  ASSUME programa \in Programas, NEW m, NEW i, EnCurso(m, i), i.op = "retornar",
         NEW r, r = Retorno(m, i)
  PROVE  Ejecutada(m, r, FALSE)
<1>1. /\ Marcha(m) /\ m.interrupcion = "ninguna"
      /\ m.pcb \in PcbDelPrograma /\ PilaEnRutinas(m.pcb)
  BY DEF EnCurso, Marcha
<1>2. PICK pila \in Seq(Nodo) : pila = m.pcb.indiceStack /\ pila # <<>>
  BY <1>1, PilaNoVacia, PilaDelPcb
<1>3. PICK t \in Nat : t = Len(pila) /\ t \in DOMAIN pila /\ t > 0
  <2>1. Len(pila) \in Nat /\ Len(pila) # 0 /\ DOMAIN pila = 1..Len(pila)
    BY <1>2, EmptySeq
  <2>2. Len(pila) \in 1..Len(pila) /\ Len(pila) > 0
    BY ONLY <2>1
  <2> QED
    BY ONLY <2>1, <2>2
<1>4. PICK v : v = Operar(m, i.operando)
  OBVIOUS
<1>5. Estable(m, v)
  BY <1>1, <1>2, <1>4, Operada
<1>6. Marcha(v) /\ v.pcb = m.pcb
  BY <1>5 DEF Estable
<1>7. PICK nodo \in Nodo : nodo = pila[t] /\ nodo = Last(pila)
  BY <1>3 DEF Last
<1>8. nodo.retPos \in Int
  BY NodoTipado
<1>9. PICK s : s = Front(pila)
  OBVIOUS
<1>10. /\ s \in Seq(Nodo) /\ EnOrden(s) /\ Len(s) = t - 1
       /\ \A k \in 1..(t - 1) : s[k] = pila[k]
  <2>1. EnOrden(pila)
    BY <1>1, <1>2 DEF Marcha
  <2>2. pila \in Seq(Nodo) /\ pila # <<>> /\ t \in Nat /\ t = Len(pila) /\ s = Front(pila)
    BY <1>2, <1>3, <1>9
  <2> QED
    BY ONLY SMTT(30), <2>1, <2>2, QuitarEnOrden
<1>11. PICK p0 : p0 = ConPila(m.pcb, s)
  OBVIOUS
<1>12. p0 \in PcbDelPrograma /\ p0.indiceStack = s
  BY <1>1, <1>10, <1>11, PcbConPila
<1>13. PICK p : p = ConContador(p0, nodo.retPos)
  OBVIOUS
<1>14. p \in PcbDelPrograma /\ p.indiceStack = s /\ p.programCounter = nodo.retPos
  BY <1>8, <1>12, <1>13, PcbConContador
<1>15. PICK a : a = ConPcb(v, p)
  OBVIOUS
<1>16. /\ Marcha(a) /\ a.pcb = p /\ a.interrupcion = v.interrupcion
       /\ a.aEjecutarDelPcb = v.aEjecutarDelPcb
  BY <1>6, <1>10, <1>14, <1>15, MarchaConPcb
<1>17. [v EXCEPT !.pcb.indiceStack = Front(@), !.pcb.programCounter = nodo.retPos] = a
  BY <1>2, <1>6, <1>9, <1>11, <1>13, <1>15 DEF ConPcb, ConPila, ConContador
<1>18. PICK x : x = PunteroDe(nodo.retVar)
  OBVIOUS
<1>19. r = almacenarDatosEnMemoria(a, x, v.valor)
  BY <1>2, <1>4, <1>6, <1>7, <1>17, <1>18 DEF Retorno, retornar
<1>20. Estable(a, r) /\ r.interrupcion = a.interrupcion
  BY <1>16, <1>19, Almacenada
<1>21. /\ Marcha(r) /\ r.pcb = p /\ r.interrupcion = v.interrupcion
       /\ r.aEjecutarDelPcb = m.aEjecutarDelPcb
  BY <1>5, <1>16, <1>20 DEF Estable
<1>22. CASE r.interrupcion \in Fatales
  BY <1>21, <1>22, FatalEjecutada
<1>23. CASE r.interrupcion \notin Fatales
  <2>1. r.interrupcion = "ninguna"
    BY <1>1, <1>5, <1>21, <1>23 DEF Estable, Interrumpida
  <2>2. PICK y \in DOMAIN programa.codigo : y = m.pcb.programCounter + 1 /\ i = programa.codigo[y]
    BY DEF EnCurso, PilaEnRutinas
  <2>3. t >= 2
    <3>1. EnSuLugar(pila[t], y, t)
      <4>1. LugarDe(m.pcb, t) = y
        BY <1>2, <1>3, <2>2 DEF LugarDe
      <4> QED
        BY <1>1, <1>2, <1>3, <4>1, MarcosEnSuLugar
    <3>2. ~EsDeRutina(programa, Principal(programa), y)
      BY <2>2, TextoDelPrograma DEF RutinasBienFormadas
    <3>3. t # 1
      BY <3>1, <3>2 DEF EnSuLugar
    <3> QED
      BY <1>3, <3>3
  <2>4. PICK q : q = ConContador(r.pcb, r.pcb.programCounter + 1)
    OBVIOUS
  <2>5. /\ q \in PcbDelPrograma /\ q.indiceStack = s
        /\ q.programCounter = nodo.retPos + 1
    <3>1. r.pcb.programCounter + 1 \in Int
      BY <1>8, <1>14, <1>21
    <3> QED
      BY <1>14, <1>21, <2>4, <3>1, PcbConContador
  <2>6. Volvio(m.pcb, t, q, s)
    BY <1>1, <1>2, <1>3, <1>7, <1>10, <2>3, <2>5 DEF Volvio
  <2>7. PilaEnRutinas(q)
    BY <2>6, PilaVuelve
  <2>8. PICK z \in Nat : z = m.aEjecutarDelPcb
    BY <1>1 DEF Marcha
  <2>9. Cuenta(m.pcb, z, q, z)
    BY <2>6, <2>7, CuentaDeRetorno
  <2> QED
    BY <1>21, <2>1, <2>4, <2>7, <2>8, <2>9 DEF Ejecutada, PorKernel
<1> QED
  BY <1>22, <1>23

\* Whatever the instruction, and whatever the Kernel answers.
LEMMA InstruccionEjecutada ==
  ASSUME programa \in Programas, NEW m, NEW i, EnCurso(m, i), i.op # "fin",
         NEW rechazo \in BOOLEAN, rechazo => i.op \in Refutable,
         NEW negativa \in Negativa(i.op, rechazo), NEW r \in Resultados(m, i, negativa)
  PROVE  Ejecutada(m, r, rechazo)
<1>1. i.op \in Operaciones
  <2>1. PICK y \in DOMAIN programa.codigo : i = programa.codigo[y]
    BY DEF EnCurso, PilaEnRutinas
  <2> QED
    BY <2>1, TextoDelPrograma DEF RutinasBienFormadas
<1>2. /\ i.op \notin Refutable => rechazo = FALSE
      /\ i.op # "alocar" => negativa = rechazo
  BY DEF Negativa
<1>3. CASE i.op = "variables"
  BY <1>2, <1>3, VariablesEjecutada DEF Resultados, Refutable, ConRespuesta
<1>4. CASE i.op = "asignar"
  BY <1>2, <1>4, AsignacionEjecutada DEF Resultados, Refutable, ConRespuesta
<1>5. CASE i.op = "llamar"
  BY <1>2, <1>5, LlamadaEjecutada DEF Resultados, Refutable, ConRespuesta
<1>6. CASE i.op = "retornar"
  BY <1>2, <1>6, RetornoEjecutado DEF Resultados, Refutable, ConRespuesta
<1>7. CASE i.op = "saltar"
  BY <1>2, <1>7, SaltoEjecutado DEF Resultados, Refutable, ConRespuesta
<1>8. CASE i.op = "wait"
  BY <1>2, <1>8, EsperaEjecutada DEF Resultados, ConRespuesta
<1>9. CASE i.op = "pedir"
  BY <1>2, <1>9, PedidoEjecutado DEF Resultados, ConRespuesta
<1>10. CASE i.op \in ConRespuesta
  <2>1. PICK x : r = Alocar(m, i, negativa, x)
    BY <1>10 DEF Resultados, ConRespuesta
  <2> QED
    BY <1>10, <2>1, AlocarEjecutado
<1> QED
  BY <1>1, <1>3, <1>4, <1>5, <1>6, <1>7, <1>8, <1>9, <1>10 DEF Operaciones, ConRespuesta

-----------------------------------------------------------------------------
(* The invariant: the steps.                                               *)

LEMMA PcbAlgo ==
  ASSUME NEW p \in PcbDelPrograma
  PROVE  p # Ninguno
<1>1. "pid" \in DOMAIN p
  BY DEF PcbDelPrograma
<1>2. DOMAIN Ninguno = {}
  BY CPUAssumption
<1> QED
  BY <1>1, <1>2

EnUno(a, b, c) ==
  \/ a # Ninguno /\ b = Ninguno /\ c = Ninguno
  \/ a = Ninguno /\ b # Ninguno /\ c = Ninguno
  \/ a = Ninguno /\ b = Ninguno /\ c # Ninguno

LEMMA UnLugar ==
  ASSUME NEW a, NEW b, NEW c
  PROVE  (Cardinality({k \in 1..3 : <<a, b, c>>[k] # Ninguno}) = 1) <=> EnUno(a, b, c)
<1>1. PICK S : S = {k \in 1..3 : <<a, b, c>>[k] # Ninguno}
  OBVIOUS
<1>2. /\ 1 \in S <=> a # Ninguno
      /\ 2 \in S <=> b # Ninguno
      /\ 3 \in S <=> c # Ninguno
      /\ \A k \in S : k = 1 \/ k = 2 \/ k = 3
  BY <1>1
<1>3. IsFiniteSet(S)
  <2>1. IsFiniteSet(1..3)
    <3>1. 1 \in Int /\ 3 \in Int
      OBVIOUS
    <3> QED
      BY ONLY <3>1, FS_Interval
  <2>2. S \subseteq 1..3
    BY <1>1
  <2> QED
    BY ONLY <2>1, <2>2, FS_Subset
<1>4. (Cardinality(S) = 1) <=> \E x : S = {x}
  BY <1>3, FS_Singleton
<1>5. (\E x : S = {x}) <=> EnUno(a, b, c)
  <2>1. ASSUME NEW x, S = {x} PROVE EnUno(a, b, c)
    <3>1. x = 1 \/ x = 2 \/ x = 3
      BY <1>2, <2>1
    <3> QED
      BY <1>2, <2>1, <3>1 DEF EnUno
  <2>2. ASSUME EnUno(a, b, c) PROVE \E x : S = {x}
    <3>1. CASE a # Ninguno /\ b = Ninguno /\ c = Ninguno
      <4>1. S = {1}
        BY <1>2, <3>1
      <4> QED
        BY <4>1
    <3>2. CASE a = Ninguno /\ b # Ninguno /\ c = Ninguno
      <4>1. S = {2}
        BY <1>2, <3>2
      <4> QED
        BY <4>1
    <3>3. CASE a = Ninguno /\ b = Ninguno /\ c # Ninguno
      <4>1. S = {3}
        BY <1>2, <3>3
      <4> QED
        BY <4>1
    <3> QED
      BY <2>2, <3>1, <3>2, <3>3 DEF EnUno
  <2> QED
    BY <2>1, <2>2
<1> QED
  BY <1>1, <1>4, <1>5

KernelTipado(k) ==
  k \in [lista : {"listos", "bloqueados", "ejecucion", "terminados", "desincronizado"},
         proceso : PcbDelPrograma \cup {Ninguno}, espera : {"orden", "pcb"},
         libre : BOOLEAN, interrumpido : BOOLEAN]

CpuTipada(c) ==
  c \in [fase : {"esperando", "recibiendo", "ejecutando", "verificando", "cerrada"},
         fifo : BOOLEAN, aEjecutarPorKernel : Nat, aEjecutarDelPcb : Nat,
         interrupcion : Interrupciones, procesoFinalizado : BOOLEAN, cpuFinalizada : BOOLEAN]

CanalTipado(c, p) == c # Ninguno => c \in [quantum : Cuantos, campos : {serializarPcb(p)}]

Actual(k, c, b) ==
  IF b # Ninguno THEN b ELSE IF c # Ninguno THEN deserializarPcb(c.campos) ELSE k.proceso

EnSuSitio(k, c, b, u) ==
  /\ EnUno(k.proceso, c, b)
  /\ (k.lista = "ejecucion") = (k.proceso = Ninguno)
  /\ u.fase \in {"recibiendo", "ejecutando", "verificando"} => b # Ninguno
  /\ u.fase = "recibiendo" => u.procesoFinalizado
  /\ u.fase \in {"ejecutando", "verificando"} => ~u.procesoFinalizado
  /\ b = Ninguno => u.procesoFinalizado

Discorde(k, u) ==
  \/ k.lista = "desincronizado"
  \/ (k.espera = "pcb") # (u.fase = "verificando" /\ u.interrupcion \in PorKernel)

Acabado(k, u) ==
  \/ u.fase = "verificando" /\ u.interrupcion \notin {"ninguna", "semWait"}
  \/ k.lista \in {"terminados", "desincronizado"}

Atendido(k, u, p) ==
  /\ k.espera = "pcb" => u.fase = "verificando" /\ u.interrupcion # "ninguna"
  /\ Discorde(k, u) => Acabado(k, u) /\ PuedeDiscordar(p)

Marchando(u) ==
  /\ u.fase = "recibiendo" => u.fifo = (u.aEjecutarPorKernel = 0)
  /\ u.fase = "ejecutando" => u.interrupcion = "ninguna" /\ (~u.fifo => u.aEjecutarPorKernel > 0)

\* The invariant, of any values of the variables but the program, with its PCB.
Invariante(k, c, u, b, p) ==
  /\ KernelTipado(k) /\ CpuTipada(u) /\ CanalTipado(c, p) /\ b \in PcbDelPrograma \cup {Ninguno}
  /\ p = Actual(k, c, b) /\ p \in PcbDelPrograma
  /\ EnSuSitio(k, c, b, u) /\ Atendido(k, u, p) /\ EnOrden(p.indiceStack) /\ Marchando(u)
  /\ ~Acabado(k, u) => PilaEnRutinas(p)

EnOrdenEn(pila, desde, hasta) ==
  \A n \in DOMAIN pila : \A i \in DOMAIN DireccionesDe(pila[n]) :
    /\ DireccionesDe(pila[n])[i].offset + 4 <= TamPagina
    /\ DireccionesDe(pila[n])[i].pagina \in desde..(hasta - 1)
    /\ \A m \in DOMAIN pila : \A j \in DOMAIN DireccionesDe(pila[m]) :
         n < m \/ (n = m /\ i < j) =>
           PunteroDe(DireccionesDe(pila[n])[i]) + 4 <= PunteroDe(DireccionesDe(pila[m])[j])

LEMMA OrdenEntrePaginas ==
  ASSUME NEW pila
  PROVE  EnOrden(pila) <=> EnOrdenEn(pila, PaginasDeCodigo, PaginasTotales)
BY DEF EnOrden, EnOrdenEn

LEMMA SinSolaparEs ==
  SinSolapar <=> EnOrdenEn(PcbActual.indiceStack, PcbActual.cantidadPaginasCodigo,
                           cantidadPaginasTotales(PcbActual))
BY DEF SinSolapar, EnOrdenEn

LEMMA OrdenDeLaPila ==
  ASSUME PcbActual \in PcbDelPrograma
  PROVE  SinSolapar <=> EnOrden(PcbActual.indiceStack)
<1>1. /\ PcbActual.cantidadPaginasCodigo = PaginasDeCodigo
      /\ cantidadPaginasTotales(PcbActual) = PaginasTotales
  BY PaginasDelPcb
<1> QED
  BY <1>1, OrdenEntrePaginas, SinSolaparEs

LEMMA InvarianteEs ==
  IInvPcb <=> programa \in Programas /\ Invariante(kernel, canal, cpu, pcb, PcbActual)
<1>1. TiposCPU <=> /\ programa \in Programas /\ KernelTipado(kernel) /\ CpuTipada(cpu)
                   /\ CanalTipado(canal, PcbActual) /\ pcb \in PcbDelPrograma \cup {Ninguno}
                   /\ PcbActual \in PcbDelPrograma
  BY DEF TiposCPU, KernelTipado, CpuTipada, CanalTipado
<1>2. PcbEnUnLugar <=> EnSuSitio(kernel, canal, pcb, cpu)
  BY UnLugar DEF PcbEnUnLugar, EnSuSitio
<1>4. EnMarcha <=> Marchando(cpu)
  BY DEF EnMarcha, Marchando
<1>5. Terminado <=> Acabado(kernel, cpu)
  BY DEF Terminado, Condenado, Acabado
<1>3. KernelAtendido <=> Atendido(kernel, cpu, PcbActual)
  BY <1>5 DEF KernelAtendido, Atendido, Desacuerdo, Discorde
<1>6. PcbActual = Actual(kernel, canal, pcb)
  BY DEF PcbActual, Actual
<1> QED
  BY <1>1, <1>2, <1>3, <1>4, <1>5, <1>6, OrdenDeLaPila DEF IInvPcb, Invariante

LEMMA InvarianteSigue ==
  ASSUME programa' = programa, programa \in Programas,
         NEW k, NEW c, NEW u, NEW b, NEW p,
         k = kernel', c = canal', u = cpu', b = pcb', Invariante(k, c, u, b, p)
  PROVE  IInvPcb'
<1>1. PcbDelPrograma' = PcbDelPrograma
  BY DEF PcbDelPrograma
<1>2. PcbActual' = p
  BY DEF PcbActual, Actual, Invariante
<1>3. TiposCPU'
  BY <1>1, <1>2 DEF TiposCPU, Invariante, KernelTipado, CpuTipada, CanalTipado
<1>4. PcbEnUnLugar'
  <2>1. EnSuSitio(kernel', canal', pcb', cpu')
    BY DEF Invariante
  <2> QED
    BY <2>1, UnLugar DEF PcbEnUnLugar, EnSuSitio
<1>5. KernelAtendido'
  <2>1. PuedeDiscordar(PcbActual)' <=> PuedeDiscordar(p)
    BY <1>2 DEF PuedeDiscordar, SinDestino
  <2>2. Atendido(k, u, p)
    BY DEF Invariante
  <2> QED
    BY <2>1, <2>2 DEF KernelAtendido, Desacuerdo, Atendido, Discorde, Terminado, Condenado, Acabado
<1>6. SinSolapar'
  <2>1. /\ p.cantidadPaginasCodigo = PaginasDeCodigo
        /\ cantidadPaginasTotales(p) = PaginasTotales
    BY PaginasDelPcb DEF Invariante
  <2>2. EnOrden(p.indiceStack)
    BY DEF Invariante
  <2>3. EnOrdenEn(p.indiceStack, p.cantidadPaginasCodigo, cantidadPaginasTotales(p))
    BY <2>1, <2>2, OrdenEntrePaginas
  <2>4. (SinSolapar <=> EnOrdenEn(PcbActual.indiceStack, PcbActual.cantidadPaginasCodigo,
                                  cantidadPaginasTotales(PcbActual)))'
    BY SinSolaparEs, PTL
  <2> QED
    BY <1>2, <2>3, <2>4
<1>7. EnMarcha'
  BY DEF Invariante, EnMarcha, Marchando
<1>8. ~Terminado' => PilaEnRutinas(PcbActual)'
  <2>1. ~Terminado' => PilaEnRutinas(p)
    BY DEF Invariante, Terminado, Condenado, Acabado
  <2>2. PilaEnRutinas(PcbActual)' <=> PilaEnRutinas(p)
    BY <1>2 DEF PilaEnRutinas, MarcoEnRutina
  <2> QED
    BY <2>1, <2>2
<1> QED
  BY <1>3, <1>4, <1>5, <1>6, <1>7, <1>8 DEF IInvPcb

\* The state before a step, by its values.
LEMMA InvarianteAntes ==
  ASSUME IInvPcb
  PROVE  programa \in Programas /\ Invariante(kernel, canal, cpu, pcb, PcbActual)
BY InvarianteEs

LEMMA ConCodigoSigue ==
  ASSUME NEW p \in PcbDelPrograma, EnOrden(p.indiceStack), NEW x \in Int,
         NEW q, q = ConCodigo(p, x)
  PROVE  /\ q \in PcbDelPrograma /\ EnOrden(q.indiceStack)
         /\ PuedeDiscordar(p) => PuedeDiscordar(q)
<1>1. /\ ConCodigo(p, x) \in PcbDelPrograma /\ ConCodigo(p, x).indiceStack = p.indiceStack
      /\ ConCodigo(p, x).programCounter = p.programCounter
  BY PcbConCodigo
<1> QED
  BY <1>1 DEF PuedeDiscordar, SinDestino, Direcciones

\* The Kernel takes the PCB from the CPU, or takes it for something else.
LEMMA DevolverSigue ==
  ASSUME programa \in Programas, Invariante(kernel, canal, cpu, pcb, PcbActual), pcb # Ninguno,
         UNCHANGED <<programa, canal>>,
         NEW p \in PcbDelPrograma, EnOrden(p.indiceStack),
         NEW precedido, precedido # (kernel.espera = "orden") => PuedeDiscordar(p),
         NEW lista \in {"listos", "bloqueados", "terminados"}, NEW libre \in BOOLEAN,
         lista # "terminados" => PilaEnRutinas(p), Devolver(p, precedido, lista, libre)
  PROVE  IInvPcb'
<1>1. PICK k : k = kernel'
  OBVIOUS
<1>2. PICK u : u = cpu'
  OBVIOUS
<1>3. KernelTipado(kernel) /\ CpuTipada(cpu) /\ EnUno(kernel.proceso, canal, pcb)
  BY DEF Invariante, EnSuSitio
<1>4. deserializarPcb(serializarPcb(p)) = p
  BY PcbViaja
<1>5. PICK y : y \in BOOLEAN /\ y = (precedido = (kernel.espera = "orden"))
  OBVIOUS
<1>16. PICK z : z = IF y THEN lista ELSE "desincronizado"
  OBVIOUS
<1>6. /\ k = [kernel EXCEPT !.lista = z, !.proceso = p, !.espera = "orden",
                            !.libre = y /\ libre]
      /\ u = [cpu EXCEPT !.procesoFinalizado = TRUE, !.fase = "esperando"]
      /\ pcb' = Ninguno
  BY <1>1, <1>2, <1>4, <1>5, <1>16 DEF Devolver
<1>7. /\ KernelTipado(k) /\ k.lista = z /\ k.proceso = p /\ k.espera = "orden"
  <2>1. PICK l \in BOOLEAN : l = (y /\ libre)
    BY <1>5, <1>16
  <2> QED
    BY <1>3, <1>5, <1>16, <1>6, <2>1 DEF KernelTipado
<1>8. /\ CpuTipada(u) /\ u.fase = "esperando" /\ u.procesoFinalizado = TRUE
  BY <1>3, <1>6 DEF CpuTipada
<1>9. canal' = Ninguno /\ canal = Ninguno
  BY <1>3 DEF EnUno
<1>10. p # Ninguno /\ z # "ejecucion"
  BY <1>5, <1>16, PcbAlgo
<1>11. CanalTipado(Ninguno, p) /\ p = Actual(k, Ninguno, Ninguno) /\ Marchando(u)
  BY <1>7, <1>8 DEF CanalTipado, Actual, Marchando
<1>12. EnSuSitio(k, Ninguno, Ninguno, u)
  BY <1>7, <1>8, <1>10 DEF EnSuSitio, EnUno
<1>13. Atendido(k, u, p)
  <2>1. z = "desincronizado" => PuedeDiscordar(p)
    BY <1>5, <1>16
  <2> QED
    BY <1>7, <1>8, <2>1 DEF Atendido, Discorde, Acabado
<1>14. ~Acabado(k, u) => PilaEnRutinas(p)
  BY <1>5, <1>16, <1>7 DEF Acabado
<1>15. Invariante(k, Ninguno, u, Ninguno, p)
  BY <1>7, <1>8, <1>11, <1>12, <1>13, <1>14 DEF Invariante
<1> QED
  BY <1>1, <1>2, <1>6, <1>9, <1>15, InvarianteSigue

\* A process that runs, with the PCB that the CPU has.
LEMMA EnLaCPU ==
  ASSUME programa \in Programas, Invariante(kernel, canal, cpu, pcb, PcbActual),
         cpu.fase \in {"recibiendo", "ejecutando", "verificando"}
  PROVE  /\ pcb # Ninguno /\ pcb \in PcbDelPrograma /\ EnOrden(pcb.indiceStack) /\ PcbActual = pcb
         /\ kernel.proceso = Ninguno /\ canal = Ninguno /\ kernel.lista = "ejecucion"
         /\ cpu.fase # "verificando" \/ cpu.interrupcion = "ninguna" => kernel.espera = "orden"
         /\ (cpu.fase = "verificando" /\ (kernel.espera = "orden") # (cpu.interrupcion \notin PorKernel))
              => cpu.interrupcion \notin {"ninguna", "semWait"} /\ PuedeDiscordar(pcb)
         /\ cpu.interrupcion \in {"ninguna", "semWait"} => PilaEnRutinas(pcb)
<1>1. /\ KernelTipado(kernel) /\ pcb \in PcbDelPrograma \cup {Ninguno}
      /\ PcbActual = Actual(kernel, canal, pcb)
      /\ EnSuSitio(kernel, canal, pcb, cpu) /\ Atendido(kernel, cpu, PcbActual)
      /\ EnOrden(PcbActual.indiceStack)
      /\ ~Acabado(kernel, cpu) => PilaEnRutinas(PcbActual)
  BY DEF Invariante
<1>2. pcb # Ninguno /\ PcbActual = pcb
  BY <1>1 DEF EnSuSitio, Actual
<1>3. kernel.proceso = Ninguno /\ canal = Ninguno /\ kernel.lista = "ejecucion"
  BY <1>1, <1>2 DEF EnSuSitio, EnUno
<1>4. kernel.espera \in {"orden", "pcb"}
  BY <1>1 DEF KernelTipado
<1>5. /\ cpu.fase # "verificando" \/ cpu.interrupcion = "ninguna" => kernel.espera = "orden"
      /\ (cpu.fase = "verificando" /\ (kernel.espera = "orden") # (cpu.interrupcion \notin PorKernel))
           => cpu.interrupcion \notin {"ninguna", "semWait"} /\ PuedeDiscordar(pcb)
  BY <1>1, <1>2, <1>3, <1>4 DEF Atendido, Discorde, Acabado
<1>6. cpu.interrupcion \in {"ninguna", "semWait"} => ~Acabado(kernel, cpu)
  BY <1>3 DEF Acabado
<1> QED
  BY <1>1, <1>2, <1>3, <1>5, <1>6

LEMMA CodigosEnteros ==
  ASSUME NEW motivo
  PROVE  Codigo(motivo) \in Int /\ CodigoMuerte \in Int /\ 0 \in Int
BY DEF Codigo, CodigoMuerte, CodigoError, CodigoRechazo

LEMMA AlRecibir ==
  ASSUME IInvPcb, recibirPCB
  PROVE  IInvPcb'
<1>0. programa \in Programas /\ Invariante(kernel, canal, cpu, pcb, PcbActual)
  BY InvarianteAntes
<1>1. /\ KernelTipado(kernel) /\ CpuTipada(cpu) /\ CanalTipado(canal, PcbActual)
      /\ PcbActual = Actual(kernel, canal, pcb) /\ PcbActual \in PcbDelPrograma
      /\ EnSuSitio(kernel, canal, pcb, cpu) /\ Atendido(kernel, cpu, PcbActual)
      /\ EnOrden(PcbActual.indiceStack)
      /\ ~Acabado(kernel, cpu) => PilaEnRutinas(PcbActual)
  BY <1>0 DEF Invariante
<1>2. PICK p \in PcbDelPrograma : p = PcbActual
  BY <1>1
<1>3. canal # Ninguno /\ pcb = Ninguno /\ kernel.proceso = Ninguno /\ kernel.lista = "ejecucion"
  BY <1>1 DEF recibirPCB, EnSuSitio, EnUno
<1>4. deserializarPcb(canal.campos) = p
  BY <1>1, <1>2, <1>3 DEF Actual
<1>5. PICK c : c = canal.quantum
  OBVIOUS
<1>6. c \in Nat
  BY <1>1, <1>3, <1>5, CPUAssumption DEF CanalTipado
<1>7. PICK u : u = [cpu EXCEPT !.fase = "recibiendo", !.fifo = (c = 0),
                               !.aEjecutarPorKernel = c]
  OBVIOUS
<1>8. pcb' = p /\ cpu' = u /\ canal' = Ninguno /\ kernel' = kernel /\ programa' = programa
  BY <1>4, <1>5, <1>7 DEF recibirPCB
<1>9. /\ CpuTipada(u) /\ u.fase = "recibiendo" /\ u.interrupcion = cpu.interrupcion
      /\ u.procesoFinalizado = cpu.procesoFinalizado
      /\ u.fifo = (c = 0) /\ u.aEjecutarPorKernel = c
  BY <1>1, <1>6, <1>7 DEF CpuTipada
<1>10. p # Ninguno
  BY PcbAlgo
<1>11. cpu.fase = "esperando" /\ PilaEnRutinas(p)
  BY <1>1, <1>2, <1>3 DEF recibirPCB, Acabado
<1>12. Marchando(u)
  BY <1>9, Zenon DEF Marchando
<1>13. /\ CanalTipado(Ninguno, p) /\ p = Actual(kernel, Ninguno, p)
       /\ EnSuSitio(kernel, Ninguno, p, u)
  BY <1>1, <1>3, <1>9, <1>10 DEF CanalTipado, Actual, EnSuSitio, EnUno
<1>14. Atendido(kernel, u, p)
  BY <1>1, <1>3, <1>9, <1>11 DEF Atendido, Discorde
<1>15. Invariante(kernel, Ninguno, u, p, p)
  BY <1>1, <1>2, <1>9, <1>11, <1>12, <1>13, <1>14 DEF Invariante
<1> QED
  BY <1>0, <1>8, <1>15, InvarianteSigue

\* The process starts: the flag that puts a signal off goes up.
LEMMA AlArrancar ==
  ASSUME IInvPcb, EjecutarProgramaMedianteAlgoritmo
  PROVE  IInvPcb'
<1>0. programa \in Programas /\ Invariante(kernel, canal, cpu, pcb, PcbActual)
  BY InvarianteAntes
<1>1. cpu.fase = "recibiendo" /\ UNCHANGED <<programa, kernel, canal, pcb>>
  BY DEF EjecutarProgramaMedianteAlgoritmo
<1>2. PICK p \in PcbDelPrograma :
        /\ p = pcb /\ p # Ninguno /\ EnOrden(p.indiceStack) /\ PcbActual = p
        /\ kernel.proceso = Ninguno /\ canal = Ninguno /\ kernel.lista = "ejecucion"
        /\ kernel.espera = "orden"
  BY <1>0, <1>1, EnLaCPU
<1>3. /\ KernelTipado(kernel) /\ CpuTipada(cpu) /\ Marchando(cpu)
      /\ ~Acabado(kernel, cpu) => PilaEnRutinas(PcbActual)
  BY <1>0 DEF Invariante
<1>4. PICK n \in Nat : n = cantidadInstrucciones(p)
  <2>1. p.indiceCodigo = programa.indice
    BY PilaDelPcb
  <2>2. Len(programa.indice) \in Nat
    BY <1>0, TextoDelPrograma
  <2> QED
    BY <2>1, <2>2 DEF cantidadInstrucciones
<1>5. PICK u : u = [cpu EXCEPT !.fase = "ejecutando", !.interrupcion = "ninguna",
                               !.procesoFinalizado = FALSE, !.aEjecutarDelPcb = n]
  OBVIOUS
<1>6. cpu' = u
  BY <1>2, <1>4, <1>5 DEF EjecutarProgramaMedianteAlgoritmo
<1>7. /\ CpuTipada(u) /\ u.fase = "ejecutando" /\ u.interrupcion = "ninguna"
      /\ u.procesoFinalizado = FALSE /\ u.fifo = cpu.fifo
      /\ u.aEjecutarPorKernel = cpu.aEjecutarPorKernel
  BY <1>3, <1>5 DEF CpuTipada, Interrupciones
<1>8. PilaEnRutinas(p)
  BY <1>1, <1>2, <1>3 DEF Acabado
<1>9. Marchando(u)
  <2>1. PICK c \in Nat : c = cpu.aEjecutarPorKernel
    BY <1>3 DEF CpuTipada
  <2>2. ~u.fifo => c # 0
    BY <1>1, <1>3, <1>7, <2>1, Zenon DEF Marchando
  <2>3. c # 0 => c > 0
    OBVIOUS
  <2> QED
    BY <1>7, <2>1, <2>2, <2>3 DEF Marchando
<1>10. /\ CanalTipado(Ninguno, p) /\ p = Actual(kernel, Ninguno, p)
       /\ EnSuSitio(kernel, Ninguno, p, u)
  BY <1>2, <1>7 DEF CanalTipado, Actual, EnSuSitio, EnUno
<1>11. Atendido(kernel, u, p)
  BY <1>2, <1>7 DEF Atendido, Discorde
<1>12. Invariante(kernel, Ninguno, u, p, p)
  BY <1>2, <1>3, <1>7, <1>8, <1>9, <1>10, <1>11 DEF Invariante
<1> QED
  BY <1>0, <1>1, <1>2, <1>6, <1>12, InvarianteSigue

LEMMA AlDevolver ==
  ASSUME IInvPcb, finalizar \/ expropiar \/ expropiadoVoluntariamente \/ expropiarPorRR
  PROVE  IInvPcb'
<1>0. programa \in Programas /\ Invariante(kernel, canal, cpu, pcb, PcbActual)
  BY InvarianteAntes
<1>1. cpu.fase \in {"ejecutando", "verificando"} /\ UNCHANGED <<programa, canal>>
  BY DEF finalizar, expropiar, expropiadoVoluntariamente, expropiarPorRR, SinInterrupcion
<1>2. /\ pcb # Ninguno /\ pcb \in PcbDelPrograma /\ EnOrden(pcb.indiceStack)
      /\ cpu.fase # "verificando" \/ cpu.interrupcion = "ninguna" => kernel.espera = "orden"
      /\ (cpu.fase = "verificando" /\ (kernel.espera = "orden") # (cpu.interrupcion \notin PorKernel))
           => PuedeDiscordar(pcb)
      /\ cpu.interrupcion \in {"ninguna", "semWait"} => PilaEnRutinas(pcb)
  BY <1>0, <1>1, EnLaCPU
<1>3. CpuTipada(cpu) /\ Marchando(cpu)
  BY <1>0 DEF Invariante
<1>4. PICK x : x = cpu.interrupcion
  OBVIOUS
<1>5. CASE finalizar
  <2>1. PICK p : p = ConCodigo(pcb, 0)
    OBVIOUS
  <2>2. p \in PcbDelPrograma /\ EnOrden(p.indiceStack)
    BY <1>2, <2>1, CodigosEnteros, ConCodigoSigue
  <2>3. Devolver(p, TRUE, "terminados", TRUE)
    BY <1>5, <2>1 DEF finalizar
  <2>4. TRUE = (kernel.espera = "orden")
    BY <1>2, <1>5 DEF finalizar
  <2> QED
    BY <1>0, <1>1, <1>2, <2>2, <2>3, <2>4, DevolverSigue
<1>6. CASE expropiar
  <2>1. PICK p : p = Interrumpido(pcb, x)
    OBVIOUS
  <2>2. /\ p \in PcbDelPrograma /\ EnOrden(p.indiceStack) /\ (x = "semWait" => p = pcb)
        /\ PuedeDiscordar(pcb) => PuedeDiscordar(p)
    <3>1. CASE x = "semWait"
      BY <1>2, <2>1, <3>1 DEF Interrumpido
    <3>2. CASE x # "semWait"
      <4>1. p = ConCodigo(pcb, Codigo(x)) /\ Codigo(x) \in Int
        BY <2>1, <3>2, CodigosEnteros DEF Interrumpido
      <4> QED
        BY <1>2, <3>2, <4>1, ConCodigoSigue
    <3> QED
      BY <3>1, <3>2
  <2>3. PICK lista : lista = ListaPara(x)
    OBVIOUS
  <2>4. /\ lista \in {"listos", "bloqueados", "terminados"}
        /\ lista # "terminados" => PilaEnRutinas(p)
    BY <1>2, <1>4, <2>2, <2>3 DEF ListaPara
  <2>5. PICK precedido : precedido = (cpu.interrupcion \notin PorKernel)
    OBVIOUS
  <2>6. Devolver(p, precedido, lista, TRUE)
    BY <1>4, <1>6, <2>1, <2>3, <2>5 DEF expropiar
  <2>7. precedido # (kernel.espera = "orden") => PuedeDiscordar(p)
    BY <1>2, <1>6, <2>2, <2>5 DEF expropiar
  <2> QED
    BY <1>0, <1>1, <1>2, <2>2, <2>4, <2>6, <2>7, DevolverSigue
<1>7. CASE expropiadoVoluntariamente
  <2>1. PICK p : p = ConCodigo(pcb, CodigoMuerte)
    OBVIOUS
  <2>2. p \in PcbDelPrograma /\ EnOrden(p.indiceStack)
    BY <1>2, <2>1, CodigosEnteros, ConCodigoSigue
  <2>3. Devolver(p, TRUE, "terminados", TRUE)
    BY <1>7, <2>1 DEF expropiadoVoluntariamente
  <2>4. TRUE = (kernel.espera = "orden")
    BY <1>2, <1>7 DEF expropiadoVoluntariamente, SinInterrupcion
  <2> QED
    BY <1>0, <1>1, <1>2, <2>2, <2>3, <2>4, DevolverSigue
<1>8. CASE expropiarPorRR
  <2>1. PICK libre \in BOOLEAN : libre = ~cpu.cpuFinalizada
    BY <1>3 DEF CpuTipada
  <2>2. Devolver(pcb, TRUE, "listos", libre)
    BY <1>8, <2>1 DEF expropiarPorRR
  <2>3. TRUE = (kernel.espera = "orden") /\ PilaEnRutinas(pcb)
    BY <1>2, <1>8 DEF expropiarPorRR, SinInterrupcion
  <2> QED
    BY <1>0, <1>1, <1>2, <2>2, <2>3, DevolverSigue
<1> QED
  BY <1>5, <1>6, <1>7, <1>8

\* The step, as the instruction that the CPU has.
UnPaso(m, r, rechazo) ==
  /\ m = [pcb |-> pcb, memoria |-> memoria, aEjecutarDelPcb |-> cpu.aEjecutarDelPcb,
          interrupcion |-> cpu.interrupcion, puntero |-> 0, valor |-> 0]
  /\ rechazo \in BOOLEAN /\ Ejecutada(m, r, rechazo)
  /\ kernel' = [kernel EXCEPT !.espera = IF rechazo THEN "pcb" ELSE @]
  /\ pcb' = [r.pcb EXCEPT !.programCounter = @ + 1]
  /\ cpu' = [cpu EXCEPT !.fase = "verificando", !.aEjecutarDelPcb = r.aEjecutarDelPcb,
                        !.interrupcion = r.interrupcion,
                        !.aEjecutarPorKernel = Contado(@)]

LEMMA UnaInstruccion ==
  ASSUME IInvPcb, ejecutarInstruccion
  PROVE  \E m, r, rechazo : UnPaso(m, r, rechazo)
<1>0. programa \in Programas /\ Invariante(kernel, canal, cpu, pcb, PcbActual)
  BY InvarianteAntes
<1>1. cpu.fase = "ejecutando" /\ UNCHANGED <<programa, canal>>
  BY DEF ejecutarInstruccion
<1>2. /\ pcb # Ninguno /\ pcb \in PcbDelPrograma /\ EnOrden(pcb.indiceStack)
      /\ kernel.proceso = Ninguno /\ canal = Ninguno /\ kernel.lista = "ejecucion"
      /\ kernel.espera = "orden"
      /\ cpu.interrupcion \in {"ninguna", "semWait"} => PilaEnRutinas(pcb)
  BY <1>0, <1>1, EnLaCPU
<1>3. KernelTipado(kernel) /\ CpuTipada(cpu) /\ Marchando(cpu) /\ EnSuSitio(kernel, canal, pcb, cpu)
  BY <1>0 DEF Invariante
<1>4. /\ cpu.interrupcion = "ninguna" /\ PilaEnRutinas(pcb) /\ kernel.espera = "orden"
      /\ ~cpu.fifo => cpu.aEjecutarPorKernel > 0
  BY <1>1, <1>2, <1>3 DEF Marchando
<1>5. PICK i : i = obtener_instruccion
  OBVIOUS
<1>6. PICK m : m = [pcb |-> pcb, memoria |-> memoria, aEjecutarDelPcb |-> cpu.aEjecutarDelPcb,
                    interrupcion |-> cpu.interrupcion, puntero |-> 0, valor |-> 0]
  OBVIOUS
<1>7. EnCurso(m, i)
  <2>1. Marcha(m) /\ m.interrupcion = "ninguna" /\ m.pcb = pcb
    <3>1. cpu.aEjecutarDelPcb \in Nat /\ "ninguna" \in Interrupciones
      BY <1>3 DEF CpuTipada, Interrupciones
    <3> QED
      BY <1>2, <1>4, <1>6, <3>1 DEF Marcha
  <2>2. i = programa.codigo[pcb.programCounter + 1]
    <3>1. pcb.programCounter + 1 \in DOMAIN programa.codigo
      BY <1>4 DEF PilaEnRutinas
    <3> QED
      BY <1>0, <1>2, <1>5, <3>1, InstruccionActual
  <2> QED
    BY <1>4, <2>1, <2>2 DEF EnCurso
<1>8. PICK rechazo, negativa, r :
        /\ rechazo \in BOOLEAN /\ i.op # "fin" /\ (rechazo => i.op \in Refutable)
        /\ negativa \in Negativa(i.op, rechazo)
        /\ kernel' = [kernel EXCEPT !.espera = IF rechazo THEN "pcb" ELSE @]
        /\ r \in Resultados(m, i, negativa)
        /\ pcb' = [r.pcb EXCEPT !.programCounter = @ + 1]
        /\ cpu' = [cpu EXCEPT !.fase = "verificando", !.aEjecutarDelPcb = r.aEjecutarDelPcb,
                              !.interrupcion = r.interrupcion,
                              !.aEjecutarPorKernel = Contado(@)]
  BY <1>5, <1>6 DEF ejecutarInstruccion
<1>9. Ejecutada(m, r, rechazo)
  <2>1. /\ programa \in Programas /\ EnCurso(m, i) /\ i.op # "fin" /\ rechazo \in BOOLEAN
        /\ (rechazo => i.op \in Refutable)
        /\ negativa \in Negativa(i.op, rechazo) /\ r \in Resultados(m, i, negativa)
    BY <1>0, <1>7, <1>8
  <2> QED
    BY ONLY <2>1, InstruccionEjecutada
<1>10. UnPaso(m, r, rechazo)
  BY <1>6, <1>8, <1>9 DEF UnPaso
<1> QED
  BY <1>10

LEMMA AlEjecutar ==
  ASSUME IInvPcb, ejecutarInstruccion
  PROVE  IInvPcb'
<1>0. programa \in Programas /\ Invariante(kernel, canal, cpu, pcb, PcbActual)
  BY InvarianteAntes
<1>1. cpu.fase = "ejecutando" /\ UNCHANGED <<programa, canal>>
  BY DEF ejecutarInstruccion
<1>2. /\ pcb # Ninguno /\ pcb \in PcbDelPrograma /\ EnOrden(pcb.indiceStack)
      /\ kernel.proceso = Ninguno /\ canal = Ninguno /\ kernel.lista = "ejecucion"
      /\ kernel.espera = "orden"
      /\ cpu.interrupcion \in {"ninguna", "semWait"} => PilaEnRutinas(pcb)
  BY <1>0, <1>1, EnLaCPU
<1>3. KernelTipado(kernel) /\ CpuTipada(cpu) /\ Marchando(cpu) /\ EnSuSitio(kernel, canal, pcb, cpu)
  BY <1>0 DEF Invariante
<1>4. /\ cpu.interrupcion = "ninguna" /\ PilaEnRutinas(pcb) /\ kernel.espera = "orden"
      /\ ~cpu.fifo => cpu.aEjecutarPorKernel > 0
  BY <1>1, <1>2, <1>3 DEF Marchando
<1>5. PICK m, r, rechazo : UnPaso(m, r, rechazo)
  BY UnaInstruccion
<1>8. /\ rechazo \in BOOLEAN
      /\ kernel' = [kernel EXCEPT !.espera = IF rechazo THEN "pcb" ELSE @]
      /\ pcb' = [r.pcb EXCEPT !.programCounter = @ + 1]
      /\ cpu' = [cpu EXCEPT !.fase = "verificando", !.aEjecutarDelPcb = r.aEjecutarDelPcb,
                            !.interrupcion = r.interrupcion,
                            !.aEjecutarPorKernel = Contado(@)]
  BY <1>5 DEF UnPaso
<1>9. Ejecutada(m, r, rechazo)
  BY <1>5 DEF UnPaso
<1>10. /\ Marcha(r) /\ (rechazo => r.interrupcion # "ninguna")
       /\ r.interrupcion \in PorKernel /\ ~rechazo =>
            /\ r.interrupcion = "resEjecNegativo"
            /\ PuedeDiscordar(ConContador(r.pcb, r.pcb.programCounter + 1))
       /\ r.interrupcion \notin PorKernel /\ rechazo =>
            PuedeDiscordar(ConContador(r.pcb, r.pcb.programCounter + 1))
       /\ r.interrupcion \in {"ninguna", "semWait"} =>
            PilaEnRutinas(ConContador(r.pcb, r.pcb.programCounter + 1))
  BY <1>9 DEF Ejecutada
<1>11. /\ r.pcb \in PcbDelPrograma /\ EnOrden(r.pcb.indiceStack) /\ r.aEjecutarDelPcb \in Nat
       /\ r.interrupcion \in Interrupciones
  BY <1>10 DEF Marcha
<1>12. PICK p : p = ConContador(r.pcb, r.pcb.programCounter + 1)
  OBVIOUS
<1>13. p \in PcbDelPrograma /\ EnOrden(p.indiceStack) /\ pcb' = p
  <2>1. r.pcb.programCounter + 1 \in Int
    BY <1>11, PilaDelPcb
  <2>2. p \in PcbDelPrograma /\ p.indiceStack = r.pcb.indiceStack
    BY <1>11, <1>12, <2>1, PcbConContador
  <2> QED
    BY <1>8, <1>11, <1>12, <2>2 DEF ConContador
<1>14. PICK n : n = Contado(cpu.aEjecutarPorKernel)
  OBVIOUS
<1>15. n \in Nat
  <2>1. cpu.aEjecutarPorKernel \in Nat /\ cpu.fifo \in BOOLEAN
    BY <1>3 DEF CpuTipada
  <2>2. CASE cpu.fifo
    BY <1>14, <2>1, <2>2 DEF Contado
  <2>3. CASE ~cpu.fifo
    <3>1. n = cpu.aEjecutarPorKernel - 1 /\ cpu.aEjecutarPorKernel > 0
      BY <1>4, <1>14, <2>3 DEF Contado
    <3> QED
      BY <2>1, <3>1
  <2> QED
    BY <2>2, <2>3
<1>16. PICK u : u = [cpu EXCEPT !.fase = "verificando", !.aEjecutarDelPcb = r.aEjecutarDelPcb,
                                !.interrupcion = r.interrupcion, !.aEjecutarPorKernel = n]
  OBVIOUS
<1>17. /\ cpu' = u /\ CpuTipada(u) /\ u.fase = "verificando" /\ u.interrupcion = r.interrupcion
       /\ u.procesoFinalizado = cpu.procesoFinalizado
  BY <1>3, <1>8, <1>11, <1>14, <1>15, <1>16 DEF CpuTipada
<1>18. PICK k : k = [kernel EXCEPT !.espera = IF rechazo THEN "pcb" ELSE "orden"]
  OBVIOUS
<1>19. /\ kernel' = k /\ KernelTipado(k) /\ k.lista = "ejecucion" /\ k.proceso = Ninguno
       /\ k.espera = IF rechazo THEN "pcb" ELSE "orden"
  BY <1>2, <1>3, <1>4, <1>8, <1>18 DEF KernelTipado
<1>20. p # Ninguno
  BY <1>13, PcbAlgo
<1>21. Atendido(k, u, p)
  <2>1. /\ r.interrupcion \in PorKernel /\ ~rechazo =>
             r.interrupcion = "resEjecNegativo" /\ PuedeDiscordar(p)
        /\ r.interrupcion \notin PorKernel /\ rechazo =>
             r.interrupcion # "ninguna" /\ PuedeDiscordar(p)
        /\ rechazo => r.interrupcion # "ninguna"
    BY <1>8, <1>10, <1>12
  <2>2. k.espera = "pcb" <=> rechazo
    BY <1>8, <1>19
  <2>3. k.lista # "desincronizado" /\ u.fase = "verificando"
    BY <1>17, <1>19
  <2>4. Discorde(k, u) => r.interrupcion \notin {"ninguna", "semWait"} /\ PuedeDiscordar(p)
    <3>1. CASE rechazo
      BY <1>17, <2>1, <2>2, <2>3, <3>1 DEF Discorde, PorKernel
    <3>2. CASE ~rechazo
      BY <1>17, <2>1, <2>2, <2>3, <3>2 DEF Discorde
    <3> QED
      BY <3>1, <3>2
  <2> QED
    BY <1>17, <2>1, <2>2, <2>3, <2>4 DEF Atendido, Acabado
<1>22. /\ CanalTipado(Ninguno, p) /\ p = Actual(k, Ninguno, p) /\ EnSuSitio(k, Ninguno, p, u)
       /\ Marchando(u)
  <2>1. cpu.procesoFinalizado = FALSE
    BY <1>1, <1>3 DEF EnSuSitio, CpuTipada
  <2>2. CanalTipado(Ninguno, p) /\ p = Actual(k, Ninguno, p) /\ Marchando(u)
    BY <1>17, <1>19, <1>20 DEF CanalTipado, Actual, Marchando
  <2>3. EnUno(k.proceso, Ninguno, p) /\ (k.lista = "ejecucion") = (k.proceso = Ninguno)
    BY <1>19, <1>20 DEF EnUno
  <2> QED
    BY <1>17, <1>19, <1>20, <2>1, <2>2, <2>3 DEF EnSuSitio
<1>23. ~Acabado(k, u) => PilaEnRutinas(p)
  BY <1>10, <1>12, <1>17, <1>20 DEF Acabado
<1>24. Invariante(k, Ninguno, u, p, p)
  BY <1>13, <1>17, <1>19, <1>21, <1>22, <1>23 DEF Invariante
<1>25. canal' = Ninguno /\ programa' = programa
  BY <1>1, <1>2
<1> QED
  BY <1>0, <1>13, <1>17, <1>19, <1>24, <1>25, InvarianteSigue

\* The loop goes on or ends with nothing pending, or a CPU that runs nothing closes.
SoloMueve(u, w) ==
  \/ u.fase = "verificando" /\ u.interrupcion = "ninguna"
     /\ w.fase \in {"ejecutando", "esperando", "cerrada"}
  \/ u.fase \notin {"ejecutando", "verificando"} /\ w.fase = "cerrada"

\* The steps of the CPU that keep the PCB where it is.
LEMMA AlSeguir ==
  ASSUME IInvPcb, Seguir \/ AgotarCuenta \/ signalHandler \/ cerrarTodo
  PROVE  IInvPcb'
<1>0. programa \in Programas /\ Invariante(kernel, canal, cpu, pcb, PcbActual)
  BY InvarianteAntes
<1>1. UNCHANGED <<programa, kernel, canal, pcb>>
  BY DEF Seguir, AgotarCuenta, signalHandler, cerrarTodo
<1>2. PICK p : p = PcbActual
  OBVIOUS
<1>3. PICK u : u = cpu'
  OBVIOUS
<1>4. /\ KernelTipado(kernel) /\ CpuTipada(cpu) /\ CanalTipado(canal, p)
      /\ pcb \in PcbDelPrograma \cup {Ninguno}
      /\ p = Actual(kernel, canal, pcb) /\ p \in PcbDelPrograma
      /\ EnSuSitio(kernel, canal, pcb, cpu) /\ Atendido(kernel, cpu, p)
      /\ EnOrden(p.indiceStack) /\ Marchando(cpu)
      /\ ~Acabado(kernel, cpu) => PilaEnRutinas(p)
  BY <1>0, <1>2 DEF Invariante
<1>5. /\ CpuTipada(u) /\ u.interrupcion = cpu.interrupcion
      /\ u.procesoFinalizado = cpu.procesoFinalizado
      /\ u.fase = cpu.fase \/ SoloMueve(cpu, u)
      /\ Marchando(u)
  <2>1. CASE Seguir
    <3>1. u = [cpu EXCEPT !.fase = "ejecutando"] /\ cpu.fase = "verificando"
          /\ cpu.interrupcion = "ninguna" /\ QuedanInstrucciones
      BY <1>3, <2>1 DEF Seguir, SinInterrupcion
    <3>2. /\ CpuTipada(u) /\ u.interrupcion = cpu.interrupcion /\ u.fase = "ejecutando"
          /\ u.procesoFinalizado = cpu.procesoFinalizado
          /\ u.fifo = cpu.fifo /\ u.aEjecutarPorKernel = cpu.aEjecutarPorKernel
      BY <1>4, <3>1 DEF CpuTipada
    <3>3. ~cpu.fifo => cpu.aEjecutarPorKernel > 0
      BY <3>1 DEF QuedanInstrucciones
    <3> QED
      BY <3>1, <3>2, <3>3 DEF Marchando, SoloMueve
  <2>2. CASE AgotarCuenta
    <3>1. /\ cpu.fase = "verificando" /\ cpu.interrupcion = "ninguna"
          /\ \E f \in {"cerrada", "esperando"} : u = [cpu EXCEPT !.fase = f]
      BY <1>3, <2>2 DEF AgotarCuenta, SinInterrupcion
    <3>2. PICK f \in {"cerrada", "esperando"} : u = [cpu EXCEPT !.fase = f]
      BY <3>1
    <3> QED
      BY <1>4, <3>1, <3>2 DEF CpuTipada, Marchando, SoloMueve
  <2>3. CASE signalHandler
    <3>1. \/ u = [cpu EXCEPT !.fase = "cerrada"] /\ cpu.procesoFinalizado
          \/ u = [cpu EXCEPT !.cpuFinalizada = TRUE]
      BY <1>3, <2>3 DEF signalHandler
    <3>2. cpu.procesoFinalizado => cpu.fase \notin {"ejecutando", "verificando"}
      BY <1>4 DEF EnSuSitio
    <3>3. CASE u = [cpu EXCEPT !.fase = "cerrada"] /\ cpu.procesoFinalizado
      BY <1>4, <3>2, <3>3 DEF CpuTipada, Marchando, SoloMueve
    <3>4. CASE u = [cpu EXCEPT !.cpuFinalizada = TRUE]
      BY <1>4, <3>4 DEF CpuTipada, Marchando
    <3> QED
      BY <3>1, <3>3, <3>4
  <2>4. CASE cerrarTodo
    <3>1. u = [cpu EXCEPT !.fase = "cerrada"] /\ cpu.fase = "esperando"
      BY <1>3, <2>4 DEF cerrarTodo
    <3> QED
      BY <1>4, <3>1 DEF CpuTipada, Marchando, SoloMueve
  <2> QED
    BY <2>1, <2>2, <2>3, <2>4
<1>6. EnSuSitio(kernel, canal, pcb, u)
  BY <1>4, <1>5 DEF EnSuSitio, SoloMueve
<1>7. kernel.espera \in {"orden", "pcb"}
  BY <1>4 DEF KernelTipado
<1>8. Atendido(kernel, u, p) /\ (Acabado(kernel, u) <=> Acabado(kernel, cpu))
  BY <1>4, <1>5, <1>7 DEF Atendido, Discorde, Acabado, SoloMueve, PorKernel
<1>9. Invariante(kernel, canal, u, pcb, p)
  BY <1>4, <1>5, <1>6, <1>8 DEF Invariante
<1> QED
  BY <1>0, <1>1, <1>3, <1>9, InvarianteSigue

LEMMA AlConectar ==
  ASSUME IInvPcb, ConectarCPU
  PROVE  IInvPcb'
<1>0. programa \in Programas /\ Invariante(kernel, canal, cpu, pcb, PcbActual)
  BY InvarianteAntes
<1>1. PICK p : p = PcbActual
  OBVIOUS
<1>2. PICK k : k = [kernel EXCEPT !.libre = TRUE]
  OBVIOUS
<1>3. /\ UNCHANGED <<programa, canal, pcb>> /\ kernel' = k /\ cpu' = CPUNueva
      /\ canal = Ninguno /\ pcb = Ninguno
  BY <1>2 DEF ConectarCPU
<1>4. /\ KernelTipado(kernel) /\ p = Actual(kernel, canal, pcb) /\ p \in PcbDelPrograma
      /\ EnSuSitio(kernel, canal, pcb, cpu) /\ Atendido(kernel, cpu, p)
      /\ EnOrden(p.indiceStack)
      /\ ~Acabado(kernel, cpu) => PilaEnRutinas(p)
  BY <1>0, <1>1 DEF Invariante
<1>5. PICK u : u = CPUNueva
  OBVIOUS
<1>6. /\ CpuTipada(u) /\ u.fase = "esperando" /\ u.procesoFinalizado = TRUE
  BY <1>5 DEF CpuTipada, CPUNueva, Interrupciones
<1>7. KernelTipado(k) /\ k.lista = kernel.lista /\ k.proceso = kernel.proceso /\ k.espera = kernel.espera
  BY <1>2, <1>4 DEF KernelTipado
<1>8. /\ CanalTipado(canal, p) /\ p = Actual(k, canal, pcb) /\ EnSuSitio(k, canal, pcb, u)
      /\ Atendido(k, u, p) /\ Marchando(u)
      /\ ~Acabado(k, u) => PilaEnRutinas(p)
  BY <1>3, <1>4, <1>6, <1>7
     DEF CanalTipado, Actual, EnSuSitio, Atendido, Discorde, Marchando, Acabado
<1>9. Invariante(k, canal, u, pcb, p)
  BY <1>3, <1>4, <1>6, <1>7, <1>8 DEF Invariante
<1> QED
  BY <1>0, <1>3, <1>5, <1>9, InvarianteSigue

LEMMA AlDespachar ==
  ASSUME IInvPcb, Despachar
  PROVE  IInvPcb'
<1>0. programa \in Programas /\ Invariante(kernel, canal, cpu, pcb, PcbActual)
  BY InvarianteAntes
<1>1. PICK p : p = PcbActual
  OBVIOUS
<1>2. PICK k : k = [kernel EXCEPT !.lista = "ejecucion", !.proceso = Ninguno, !.libre = FALSE]
  OBVIOUS
<1>3. /\ UNCHANGED <<programa, cpu, pcb>> /\ kernel' = k /\ kernel.lista = "listos"
  BY <1>2 DEF Despachar
<1>4. /\ KernelTipado(kernel) /\ p = Actual(kernel, canal, pcb) /\ p \in PcbDelPrograma
      /\ EnSuSitio(kernel, canal, pcb, cpu) /\ Atendido(kernel, cpu, p)
      /\ EnOrden(p.indiceStack) /\ CpuTipada(cpu) /\ Marchando(cpu)
      /\ ~Acabado(kernel, cpu) => PilaEnRutinas(p)
  BY <1>0, <1>1 DEF Invariante
<1>5. kernel.proceso # Ninguno /\ canal = Ninguno /\ pcb = Ninguno /\ p = kernel.proceso
  BY <1>3, <1>4 DEF EnSuSitio, EnUno, Actual
<1>6. PICK q \in Cuantos : canal' = [quantum |-> q, campos |-> serializarPcb(p)]
  BY <1>5 DEF Despachar
<1>7. PICK c : c = [quantum |-> q, campos |-> serializarPcb(p)]
  OBVIOUS
<1>8. c # Ninguno /\ CanalTipado(c, p) /\ c.campos = serializarPcb(p)
  <2>1. "quantum" \in DOMAIN c /\ DOMAIN Ninguno = {}
    BY <1>7, CPUAssumption
  <2> QED
    BY <1>7, <2>1 DEF CanalTipado
<1>9. deserializarPcb(c.campos) = p
  BY <1>0, <1>4, <1>8, PcbViaja
<1>10. KernelTipado(k) /\ k.lista = "ejecucion" /\ k.proceso = Ninguno /\ k.espera = kernel.espera
  BY <1>2, <1>4 DEF KernelTipado
<1>11. /\ p = Actual(k, c, pcb) /\ EnSuSitio(k, c, pcb, cpu) /\ Atendido(k, cpu, p)
       /\ ~Acabado(k, cpu) => PilaEnRutinas(p)
  BY <1>3, <1>4, <1>5, <1>8, <1>9, <1>10 DEF Actual, EnSuSitio, EnUno, Atendido, Discorde, Acabado
<1>12. Invariante(k, c, cpu, pcb, p)
  BY <1>4, <1>5, <1>8, <1>10, <1>11 DEF Invariante
<1> QED
  BY <1>0, <1>3, <1>6, <1>7, <1>12, InvarianteSigue

\* What the Kernel does with the process in a list, or without it.
LEMMA AlCambiarDeLista ==
  ASSUME IInvPcb, Desbloquear \/ Matar \/ VerCierre
  PROVE  IInvPcb'
<1>0. programa \in Programas /\ Invariante(kernel, canal, cpu, pcb, PcbActual)
  BY InvarianteAntes
<1>1. PICK p : p = PcbActual
  OBVIOUS
<1>2. PICK k : k = kernel'
  OBVIOUS
<1>3. UNCHANGED <<programa, canal, cpu, pcb>>
  BY DEF Desbloquear, Matar, VerCierre
<1>4. /\ KernelTipado(kernel) /\ p = Actual(kernel, canal, pcb) /\ p \in PcbDelPrograma
      /\ CanalTipado(canal, p) /\ pcb \in PcbDelPrograma \cup {Ninguno}
      /\ EnSuSitio(kernel, canal, pcb, cpu) /\ Atendido(kernel, cpu, p)
      /\ EnOrden(p.indiceStack) /\ CpuTipada(cpu) /\ Marchando(cpu)
      /\ ~Acabado(kernel, cpu) => PilaEnRutinas(p)
  BY <1>0, <1>1 DEF Invariante
<1>5. CASE Desbloquear
  <2>1. k = [kernel EXCEPT !.lista = "listos"] /\ kernel.lista = "bloqueados"
    BY <1>2, <1>5 DEF Desbloquear
  <2>2. KernelTipado(k) /\ k.lista = "listos" /\ k.proceso = kernel.proceso /\ k.espera = kernel.espera
    BY <1>4, <2>1 DEF KernelTipado
  <2>3. /\ p = Actual(k, canal, pcb) /\ EnSuSitio(k, canal, pcb, cpu) /\ Atendido(k, cpu, p)
        /\ ~Acabado(k, cpu) => PilaEnRutinas(p)
    BY <1>4, <2>1, <2>2 DEF Actual, EnSuSitio, EnUno, Atendido, Discorde, Acabado
  <2>4. Invariante(k, canal, cpu, pcb, p)
    BY <1>4, <2>2, <2>3 DEF Invariante
  <2> QED
    BY <1>0, <1>2, <1>3, <2>4, InvarianteSigue
<1>6. CASE VerCierre \/ (Matar /\ kernel.lista = "ejecucion")
  <2>1. k = [kernel EXCEPT !.libre = FALSE] \/ k = [kernel EXCEPT !.interrumpido = TRUE]
    BY <1>2, <1>6 DEF VerCierre, Matar
  <2>2. KernelTipado(k) /\ k.lista = kernel.lista /\ k.proceso = kernel.proceso /\ k.espera = kernel.espera
    BY <1>4, <2>1 DEF KernelTipado
  <2>3. /\ p = Actual(k, canal, pcb) /\ EnSuSitio(k, canal, pcb, cpu) /\ Atendido(k, cpu, p)
        /\ ~Acabado(k, cpu) => PilaEnRutinas(p)
    BY <1>4, <2>2 DEF Actual, EnSuSitio, EnUno, Atendido, Discorde, Acabado
  <2>4. Invariante(k, canal, cpu, pcb, p)
    BY <1>4, <2>2, <2>3 DEF Invariante
  <2> QED
    BY <1>0, <1>2, <1>3, <2>4, InvarianteSigue
<1>7. CASE Matar /\ kernel.lista # "ejecucion"
  <2>0. kernel.proceso # Ninguno /\ canal = Ninguno /\ pcb = Ninguno /\ p = kernel.proceso
    BY <1>4, <1>7 DEF EnSuSitio, EnUno, Actual
  <2>1. PICK q : q = ConCodigo(p, CodigoMuerte)
    OBVIOUS
  <2>2. q \in PcbDelPrograma /\ EnOrden(q.indiceStack)
    BY <1>4, <2>1, CodigosEnteros, ConCodigoSigue
  <2>3. k = [kernel EXCEPT !.lista = "terminados", !.proceso = q]
    BY <1>2, <1>7, <2>0, <2>1 DEF Matar
  <2>4. KernelTipado(k) /\ k.lista = "terminados" /\ k.proceso = q /\ k.espera = kernel.espera
    BY <1>4, <2>2, <2>3 DEF KernelTipado
  <2>5. q # Ninguno
    BY <2>2, PcbAlgo
  <2>6. /\ q = Actual(k, canal, pcb) /\ EnSuSitio(k, canal, pcb, cpu) /\ Atendido(k, cpu, q)
        /\ CanalTipado(canal, q)
        /\ ~Acabado(k, cpu) => PilaEnRutinas(q)
    BY <1>4, <2>0, <2>4, <2>5 DEF Actual, EnSuSitio, EnUno, Atendido, Discorde, Acabado, CanalTipado
  <2>7. Invariante(k, canal, cpu, pcb, q)
    BY <1>4, <2>2, <2>4, <2>6 DEF Invariante
  <2> QED
    BY <1>0, <1>2, <1>3, <2>7, InvarianteSigue
<1> QED
  BY <1>5, <1>6, <1>7

LEMMA PcbNuevo ==
  ASSUME programa \in Programas, NEW p, p = crearPcb(1, programa, TamPagina)
  PROVE  /\ p \in PcbDelPrograma /\ p.indiceStack = <<>> /\ EnOrden(p.indiceStack)
         /\ PilaEnRutinas(p)
<1>1. p.indiceStack = <<>> /\ p.programCounter = programa.inicio
  BY DEF crearPcb
<1>2. p \in PcbDelPrograma
  <2>1. programa.inicio \in Int
    <3>1. programa.inicio \in Nat
      BY TextoDelPrograma
    <3> QED
      BY <3>1
  <2>2. <<>> \in Seq(Nodo)
    OBVIOUS
  <2> QED
    BY <2>1, <2>2 DEF crearPcb, PcbDelPrograma
<1>3. DOMAIN p.indiceStack = {}
  BY <1>1
<1>4. EnOrden(p.indiceStack)
  BY <1>3 DEF EnOrden
<1>5. p.programCounter + 1 \in DOMAIN programa.codigo
  BY <1>1, TextoDelPrograma DEF RutinasBienFormadas, Principal
<1>6. PilaEnRutinas(p)
  BY <1>1, <1>3, <1>5 DEF PilaEnRutinas
<1> QED
  BY <1>1, <1>2, <1>4, <1>6

LEMMA AlEmpezar == Init => IInvPcb
<1> SUFFICES ASSUME Init PROVE IInvPcb
  OBVIOUS
<1>1. /\ programa \in Programas /\ canal = Ninguno /\ cpu = CPUNueva /\ pcb = Ninguno
      /\ kernel = [lista |-> "listos", proceso |-> crearPcb(1, programa, TamPagina),
                   espera |-> "orden", libre |-> TRUE, interrumpido |-> FALSE]
  BY DEF Init
<1>2. PICK p : p = crearPcb(1, programa, TamPagina)
  OBVIOUS
<1>3. p \in PcbDelPrograma /\ EnOrden(p.indiceStack) /\ PilaEnRutinas(p) /\ p # Ninguno
  BY <1>1, <1>2, PcbNuevo, PcbAlgo
<1>4. PcbActual = p
  BY <1>1, <1>2 DEF PcbActual
<1>5. KernelTipado(kernel) /\ CpuTipada(cpu) /\ CanalTipado(canal, p)
  BY <1>1, <1>2, <1>3 DEF KernelTipado, CpuTipada, CanalTipado, CPUNueva, Interrupciones
<1>6. /\ p = Actual(kernel, canal, pcb) /\ EnSuSitio(kernel, canal, pcb, cpu)
      /\ Atendido(kernel, cpu, p) /\ Marchando(cpu)
  BY <1>1, <1>2, <1>3 DEF Actual, EnSuSitio, EnUno, Atendido, Discorde, Marchando, CPUNueva
<1>7. Invariante(kernel, canal, cpu, pcb, p)
  BY <1>1, <1>3, <1>5, <1>6 DEF Invariante
<1> QED
  BY <1>1, <1>4, <1>7, InvarianteEs

LEMMA AlDarUnPaso ==
  ASSUME IInvPcb, [Next]_vars
  PROVE  IInvPcb'
<1>1. CASE recibirPCB \/ EjecutarProgramaMedianteAlgoritmo
  BY <1>1, AlRecibir, AlArrancar
<1>2. CASE finalizar \/ expropiar \/ expropiadoVoluntariamente \/ expropiarPorRR
  BY <1>2, AlDevolver
<1>3. CASE ejecutarInstruccion
  BY <1>3, AlEjecutar
<1>4. CASE Seguir \/ AgotarCuenta \/ signalHandler \/ cerrarTodo
  BY <1>4, AlSeguir
<1>5. CASE ConectarCPU
  BY <1>5, AlConectar
<1>6. CASE Despachar
  BY <1>6, AlDespachar
<1>7. CASE Desbloquear \/ Matar \/ VerCierre
  BY <1>7, AlCambiarDeLista
<1>8. CASE UNCHANGED vars
  <2>1. PICK k : k = kernel
    OBVIOUS
  <2>2. PICK c : c = canal
    OBVIOUS
  <2>3. PICK u : u = cpu
    OBVIOUS
  <2>4. PICK b : b = pcb
    OBVIOUS
  <2>5. PICK p : p = PcbActual
    OBVIOUS
  <2>6. programa \in Programas /\ Invariante(k, c, u, b, p)
    BY <2>1, <2>2, <2>3, <2>4, <2>5, InvarianteAntes
  <2>7. programa' = programa /\ k = kernel' /\ c = canal' /\ u = cpu' /\ b = pcb'
    BY <1>8, <2>1, <2>2, <2>3, <2>4 DEF vars
  <2> QED
    BY <2>6, <2>7, InvarianteSigue
<1> QED
  BY <1>1, <1>2, <1>3, <1>4, <1>5, <1>6, <1>7, <1>8 DEF Next

-----------------------------------------------------------------------------
\* The PCB is in one place and well formed, and the process is where its program says,
\* whatever the Kernel, the signals and the quantum do between two instructions of the CPU.
THEOREM CPUEnSuPrograma == Spec => []IInvPcb
<1>1. IInvPcb /\ [Next]_vars => IInvPcb'
  BY AlDarUnPaso
<1> QED
  BY <1>1, AlEmpezar, PTL DEF Spec

-----------------------------------------------------------------------------
(* The count of FIFO: the steps.                                           *)

Activa(u) == u.fase \in {"ejecutando", "verificando"}

Alcanza(u, p) ==
  /\ EnAscenso(Lugares(p))
  /\ Activa(u) /\ u.fifo => u.aEjecutarPorKernel + Faltan(Lugares(p)) <= u.aEjecutarDelPcb

LEMMA AlcanzaEs ==
  CuentaAlcanza <=> (~LlamaHaciaAtras /\ ~Terminado => Alcanza(cpu, PcbActual))
BY DEF CuentaAlcanza, Alcanza, Activa

LEMMA AlcanzaSigue ==
  ASSUME programa' = programa, NEW u, NEW p, u = cpu', p = PcbActual',
         ~LlamaHaciaAtras /\ ~Terminado' => Alcanza(u, p)
  PROVE  CuentaAlcanza' /\ (LlamaHaciaAtras' <=> LlamaHaciaAtras)
<1>1. LlamaHaciaAtras' <=> LlamaHaciaAtras
  BY DEF LlamaHaciaAtras
<1>2. \A i : Limite(i)' = Limite(i)
  BY DEF Limite
<1>3. Lugares(PcbActual)' = Lugares(p)
  BY DEF Lugares, LugarDe
<1>4. PICK l : l = Lugares(p)
  OBVIOUS
<1>5. EnAscenso(Lugares(PcbActual))' <=> EnAscenso(l)
  BY <1>2, <1>3, <1>4 DEF EnAscenso
<1>6. Faltan(Lugares(PcbActual))' = Faltan(l)
  BY <1>2, <1>3, <1>4 DEF Faltan, Resto
<1>7. ~LlamaHaciaAtras' /\ ~Terminado' =>
        /\ EnAscenso(l)
        /\ u.fase \in {"ejecutando", "verificando"} /\ u.fifo =>
             u.aEjecutarPorKernel + Faltan(l) <= u.aEjecutarDelPcb
  BY <1>1, <1>4 DEF Alcanza, Activa
<1> QED
  BY <1>1, <1>5, <1>6, <1>7 DEF CuentaAlcanza

\* The PCB stays as it is, wherever it goes, and no count begins.
LEMMA AlcanzaIgual ==
  ASSUME programa' = programa, CuentaAlcanza, PcbActual' = PcbActual, Terminado => Terminado',
         NEW u, u = cpu',
         Activa(u) => /\ Activa(cpu) /\ u.fifo = cpu.fifo
                      /\ u.aEjecutarPorKernel = cpu.aEjecutarPorKernel
                      /\ u.aEjecutarDelPcb = cpu.aEjecutarDelPcb
  PROVE  CuentaAlcanza' /\ (LlamaHaciaAtras' <=> LlamaHaciaAtras)
<1>1. PICK p : p = PcbActual
  OBVIOUS
<1>2. ~LlamaHaciaAtras /\ ~Terminado' => Alcanza(u, p)
  <2>1. ~LlamaHaciaAtras /\ ~Terminado' => Alcanza(cpu, p)
    BY <1>1, AlcanzaEs
  <2> QED
    BY <2>1 DEF Alcanza
<1> QED
  BY <1>1, <1>2, AlcanzaSigue

\* What is known of a state with its PCB, and of the CPU that has it.
LEMMA ElPcb ==
  ASSUME IInvPcb
  PROVE  /\ programa \in Programas /\ PcbActual \in PcbDelPrograma
         /\ PcbActual = Actual(kernel, canal, pcb) /\ CpuTipada(cpu)
         /\ EnUno(kernel.proceso, canal, pcb)
         /\ (kernel.lista = "ejecucion") = (kernel.proceso = Ninguno)
         /\ Activa(cpu) => pcb # Ninguno /\ ~cpu.procesoFinalizado
         /\ cpu.fase = "recibiendo" => pcb # Ninguno /\ cpu.procesoFinalizado
         /\ pcb = Ninguno => cpu.procesoFinalizado
         /\ Marchando(cpu)
         /\ pcb # Ninguno =>
              /\ kernel.proceso = Ninguno /\ canal = Ninguno /\ kernel.lista = "ejecucion"
              /\ PcbActual = pcb /\ pcb \in PcbDelPrograma
         /\ Terminado <=> Acabado(kernel, cpu)
<1>1. programa \in Programas /\ Invariante(kernel, canal, cpu, pcb, PcbActual)
  BY InvarianteAntes
<1>2. /\ PcbActual \in PcbDelPrograma /\ PcbActual = Actual(kernel, canal, pcb)
      /\ CpuTipada(cpu) /\ EnSuSitio(kernel, canal, pcb, cpu) /\ Marchando(cpu)
  BY <1>1 DEF Invariante
<1>3. Terminado <=> Acabado(kernel, cpu)
  BY DEF Terminado, Condenado, Acabado
<1> QED
  BY <1>1, <1>2, <1>3 DEF EnSuSitio, EnUno, Actual, Activa

LEMMA CuentaAlRecibir ==
  ASSUME IInvCuenta, IInvPcb', recibirPCB
  PROVE  CuentaAlcanza' /\ UnSoloPcb'
<1>1. IInvPcb /\ CuentaAlcanza /\ PcbEnUnLugar'
  BY DEF IInvCuenta, IInvPcb
<1>2. programa' = programa /\ canal # Ninguno /\ kernel' = kernel /\ cpu.fase = "esperando"
  BY DEF recibirPCB
<1>3. /\ programa \in Programas /\ PcbActual \in PcbDelPrograma
      /\ PcbActual = Actual(kernel, canal, pcb) /\ CpuTipada(cpu)
      /\ EnUno(kernel.proceso, canal, pcb)
  BY <1>1, ElPcb
<1>4. pcb = Ninguno /\ PcbActual = deserializarPcb(canal.campos)
  BY <1>2, <1>3 DEF EnUno, Actual
<1>5. pcb' = PcbActual /\ PcbActual' = PcbActual
  BY <1>3, <1>4, PcbAlgo DEF recibirPCB, PcbActual
<1>6. PICK u : u = cpu'
  OBVIOUS
<1>7. u.fase = "recibiendo"
  BY <1>3, <1>6 DEF recibirPCB, CpuTipada
<1>8. Terminado => Terminado'
  BY <1>2 DEF Terminado, Condenado
<1>9. CuentaAlcanza'
  <2>1. ~Activa(u)
    BY <1>7 DEF Activa
  <2> QED
    BY <1>1, <1>2, <1>5, <1>6, <1>8, <2>1, AlcanzaIgual
<1>10. UnSoloPcb'
  BY <1>1, <1>6, <1>7 DEF UnSoloPcb
<1> QED
  BY <1>9, <1>10

\* In FIFO the count starts at 0, and at all the instructions that the code has.
LEMMA CuentaAlArrancar ==
  ASSUME IInvCuenta, IInvPcb', EjecutarProgramaMedianteAlgoritmo
  PROVE  CuentaAlcanza' /\ UnSoloPcb'
<1>1. IInvPcb /\ CuentaAlcanza /\ PcbEnUnLugar'
  BY DEF IInvCuenta, IInvPcb
<1>2. cpu.fase = "recibiendo" /\ UNCHANGED <<programa, kernel, canal, pcb>>
  BY DEF EjecutarProgramaMedianteAlgoritmo
<1>3. /\ programa \in Programas /\ PcbActual \in PcbDelPrograma /\ CpuTipada(cpu)
      /\ Marchando(cpu) /\ PcbActual = pcb /\ kernel.lista = "ejecucion"
      /\ Terminado <=> Acabado(kernel, cpu)
  BY <1>1, <1>2, ElPcb
<1>4. PICK p \in PcbDelPrograma : p = PcbActual
  BY <1>3
<1>5. PcbActual' = p
  BY <1>2, <1>4 DEF PcbActual
<1>8. ~Terminado
  BY <1>2, <1>3 DEF Acabado
<1>9. PilaEnRutinas(p)
  BY <1>1, <1>4, <1>8 DEF IInvPcb
<1>10. PICK n : n = cantidadInstrucciones(p)
  OBVIOUS
<1>11. n = Len(programa.codigo) /\ n \in Nat
  <2>1. p.indiceCodigo = programa.indice
    BY PilaDelPcb
  <2> QED
    BY <1>3, <1>10, <2>1, TextoDelPrograma DEF cantidadInstrucciones
<1>12. PICK u : u = cpu'
  OBVIOUS
<1>13. u = [cpu EXCEPT !.fase = "ejecutando", !.interrupcion = "ninguna",
                       !.procesoFinalizado = FALSE, !.aEjecutarDelPcb = n]
  BY <1>3, <1>4, <1>10, <1>12 DEF EjecutarProgramaMedianteAlgoritmo
<1>14. /\ u.fase = "ejecutando" /\ u.fifo = cpu.fifo
       /\ u.aEjecutarPorKernel = cpu.aEjecutarPorKernel /\ u.aEjecutarDelPcb = n
  BY <1>3, <1>13 DEF CpuTipada
<1>15. u.fifo => u.aEjecutarPorKernel = 0
  BY <1>2, <1>3, <1>14 DEF Marchando, CpuTipada
<1>16. ~LlamaHaciaAtras => Alcanza(u, p)
  <2>1. ASSUME ~LlamaHaciaAtras PROVE Alcanza(u, p)
    <3>1. PICK l \in Seq(DOMAIN programa.codigo) : l = Lugares(p) /\ l # <<>>
      BY <1>3, <1>9, LugaresDe
    <3>2. EnAscenso(l)
      BY <1>1, <1>4, <1>8, <2>1, <3>1 DEF CuentaAlcanza
    <3>3. Faltan(l) <= n /\ Faltan(l) \in Nat
      BY <1>3, <1>11, <3>1, <3>2, FaltaLoQueHay, AlgoFalta
    <3>4. u.fifo => u.aEjecutarPorKernel + Faltan(l) <= u.aEjecutarDelPcb
      BY <1>14, <1>15, <3>3
    <3> QED
      BY <3>1, <3>2, <3>4 DEF Alcanza
  <2> QED
    BY <2>1
<1>17. CuentaAlcanza'
  BY <1>2, <1>5, <1>12, <1>16, AlcanzaSigue
<1>18. UnSoloPcb'
  BY <1>1, <1>12, <1>14 DEF UnSoloPcb
<1> QED
  BY <1>17, <1>18

\* The process goes back to the Kernel as it was, or it is over.
LEMMA CuentaAlDevolver ==
  ASSUME IInvCuenta, IInvPcb', finalizar \/ expropiar \/ expropiadoVoluntariamente \/ expropiarPorRR
  PROVE  CuentaAlcanza' /\ UnSoloPcb'
<1>1. IInvPcb /\ CuentaAlcanza /\ PcbEnUnLugar'
  BY DEF IInvCuenta, IInvPcb
<1>2. Activa(cpu) /\ UNCHANGED <<programa, canal>>
  BY DEF finalizar, expropiar, expropiadoVoluntariamente, expropiarPorRR, SinInterrupcion, Activa
<1>3. /\ programa \in Programas /\ CpuTipada(cpu)
      /\ pcb # Ninguno /\ canal = Ninguno /\ kernel.lista = "ejecucion"
      /\ PcbActual = pcb /\ pcb \in PcbDelPrograma
      /\ Terminado <=> Acabado(kernel, cpu)
  BY <1>1, <1>2, ElPcb
<1>4. PICK q, precedido, lista, libre :
        /\ Devolver(q, precedido, lista, libre)
        /\ lista # "terminados" => q = pcb /\ cpu.interrupcion \in {"ninguna", "semWait"}
  <2>1. CASE finalizar
    BY <2>1 DEF finalizar
  <2>2. CASE expropiar
    BY <2>2 DEF expropiar, ListaPara, Interrumpido
  <2>3. CASE expropiadoVoluntariamente
    BY <2>3 DEF expropiadoVoluntariamente
  <2>4. CASE expropiarPorRR
    BY <2>4 DEF expropiarPorRR, SinInterrupcion
  <2> QED
    BY <2>1, <2>2, <2>3, <2>4
<1>5. PICK k : k = kernel'
  OBVIOUS
<1>6. PICK u : u = cpu'
  OBVIOUS
<1>7. /\ pcb' = Ninguno /\ canal' = Ninguno
      /\ u = [cpu EXCEPT !.procesoFinalizado = TRUE, !.fase = "esperando"]
      /\ k = [kernel EXCEPT
           !.lista   = IF precedido = (kernel.espera = "orden") THEN lista ELSE "desincronizado",
           !.proceso = deserializarPcb(serializarPcb(q)),
           !.espera  = "orden",
           !.libre   = precedido = (kernel.espera = "orden") /\ libre]
  BY <1>2, <1>3, <1>4, <1>5, <1>6 DEF Devolver
<1>8. KernelTipado(kernel)
  BY <1>1, InvarianteAntes DEF Invariante
<1>9. /\ k.lista = IF precedido = (kernel.espera = "orden") THEN lista ELSE "desincronizado"
      /\ k.proceso = deserializarPcb(serializarPcb(q))
  BY <1>7, <1>8 DEF KernelTipado
<1>10. k.lista = lista \/ k.lista = "desincronizado"
  BY <1>9
<1>11. u.fase = "esperando"
  BY <1>3, <1>7 DEF CpuTipada
<1>12. CASE lista = "terminados" \/ k.lista = "desincronizado"
  <2>1. Terminado'
    BY <1>5, <1>10, <1>12 DEF Terminado
  <2>2. PICK p : p = PcbActual'
    OBVIOUS
  <2>3. CuentaAlcanza'
    BY <1>2, <1>6, <2>1, <2>2, AlcanzaSigue
  <2> QED
    BY <1>1, <1>7, <2>3 DEF UnSoloPcb
<1>13. CASE lista # "terminados" /\ k.lista # "desincronizado"
  <2>1. q = pcb /\ ~Terminado
    BY <1>3, <1>4, <1>13 DEF Acabado
  <2>2. deserializarPcb(serializarPcb(pcb)) = pcb
    BY <1>3, PcbViaja
  <2>3. PcbActual' = PcbActual
    BY <1>3, <1>5, <1>7, <1>9, <2>1, <2>2 DEF PcbActual
  <2>4. ~Activa(u)
    BY <1>11 DEF Activa
  <2>5. CuentaAlcanza'
    BY <1>1, <1>2, <1>6, <2>1, <2>3, <2>4, AlcanzaIgual
  <2> QED
    BY <1>1, <1>7, <2>5 DEF UnSoloPcb
<1> QED
  BY <1>12, <1>13

LEMMA CuentaAlEjecutar ==
  ASSUME IInvCuenta, IInvPcb', ejecutarInstruccion
  PROVE  CuentaAlcanza' /\ UnSoloPcb'
<1>1. IInvPcb /\ CuentaAlcanza /\ PcbEnUnLugar'
  BY DEF IInvCuenta, IInvPcb
<1>2. cpu.fase = "ejecutando" /\ programa' = programa
  BY DEF ejecutarInstruccion
<1>3. /\ programa \in Programas /\ CpuTipada(cpu) /\ cpu.interrupcion = "ninguna"
      /\ pcb # Ninguno /\ kernel.lista = "ejecucion" /\ PcbActual = pcb
      /\ pcb \in PcbDelPrograma /\ ~Terminado
  BY <1>1, <1>2, ElPcb DEF Activa, Marchando, Acabado
<1>4. PICK m, r, rechazo : UnPaso(m, r, rechazo)
  BY <1>1, UnaInstruccion
<1>5. PICK p : p = ConContador(r.pcb, r.pcb.programCounter + 1)
  OBVIOUS
<1>6. PICK u : u = cpu'
  OBVIOUS
<1>7. PICK n : n = Contado(cpu.aEjecutarPorKernel)
  OBVIOUS
<1>8. /\ m.pcb = pcb /\ m.aEjecutarDelPcb = cpu.aEjecutarDelPcb /\ Ejecutada(m, r, rechazo)
      /\ u = [cpu EXCEPT !.fase = "verificando", !.aEjecutarDelPcb = r.aEjecutarDelPcb,
                         !.interrupcion = r.interrupcion, !.aEjecutarPorKernel = n]
      /\ pcb' = p
  BY <1>4, <1>5, <1>6, <1>7 DEF UnPaso, ConContador
<1>9. /\ u.fase = "verificando" /\ u.aEjecutarDelPcb = r.aEjecutarDelPcb
      /\ u.interrupcion = r.interrupcion /\ u.aEjecutarPorKernel = n /\ u.fifo = cpu.fifo
  BY <1>3, <1>8 DEF CpuTipada
<1>10. p \in PcbDelPrograma /\ p # Ninguno /\ r.aEjecutarDelPcb \in Nat
  <2>1. r.pcb \in PcbDelPrograma /\ r.aEjecutarDelPcb \in Nat
    BY <1>8 DEF Ejecutada, Marcha
  <2>2. r.pcb.programCounter + 1 \in Int
    BY <2>1, PilaDelPcb
  <2>3. p \in PcbDelPrograma
    BY <1>5, <2>1, <2>2, PcbConContador
  <2> QED
    BY <2>1, <2>3, PcbAlgo
<1>11. PcbActual' = p
  BY <1>8, <1>10 DEF PcbActual
<1>12. PilaEnRutinas(pcb)
  BY <1>1, <1>3 DEF IInvPcb
<1>13. ASSUME ~LlamaHaciaAtras, ~Terminado' PROVE Alcanza(u, p)
  <2>1. r.interrupcion \in {"ninguna", "semWait"}
    BY <1>6, <1>8, <1>9, <1>10, <1>13 DEF Terminado, Condenado
  <2>2. PilaEnRutinas(p) /\ Cuenta(pcb, cpu.aEjecutarDelPcb, p, r.aEjecutarDelPcb)
    BY <1>5, <1>8, <2>1 DEF Ejecutada
  <2>3. Alcanza(cpu, pcb)
    BY <1>1, <1>3, <1>13, AlcanzaEs
  <2>4. /\ EnAscenso(Lugares(p))
        /\ Faltan(Lugares(p)) + 1 + cpu.aEjecutarDelPcb <=
             Faltan(Lugares(pcb)) + r.aEjecutarDelPcb
    BY <1>13, <2>2, <2>3 DEF Cuenta, Alcanza
  <2>5. PICK x \in Nat : x = Faltan(Lugares(p))
    BY <1>3, <1>10, <2>2, LugaresDe, AlgoFalta
  <2>6. PICK y \in Nat : y = Faltan(Lugares(pcb))
    BY <1>3, <1>12, LugaresDe, AlgoFalta
  <2>7. cpu.fifo => n + x <= r.aEjecutarDelPcb
    <3>1. PICK a \in Nat, b \in Nat, c \in Nat :
            /\ a = cpu.aEjecutarPorKernel /\ b = cpu.aEjecutarDelPcb /\ c = r.aEjecutarDelPcb
      BY <1>3, <1>10 DEF CpuTipada
    <3>2. cpu.fifo => n = a + 1 /\ a + y <= b
      BY <1>2, <1>7, <2>3, <2>6, <3>1 DEF Contado, Alcanza, Activa
    <3>3. x + 1 + b <= y + c
      BY <2>4, <2>5, <2>6, <3>1
    <3> QED
      BY <3>1, <3>2, <3>3
  <2> QED
    BY <1>9, <2>4, <2>5, <2>7 DEF Alcanza
<1>14. CuentaAlcanza'
  BY <1>2, <1>6, <1>11, <1>13, AlcanzaSigue
<1>15. UnSoloPcb'
  BY <1>1, <1>6, <1>9 DEF UnSoloPcb
<1> QED
  BY <1>14, <1>15

\* Without recursion the count of FIFO does not end before the process.
LEMMA CuentaAlAgotarse ==
  ASSUME IInvPcb, CuentaAlcanza, AgotarCuenta
  PROVE  LlamaHaciaAtras
<1>1. /\ cpu.fase = "verificando" /\ cpu.interrupcion = "ninguna" /\ cpu.fifo
      /\ ~(cpu.aEjecutarPorKernel < cpu.aEjecutarDelPcb)
  BY DEF AgotarCuenta, SinInterrupcion, QuedanInstrucciones
<1>2. /\ programa \in Programas /\ CpuTipada(cpu) /\ PcbActual \in PcbDelPrograma
      /\ ~Terminado
  BY <1>1, ElPcb DEF Activa, Acabado
<1>3. SUFFICES ASSUME ~LlamaHaciaAtras PROVE FALSE
  OBVIOUS
<1>4. PilaEnRutinas(PcbActual)
  BY <1>2 DEF IInvPcb
<1>5. PICK x \in Nat : x = Faltan(Lugares(PcbActual)) /\ x >= 1
  BY <1>2, <1>4, LugaresDe, AlgoFalta
<1>6. cpu.aEjecutarPorKernel + x <= cpu.aEjecutarDelPcb
  BY <1>1, <1>2, <1>3, <1>5 DEF CuentaAlcanza
<1>7. PICK a \in Nat, b \in Nat : a = cpu.aEjecutarPorKernel /\ b = cpu.aEjecutarDelPcb
  BY <1>2 DEF CpuTipada
<1> QED
  BY <1>1, <1>5, <1>6, <1>7

LEMMA CuentaAlSeguir ==
  ASSUME IInvCuenta, IInvPcb', Seguir \/ AgotarCuenta \/ signalHandler \/ cerrarTodo
  PROVE  CuentaAlcanza' /\ UnSoloPcb'
<1>1. IInvPcb /\ CuentaAlcanza /\ UnSoloPcb /\ PcbEnUnLugar'
  BY DEF IInvCuenta, IInvPcb
<1>2. UNCHANGED <<programa, kernel, canal, pcb>>
  BY DEF Seguir, AgotarCuenta, signalHandler, cerrarTodo
<1>3. /\ CpuTipada(cpu) /\ (Activa(cpu) => pcb # Ninguno /\ ~cpu.procesoFinalizado)
      /\ cpu.fase = "recibiendo" => pcb # Ninguno /\ cpu.procesoFinalizado
  BY <1>1, ElPcb
<1>4. PICK u : u = cpu'
  OBVIOUS
<1>5. /\ u.interrupcion = cpu.interrupcion /\ u.fifo = cpu.fifo
      /\ u.aEjecutarPorKernel = cpu.aEjecutarPorKernel
      /\ u.aEjecutarDelPcb = cpu.aEjecutarDelPcb
      /\ Activa(u) => Activa(cpu)
      /\ \/ u.fase = cpu.fase \/ u.fase = "ejecutando" \/ AgotarCuenta
         \/ u.fase = "cerrada" /\ u.procesoFinalizado
      /\ u.procesoFinalizado = cpu.procesoFinalizado
      /\ u.fase = "verificando" => cpu.fase = "verificando"
      /\ cpu.fase = "verificando" => u.fase = cpu.fase \/ cpu.interrupcion = "ninguna"
  <2>1. CASE Seguir
    <3>1. /\ u = [cpu EXCEPT !.fase = "ejecutando"]
          /\ cpu.fase = "verificando" /\ cpu.interrupcion = "ninguna"
      BY <1>4, <2>1 DEF Seguir, SinInterrupcion
    <3> QED
      BY <1>3, <3>1 DEF CpuTipada, Activa
  <2>2. CASE AgotarCuenta
    <3>1. PICK f \in {"cerrada", "esperando"} :
            u = [cpu EXCEPT !.fase = f] /\ cpu.interrupcion = "ninguna"
      BY <1>4, <2>2 DEF AgotarCuenta, SinInterrupcion
    <3> QED
      BY <1>3, <2>2, <3>1 DEF CpuTipada, Activa
  <2>3. CASE signalHandler
    <3>1. \/ u = [cpu EXCEPT !.fase = "cerrada"] /\ cpu.procesoFinalizado
          \/ u = [cpu EXCEPT !.cpuFinalizada = TRUE]
      BY <1>4, <2>3 DEF signalHandler
    <3> QED
      BY <1>3, <3>1 DEF CpuTipada, Activa
  <2>4. CASE cerrarTodo
    <3>1. u = [cpu EXCEPT !.fase = "cerrada"] /\ cpu.procesoFinalizado
      BY <1>4, <2>4 DEF cerrarTodo
    <3> QED
      BY <1>3, <3>1 DEF CpuTipada, Activa
  <2> QED
    BY <2>1, <2>2, <2>3, <2>4
<1>6. PcbActual' = PcbActual
  BY <1>2 DEF PcbActual
<1>7. Terminado' <=> Terminado
  <2>1. (u.fase = "verificando" /\ u.interrupcion \notin {"ninguna", "semWait"}) <=> Condenado
    BY <1>5 DEF Condenado
  <2> QED
    BY <1>2, <1>4, <2>1 DEF Terminado, Condenado
<1>8. CuentaAlcanza' /\ (LlamaHaciaAtras' <=> LlamaHaciaAtras)
  BY <1>1, <1>2, <1>4, <1>5, <1>6, <1>7, AlcanzaIgual
<1>9. (cpu.fifo /\ ~QuedanInstrucciones)' <=> (cpu.fifo /\ ~QuedanInstrucciones)
  BY <1>4, <1>5 DEF QuedanInstrucciones
<1>10. PuedeAgotarse' <=> PuedeAgotarse
  BY <1>8, <1>9 DEF PuedeAgotarse
<1>11. AgotarCuenta => PuedeAgotarse
  BY <1>1, CuentaAlAgotarse DEF AgotarCuenta, PuedeAgotarse
<1>12. UnSoloPcb'
  <2>1. pcb = Ninguno \/ \/ u.fase \in {"recibiendo", "ejecutando", "verificando"}
                         \/ u.fase = "cerrada" /\ u.procesoFinalizado
                         \/ PuedeAgotarse
    BY <1>1, <1>5, <1>11 DEF UnSoloPcb
  <2> QED
    BY <1>1, <1>2, <1>4, <1>10, <2>1 DEF UnSoloPcb
<1> QED
  BY <1>8, <1>12

\* The steps of the Kernel, of a new CPU, and none: no CPU that has the PCB changes.
LEMMA CuentaEnElKernel ==
  ASSUME IInvCuenta, IInvPcb', CpuTipada(cpu),
         programa' = programa, pcb' = pcb, cpu' = cpu \/ (pcb = Ninguno /\ ~Activa(cpu')),
         PcbActual' = PcbActual \/ Terminado', Terminado => Terminado'
  PROVE  CuentaAlcanza' /\ UnSoloPcb'
<1>1. CuentaAlcanza /\ UnSoloPcb /\ PcbEnUnLugar'
  BY DEF IInvCuenta, IInvPcb
<1>2. PICK u : u = cpu'
  OBVIOUS
<1>3. CuentaAlcanza' /\ (LlamaHaciaAtras' <=> LlamaHaciaAtras)
  <2>1. CASE PcbActual' = PcbActual
    <3>1. Activa(u) => u = cpu
      BY <1>2
    <3> QED
      BY <1>1, <1>2, <2>1, <3>1, AlcanzaIgual
  <2>2. CASE Terminado'
    <3>1. PICK p : p = PcbActual'
      OBVIOUS
    <3> QED
      BY <1>2, <2>2, <3>1, AlcanzaSigue
  <2> QED
    BY <2>1, <2>2
<1>4. pcb # Ninguno => (PuedeAgotarse' <=> PuedeAgotarse)
  BY <1>3 DEF PuedeAgotarse, QuedanInstrucciones
<1> QED
  BY <1>1, <1>3, <1>4 DEF UnSoloPcb

LEMMA CuentaAlMoverse ==
  ASSUME IInvCuenta, IInvPcb', ConectarCPU \/ Despachar \/ Desbloquear \/ Matar \/ VerCierre \/ UNCHANGED vars
  PROVE  CuentaAlcanza' /\ UnSoloPcb'
<1>1. IInvPcb
  BY DEF IInvCuenta
<1>2. /\ programa \in Programas /\ PcbActual \in PcbDelPrograma
      /\ PcbActual = Actual(kernel, canal, pcb) /\ CpuTipada(cpu)
      /\ EnUno(kernel.proceso, canal, pcb)
      /\ (kernel.lista = "ejecucion") = (kernel.proceso = Ninguno)
      /\ Activa(cpu) => pcb # Ninguno
  BY <1>1, ElPcb
<1>3. KernelTipado(kernel)
  BY <1>1, InvarianteAntes DEF Invariante
<1>4. PICK k : k = kernel'
  OBVIOUS
<1>5. CASE ConectarCPU
  <2>1. /\ k = [kernel EXCEPT !.libre = TRUE] /\ cpu' = CPUNueva /\ pcb = Ninguno
        /\ UNCHANGED <<programa, canal, pcb>> /\ cpu.fase = "cerrada"
    BY <1>4, <1>5 DEF ConectarCPU
  <2>2. k.lista = kernel.lista /\ k.proceso = kernel.proceso
    BY <1>3, <2>1 DEF KernelTipado
  <2>3. PcbActual' = PcbActual /\ (Terminado => Terminado') /\ ~Activa(cpu')
    BY <1>4, <2>1, <2>2 DEF PcbActual, Terminado, Condenado, Activa, CPUNueva
  <2> QED
    BY <1>2, <2>1, <2>3, CuentaEnElKernel
<1>6. CASE Despachar
  <2>1. /\ kernel.lista = "listos" /\ UNCHANGED <<programa, cpu, pcb>>
        /\ k = [kernel EXCEPT !.lista = "ejecucion", !.proceso = Ninguno, !.libre = FALSE]
    BY <1>4, <1>6 DEF Despachar
  <2>2. canal = Ninguno /\ pcb = Ninguno /\ PcbActual = kernel.proceso
    BY <1>2, <2>1 DEF EnUno, Actual
  <2>3. PICK q \in Cuantos, p \in PcbDelPrograma :
          p = PcbActual /\ canal' = [quantum |-> q, campos |-> serializarPcb(p)]
    BY <1>2, <1>6, <2>2 DEF Despachar
  <2>4. canal' # Ninguno /\ canal'.campos = serializarPcb(p)
    <3>1. "quantum" \in DOMAIN [quantum |-> q, campos |-> serializarPcb(p)] /\ DOMAIN Ninguno = {}
      BY CPUAssumption
    <3> QED
      BY <2>3, <3>1
  <2>5. deserializarPcb(serializarPcb(p)) = p
    BY <1>2, PcbViaja
  <2>6. PcbActual' = PcbActual
    BY <2>1, <2>2, <2>3, <2>4, <2>5 DEF PcbActual
  <2>7. ~Terminado
    BY <1>2, <2>1, <2>2 DEF Terminado, Condenado, Activa
  <2> QED
    BY <1>2, <2>1, <2>6, <2>7, CuentaEnElKernel
<1>7. CASE Desbloquear \/ VerCierre \/ (Matar /\ kernel.lista = "ejecucion")
  <2>1. /\ UNCHANGED <<programa, canal, cpu, pcb>>
        /\ \/ k = [kernel EXCEPT !.lista = "listos"] /\ kernel.lista = "bloqueados"
           \/ k = [kernel EXCEPT !.libre = FALSE]
           \/ k = [kernel EXCEPT !.interrumpido = TRUE]
    BY <1>4, <1>7 DEF Desbloquear, VerCierre, Matar
  <2>2. k.proceso = kernel.proceso /\ (kernel.lista \in {"terminados", "desincronizado"} => k.lista = kernel.lista)
    BY <1>3, <2>1 DEF KernelTipado
  <2>3. PcbActual' = PcbActual /\ (Terminado => Terminado')
    BY <1>4, <2>1, <2>2 DEF PcbActual, Terminado, Condenado
  <2> QED
    BY <1>2, <2>1, <2>3, CuentaEnElKernel
<1>8. CASE Matar /\ kernel.lista # "ejecucion"
  <2>1. /\ UNCHANGED <<programa, canal, cpu, pcb>>
        /\ k = [kernel EXCEPT !.lista = "terminados", !.proceso = ConCodigo(@, CodigoMuerte)]
    BY <1>4, <1>8 DEF Matar
  <2>2. k.lista = "terminados"
    BY <1>3, <2>1 DEF KernelTipado
  <2>3. Terminado'
    BY <1>4, <2>2 DEF Terminado
  <2> QED
    BY <1>2, <2>1, <2>3, CuentaEnElKernel
<1>9. CASE UNCHANGED vars
  <2>1. PcbActual' = PcbActual /\ (Terminado => Terminado') /\ UNCHANGED <<programa, cpu, pcb>>
    BY <1>9 DEF vars, PcbActual, Terminado, Condenado
  <2> QED
    BY <1>2, <2>1, CuentaEnElKernel
<1> QED
  BY <1>5, <1>6, <1>7, <1>8, <1>9

LEMMA CuentaAlEmpezar == Init => CuentaAlcanza /\ UnSoloPcb
<1> SUFFICES ASSUME Init PROVE CuentaAlcanza /\ UnSoloPcb
  OBVIOUS
<1>1. /\ programa \in Programas /\ canal = Ninguno /\ cpu = CPUNueva /\ pcb = Ninguno
      /\ kernel = [lista |-> "listos", proceso |-> crearPcb(1, programa, TamPagina),
                   espera |-> "orden", libre |-> TRUE, interrumpido |-> FALSE]
  BY DEF Init
<1>2. PICK p : p = PcbActual
  OBVIOUS
<1>3. p.indiceStack = <<>>
  BY <1>1, <1>2, PcbNuevo DEF PcbActual
<1>4. EnAscenso(Lugares(p))
  <2>1. PICK l : l = Lugares(p) /\ l = <<p.programCounter + 1>>
    BY <1>3 DEF Lugares
  <2>2. Len(l) = 1
    BY <2>1
  <2>3. 1..(Len(l) - 1) = {}
    BY <2>2
  <2> QED
    BY <2>1, <2>3 DEF EnAscenso
<1>5. cpu.fase = "esperando"
  BY <1>1 DEF CPUNueva
<1>6. CuentaAlcanza
  BY <1>2, <1>4, <1>5 DEF CuentaAlcanza
<1>7. IInvPcb
  BY AlEmpezar
<1> QED
  BY <1>1, <1>6, <1>7 DEF IInvPcb, UnSoloPcb

-----------------------------------------------------------------------------
\* CuentaAlcanza counts, for FIFO, what each frame of the stack has left until its routine
\* ends: without recursion a call goes on after the routines that wait for it, so what is
\* left is never more than the code, and each jump and each call adds more to the count
\* than what it puts before the end.
THEOREM CPUAlcanzaElFinal == Spec => []IInvCuenta
<1>1. Init => CuentaAlcanza /\ UnSoloPcb
  BY CuentaAlEmpezar
<1>2. IInvPcb /\ IInvPcb' /\ CuentaAlcanza /\ UnSoloPcb /\ [Next]_vars =>
        CuentaAlcanza' /\ UnSoloPcb'
  <2> SUFFICES ASSUME IInvPcb, IInvPcb', CuentaAlcanza, UnSoloPcb, [Next]_vars
               PROVE  CuentaAlcanza' /\ UnSoloPcb'
    OBVIOUS
  <2>0. IInvCuenta
    BY DEF IInvCuenta
  <2>1. CASE recibirPCB
    BY <2>0, <2>1, CuentaAlRecibir
  <2>6. CASE EjecutarProgramaMedianteAlgoritmo
    BY <2>0, <2>6, CuentaAlArrancar
  <2>2. CASE finalizar \/ expropiar \/ expropiadoVoluntariamente \/ expropiarPorRR
    BY <2>0, <2>2, CuentaAlDevolver
  <2>3. CASE ejecutarInstruccion
    BY <2>0, <2>3, CuentaAlEjecutar
  <2>4. CASE Seguir \/ AgotarCuenta \/ signalHandler \/ cerrarTodo
    BY <2>0, <2>4, CuentaAlSeguir
  <2>5. CASE ConectarCPU \/ Despachar \/ Desbloquear \/ Matar \/ VerCierre \/ UNCHANGED vars
    BY <2>0, <2>5, CuentaAlMoverse
  <2> QED
    BY <2>1, <2>2, <2>3, <2>4, <2>5, <2>6 DEF Next
<1>3. IInvCuenta <=> IInvPcb /\ CuentaAlcanza /\ UnSoloPcb
  BY DEF IInvCuenta
<1> QED
  BY <1>1, <1>2, <1>3, CPUEnSuPrograma, PTL DEF Spec

\* A CPU that has started a process gives it back before it waits for another or closes,
\* whenever the signal came since: only recursion lets the count of FIFO end before the
\* program does.  A CPU closes with a process that it has not started yet.
THEOREM CPUDevuelveElPcb == Spec => []UnSoloPcb
<1>1. IInvCuenta => UnSoloPcb
  BY DEF IInvCuenta
<1> QED
  BY <1>1, CPUAlcanzaElFinal, PTL

\* The Kernel that waits for a PCB without an order is sent one so, by the CPU that its
\* refusal interrupted, and reads no PCB for an order, but after an alocar, whose answer may
\* have no value, and an abrir that the assignment that follows it takes the place of.
THEOREM KernelNuncaDesincronizado == Spec => []KernelAtendido
<1>1. IInvPcb => KernelAtendido
  BY DEF IInvPcb
<1> QED
  BY <1>1, CPUEnSuPrograma, PTL

\* definirVariable gives no value the place of another one that is alive, whatever the
\* calls that returned before.
THEOREM PilaSinSolapar == Spec => []SinSolapar
<1>1. IInvPcb => SinSolapar
  BY DEF IInvPcb
<1> QED
  BY <1>1, CPUEnSuPrograma, PTL

\* serializarPCB fills the buffer of calcularPcbSerializadoSize to its last byte.
THEOREM BufferExacto == Spec => []TamanioExacto
<1>1. IInvPcb => TamanioExacto
  <2>1. ASSUME IInvPcb PROVE TamanioExacto
    <3>1. programa \in Programas
      BY <2>1 DEF IInvPcb, TiposCPU
    <3>2. PICK p \in PcbDelPrograma : p = PcbActual
      BY <2>1 DEF IInvPcb, TiposCPU
    <3>3. calcularPcbSerializadoSize(p) = BytesDe(serializarPcb(p))
      BY <3>1, PcbViaja
    <3> QED
      BY <3>2, <3>3 DEF TamanioExacto
  <2> QED
    BY <2>1
<1> QED
  BY <1>1, CPUEnSuPrograma, PTL

\* Whatever the CPU or the Kernel has made of the PCB, the other side reads from its
\* message the same one.
THEOREM PcbLlegaEntero == Spec => [](deserializarPcb(serializarPcb(PcbActual)) = PcbActual)
<1>1. IInvPcb => deserializarPcb(serializarPcb(PcbActual)) = PcbActual
  <2>1. ASSUME IInvPcb PROVE deserializarPcb(serializarPcb(PcbActual)) = PcbActual
    <3>1. programa \in Programas
      BY <2>1 DEF IInvPcb, TiposCPU
    <3>2. PICK p \in PcbDelPrograma : p = PcbActual
      BY <2>1 DEF IInvPcb, TiposCPU
    <3>3. deserializarPcb(serializarPcb(p)) = p
      BY <3>1, PcbViaja
    <3> QED
      BY <3>2, <3>3
  <2> QED
    BY <2>1
<1> QED
  BY <1>1, CPUEnSuPrograma, PTL
=============================================================================
