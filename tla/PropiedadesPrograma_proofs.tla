---------------------- MODULE PropiedadesPrograma_proofs ----------------------
(***************************************************************************)
(* The CPU implements the program it runs (ProgramaAnsisop), for every     *)
(* value of the constants.  The frames of the program are names with       *)
(* values; those of the PCB are names with addresses, and the values are   *)
(* in the pages of the stack, one after the other: where each name has its *)
(* value in its place, every instruction of the CPU is that step of the    *)
(* program, whatever moves the process between instructions is none, and   *)
(* the ends are the same.                                                  *)
(***************************************************************************)
EXTENDS PropiedadesCPU_proofs

-----------------------------------------------------------------------------
(* The frames of the program: names, where they are and what they have.    *)

\* A frame of a process: one argument or none, and no name twice.
NodoClaro(nodo) ==
  /\ nodo \in Nodo /\ Len(nodo.args) <= 1
  /\ \A v, w \in DOMAIN nodo.vars : nodo.vars[v].idVar = nodo.vars[w].idVar => v = w

PilaClara(pila) ==
  pila \in Seq(Nodo) /\ EnOrden(pila) /\ \A k \in DOMAIN pila : NodoClaro(pila[k])

NombreDe(nodo, i) ==
  IF i <= Len(nodo.args) THEN Argumentos[i] ELSE nodo.vars[i - Len(nodo.args)].idVar

PosicionEn(nodo, n) == PunteroDe(DireccionEn(nodo, n))

LEMMA NombresDelNodo ==
  ASSUME NEW nodo, NodoClaro(nodo)
  PROVE  /\ \A i \in DOMAIN DireccionesDe(nodo) :
              /\ NombreDe(nodo, i) \in NombresDe(nodo)
              /\ DireccionEn(nodo, NombreDe(nodo, i)) = DireccionesDe(nodo)[i]
         /\ \A n \in NombresDe(nodo) : \E i \in DOMAIN DireccionesDe(nodo) : NombreDe(nodo, i) = n
         /\ \A i, j \in DOMAIN DireccionesDe(nodo) : NombreDe(nodo, i) = NombreDe(nodo, j) => i = j
         /\ NombresDe(nodo) \subseteq Nombres
<1>1. PICK a \in Nat, b \in Nat :
        /\ a = Len(nodo.args) /\ b = Len(nodo.vars) /\ a <= 1
        /\ DOMAIN nodo.args = 1..a /\ DOMAIN nodo.vars = 1..b
        /\ nodo.vars \in Seq(VarsDeNodo)
        /\ DOMAIN DireccionesDe(nodo) = 1..(a + b)
        /\ \A i \in 1..a : DireccionesDe(nodo)[i] = nodo.args[i]
        /\ \A i \in 1..b : DireccionesDe(nodo)[a + i] = nodo.vars[i].dirVar
  BY NodoTipado, DireccionesDelNodo DEF NodoClaro
<1>2. Argumentos[1] \in ToSet(Argumentos) /\ Argumentos[1] \in Nombres
  BY PrimerArgumento, ValoresAssumption
<1>3. \A v \in 1..b : nodo.vars[v].idVar \in Nombres \ ToSet(Argumentos)
  <2>1. \A v \in 1..b : nodo.vars[v] \in VarsDeNodo
    BY <1>1
  <2> QED
    BY <2>1 DEF VarsDeNodo
<1>4. \A v, w \in 1..b : nodo.vars[v].idVar = nodo.vars[w].idVar => v = w
  BY <1>1 DEF NodoClaro
<1>5. ASSUME NEW i \in 1..(a + b)
      PROVE  \/ i = 1 /\ a = 1 /\ NombreDe(nodo, i) = Argumentos[1]
                /\ DireccionesDe(nodo)[i] = nodo.args[1]
             \/ \E v \in 1..b : /\ i = a + v /\ NombreDe(nodo, i) = nodo.vars[v].idVar
                                /\ DireccionesDe(nodo)[i] = nodo.vars[v].dirVar
  <2>1. CASE i <= a
    <3>1. i = 1 /\ a = 1
      <4>1. a <= 1 /\ a \in Nat /\ b \in Nat /\ i \in 1..(a + b)
        BY <1>1
      <4> QED
        BY ONLY <2>1, <4>1
    <3> QED
      BY <1>1, <2>1, <3>1 DEF NombreDe
  <2>2. CASE ~(i <= a)
    <3>1. i - a \in 1..b /\ i = a + (i - a)
      BY <2>2
    <3> QED
      BY <1>1, <2>2, <3>1 DEF NombreDe
  <2> QED
    BY <2>1, <2>2
<1>6. NombresDe(nodo) = {Argumentos[i] : i \in 1..a} \cup {nodo.vars[i].idVar : i \in 1..b}
  BY <1>1 DEF NombresDe
<1>7. ASSUME NEW v \in 1..b
      PROVE  DireccionEn(nodo, nodo.vars[v].idVar) = nodo.vars[v].dirVar
  <2>1. nodo.vars[v] \in ToSet(nodo.vars)
    BY <1>1 DEF ToSet
  <2>2. \A x \in ToSet(nodo.vars) : x.idVar = nodo.vars[v].idVar => x = nodo.vars[v]
    BY <1>1, <1>4 DEF ToSet
  <2>3. (CHOOSE x \in ToSet(nodo.vars) : x.idVar = nodo.vars[v].idVar) = nodo.vars[v]
    BY <2>1, <2>2
  <2> QED
    BY <1>3, <2>3 DEF DireccionEn
<1>8. a = 1 => DireccionEn(nodo, Argumentos[1]) = nodo.args[1]
  <2>1. ASSUME a = 1 PROVE DireccionEn(nodo, Argumentos[1]) = nodo.args[1]
    <3>1. DOMAIN nodo.args = {1}
      BY <1>1, <2>1
    <3>2. (CHOOSE i \in DOMAIN nodo.args : Argumentos[i] = Argumentos[1]) = 1
      BY <3>1
    <3> QED
      BY <1>2, <3>2 DEF DireccionEn
  <2> QED
    BY <2>1
<1>9. \A i \in 1..(a + b) : NombreDe(nodo, i) \in NombresDe(nodo)
                             /\ DireccionEn(nodo, NombreDe(nodo, i)) = DireccionesDe(nodo)[i]
  BY <1>5, <1>6, <1>7, <1>8
<1>10. ASSUME NEW n \in NombresDe(nodo) PROVE \E i \in 1..(a + b) : NombreDe(nodo, i) = n
  <2>1. CASE \E i \in 1..a : n = Argumentos[i]
    <3>1. PICK i \in 1..a : n = Argumentos[i]
      BY <2>1
    <3>2. a = 1 /\ i = 1 /\ 1 \in 1..(a + b)
      <4>1. a <= 1 /\ a \in Nat /\ b \in Nat /\ i \in 1..a
        BY <1>1, <3>1
      <4> QED
        BY ONLY <4>1
    <3> QED
      BY <1>1, <3>1, <3>2 DEF NombreDe
  <2>2. CASE \E v \in 1..b : n = nodo.vars[v].idVar
    <3>1. PICK v \in 1..b : n = nodo.vars[v].idVar
      BY <2>2
    <3>2. a + v \in 1..(a + b) /\ ~(a + v <= a) /\ (a + v) - a = v
      OBVIOUS
    <3> QED
      BY <1>1, <3>1, <3>2 DEF NombreDe
  <2> QED
    BY <1>6, <2>1, <2>2
<1>11. ASSUME NEW i \in 1..(a + b), NEW j \in 1..(a + b), NombreDe(nodo, i) = NombreDe(nodo, j)
       PROVE  i = j
  BY <1>2, <1>3, <1>4, <1>5, <1>11
<1>12. NombresDe(nodo) \subseteq Nombres
  BY <1>1, <1>2, <1>3, <1>6
<1> QED
  BY <1>1, <1>9, <1>10, <1>11, <1>12

LEMMA DireccionTipada ==
  ASSUME NEW nodo \in Nodo, NEW i \in DOMAIN DireccionesDe(nodo)
  PROVE  DireccionesDe(nodo)[i] \in DireccionDeValor /\ i \in Nat
<1>1. DireccionesDe(nodo) \in Seq(DireccionDeValor)
  BY DireccionesDelNodo
<1> QED
  BY ONLY <1>1, i \in DOMAIN DireccionesDe(nodo)

\* Two names, or the same in two frames, are four bytes apart.
LEMMA NombresAparte ==
  ASSUME NEW pila, PilaClara(pila), NEW k \in DOMAIN pila, NEW l \in DOMAIN pila,
         NEW n \in NombresDe(pila[k]), NEW o \in NombresDe(pila[l]),
         NEW a, NEW b, a = PosicionEn(pila[k], n), b = PosicionEn(pila[l], o)
  PROVE  /\ a \in Int /\ b \in Int
         /\ (k = l /\ n = o) \/ a + 4 <= b \/ b + 4 <= a
<1>1. NodoClaro(pila[k]) /\ NodoClaro(pila[l]) /\ EnOrden(pila) /\ k \in Nat /\ l \in Nat
  BY DEF PilaClara
<1>2. PICK i \in DOMAIN DireccionesDe(pila[k]) :
        NombreDe(pila[k], i) = n /\ a = PunteroDe(DireccionesDe(pila[k])[i])
  BY <1>1, NombresDelNodo DEF PosicionEn
<1>3. PICK j \in DOMAIN DireccionesDe(pila[l]) :
        NombreDe(pila[l], j) = o /\ b = PunteroDe(DireccionesDe(pila[l])[j])
  BY <1>1, NombresDelNodo DEF PosicionEn
<1>4. i \in Nat /\ j \in Nat /\ DireccionesDe(pila[k])[i] \in DireccionDeValor
      /\ DireccionesDe(pila[l])[j] \in DireccionDeValor
  BY <1>1, <1>2, <1>3, DireccionTipada DEF NodoClaro
<1>5. a \in Int /\ b \in Int
  BY <1>2, <1>3, <1>4, PunteroEntero DEF DireccionDeValor
<1>6. /\ k < l \/ (k = l /\ i < j) => a + 4 <= b
      /\ l < k \/ (l = k /\ j < i) => b + 4 <= a
  BY <1>1, <1>2, <1>3 DEF EnOrden
<1>7. k = l /\ i = j => n = o
  BY <1>2, <1>3
<1> QED
  BY <1>1, <1>4, <1>5, <1>6, <1>7

LEMMA NombreEnPaginas ==
  ASSUME programa \in Programas, NEW p \in PcbDelPrograma, NEW pila, PilaClara(pila),
         NEW k \in DOMAIN pila, NEW n \in NombresDe(pila[k]), NEW a, a = PosicionEn(pila[k], n)
  PROVE  EnPaginas(p, a) /\ a \in Nat
<1>1. NodoClaro(pila[k]) /\ EnOrden(pila)
  BY DEF PilaClara
<1>2. PICK i \in DOMAIN DireccionesDe(pila[k]) : a = PunteroDe(DireccionesDe(pila[k])[i])
  BY <1>1, NombresDelNodo DEF PosicionEn
<1>3. PICK dir \in DireccionDeValor : dir = DireccionesDe(pila[k])[i]
  BY <1>1, <1>2, DireccionTipada DEF NodoClaro
<1>4. dir.offset + 4 <= TamPagina /\ dir.pagina \in PaginasDeCodigo..(PaginasTotales - 1)
  BY <1>1, <1>2, <1>3 DEF EnOrden
<1>5. EnPaginas(p, a)
  BY <1>2, <1>3, <1>4, ValorEnPaginas
<1> QED
  BY <1>5 DEF EnPaginas

LEMMA ValorGuardado ==
  ASSUME NEW mem, MemoriaTipada(mem), NEW a \in Nat, NEW v \in Valores,
         NEW mem2, mem2 = ConValor(mem, a, v)
  PROVE  /\ MemoriaTipada(mem2) /\ ValorEn(mem2, a) = v
         /\ \A b \in Int : b + 4 <= a \/ a + 4 <= b => ValorEn(mem2, b) = ValorEn(mem, b)
<1>1. DOMAIN mem \subseteq Nat /\ \A q \in DOMAIN mem : mem[q] \in Valores
  BY DEF MemoriaTipada
<1>2. /\ DOMAIN mem2 = {k \in DOMAIN mem : k <= a - 4 \/ k >= a + 4} \cup {a}
      /\ \A q \in DOMAIN mem2 : mem2[q] = IF q = a THEN v ELSE mem[q]
  BY DEF ConValor
<1>3. MemoriaTipada(mem2)
  BY <1>1, <1>2 DEF MemoriaTipada
<1>4. ValorEn(mem2, a) = v
  BY <1>2 DEF ValorEn
<1>5. ASSUME NEW b \in Int, b + 4 <= a \/ a + 4 <= b
      PROVE  ValorEn(mem2, b) = ValorEn(mem, b)
  <2>1. b # a /\ (b \in DOMAIN mem2 <=> b \in DOMAIN mem)
    BY <1>1, <1>2, <1>5
  <2> QED
    BY <1>2, <2>1 DEF ValorEn
<1> QED
  BY <1>3, <1>4, <1>5

LEMMA ValorConocido ==
  ASSUME NEW mem, MemoriaTipada(mem), NEW b
  PROVE  ValorEn(mem, b) \in Valores
BY ValoresAssumption DEF MemoriaTipada, ValorEn

-----------------------------------------------------------------------------
(* The frames of the program that a stack and a memory are.                *)

ValoresDelNodo(nodo, mem) == [n \in NombresDe(nodo) |-> ValorEn(mem, PosicionEn(nodo, n))]

Marco(pila, mem, i) ==
  [valores |-> ValoresDelNodo(pila[i], mem), vuelve |-> pila[i].retPos,
   en |-> DestinoDe(pila, i)]

MarcosEn(pila, mem) == [i \in DOMAIN pila |-> Marco(pila, mem, i)]

LEMMA MarcosSon == \A pila : MarcosDe(pila) = MarcosEn(pila, memoria)
BY DEF MarcosDe, MarcosEn, Marco, ValoresDelNodo, PosicionEn

LEMMA MarcosConValor ==
  ASSUME NEW pila, PilaClara(pila), NEW t \in DOMAIN pila, NEW n \in NombresDe(pila[t]),
         NEW mem, MemoriaTipada(mem), NEW v \in Valores, NEW a, a = PosicionEn(pila[t], n),
         a \in Nat, NEW mem2, mem2 = ConValor(mem, a, v)
  PROVE  MarcosEn(pila, mem2) = [MarcosEn(pila, mem) EXCEPT ![t].valores[n] = v]
<1>1. /\ ValorEn(mem2, a) = v
      /\ \A b \in Int : b + 4 <= a \/ a + 4 <= b => ValorEn(mem2, b) = ValorEn(mem, b)
  BY ValorGuardado
<1>2. ASSUME NEW k \in DOMAIN pila, NEW o \in NombresDe(pila[k])
      PROVE  ValorEn(mem2, PosicionEn(pila[k], o)) =
               IF k = t /\ o = n THEN v ELSE ValorEn(mem, PosicionEn(pila[k], o))
  <2>1. PICK b : b = PosicionEn(pila[k], o)
    OBVIOUS
  <2>2. b \in Int /\ ((k = t /\ o = n) \/ b + 4 <= a \/ a + 4 <= b)
    BY <2>1, NombresAparte
  <2> QED
    BY <1>1, <2>1, <2>2
<1>3. ASSUME NEW k \in DOMAIN pila
      PROVE  ValoresDelNodo(pila[k], mem2) =
               IF k = t THEN [ValoresDelNodo(pila[k], mem) EXCEPT ![n] = v]
               ELSE ValoresDelNodo(pila[k], mem)
  BY <1>2 DEF ValoresDelNodo
<1>4. ASSUME NEW k \in DOMAIN pila
      PROVE  Marco(pila, mem2, k) =
               IF k = t THEN [Marco(pila, mem, k) EXCEPT !.valores[n] = v] ELSE Marco(pila, mem, k)
  BY <1>3 DEF Marco
<1> QED
  BY <1>4 DEF MarcosEn

-----------------------------------------------------------------------------
(* The values of a stack, one after the other.                             *)

Ocupados(pila) == Cardinality(ValoresEnPila(pila))

Numero(dir) == (dir.pagina - PaginasDeCodigo) * PorPagina + dir.offset \div 4

Numerada(pila) ==
  \A n \in DOMAIN pila : \A i \in DOMAIN DireccionesDe(pila[n]) :
    /\ DireccionesDe(pila[n])[i].offset % 4 = 0
    /\ Numero(DireccionesDe(pila[n])[i]) = Cardinality(Anteriores(pila, <<n, i>>))

LEMMA ValoresSon ==
  ASSUME NEW pila
  PROVE  /\ \A n, i : <<n, i>> \in ValoresEnPila(pila) <=>
                        n \in DOMAIN pila /\ i \in DOMAIN DireccionesDe(pila[n])
         /\ \A x \in ValoresEnPila(pila) : \E n \in DOMAIN pila :
              \E i \in DOMAIN DireccionesDe(pila[n]) : x = <<n, i>>
BY DEF ValoresEnPila

LEMMA AnterioresSon ==
  ASSUME NEW pila, NEW n, NEW i
  PROVE  Anteriores(pila, <<n, i>>)
           = {y \in ValoresEnPila(pila) : y[1] < n \/ (y[1] = n /\ y[2] < i)}
BY DEF Anteriores

LEMMA EnFilaEs ==
  ASSUME NEW p \in PcbDelPrograma
  PROVE  EnFila(p) <=> Numerada(p.indiceStack)
<1>1. p.cantidadPaginasCodigo = PaginasDeCodigo
  BY PaginasDelPcb
<1>2. \A dir : NumeroDe(p, dir) = Numero(dir)
  BY <1>1 DEF NumeroDe, Numero
<1>3. PICK pila : pila = p.indiceStack
  OBVIOUS
<1>4. EnFila(p) <=> \A x \in ValoresEnPila(pila) :
        /\ DireccionesDe(pila[x[1]])[x[2]].offset % 4 = 0
        /\ Numero(DireccionesDe(pila[x[1]])[x[2]]) = Cardinality(Anteriores(pila, x))
  BY <1>2, <1>3 DEF EnFila
<1>5. \A x \in ValoresEnPila(pila) : \E n \in DOMAIN pila :
        \E i \in DOMAIN DireccionesDe(pila[n]) : x = <<n, i>> /\ x[1] = n /\ x[2] = i
  BY ValoresSon
<1>6. \A n \in DOMAIN pila : \A i \in DOMAIN DireccionesDe(pila[n]) : <<n, i>> \in ValoresEnPila(pila)
  BY ValoresSon
<1>7. EnFila(p) => Numerada(pila)
  <2> SUFFICES ASSUME EnFila(p), NEW n \in DOMAIN pila, NEW i \in DOMAIN DireccionesDe(pila[n])
               PROVE  /\ DireccionesDe(pila[n])[i].offset % 4 = 0
                      /\ Numero(DireccionesDe(pila[n])[i]) = Cardinality(Anteriores(pila, <<n, i>>))
    BY DEF Numerada
  <2>1. PICK x : x = <<n, i>>
    OBVIOUS
  <2>2. x \in ValoresEnPila(pila) /\ x[1] = n /\ x[2] = i
    BY <1>6, <2>1
  <2> QED
    BY <1>4, <2>1, <2>2
<1>8. Numerada(pila) => EnFila(p)
  BY <1>4, <1>5 DEF Numerada
<1> QED
  BY <1>3, <1>7, <1>8

LEMMA ValoresFinitos ==
  ASSUME NEW pila \in Seq(Nodo)
  PROVE  IsFiniteSet(ValoresEnPila(pila)) /\ Ocupados(pila) \in Nat
<1>1. PICK t \in Nat : t = Len(pila) /\ DOMAIN pila = 1..t
  OBVIOUS
<1> DEFINE grupo == [n \in 1..t |-> {n} \X DOMAIN DireccionesDe(pila[n])]
           G == {{n} \X DOMAIN DireccionesDe(pila[n]) : n \in 1..t}
<1>2. grupo \in Surjection(1..t, G)
  BY DEF Surjection
<1>3. IsFiniteSet(1..t)
  BY FS_Interval
<1>4. IsFiniteSet(G)
  <2> HIDE DEF grupo, G
  <2> QED
    BY <1>2, <1>3, FS_Surjection
<1>5. ASSUME NEW n \in 1..t PROVE IsFiniteSet({n} \X DOMAIN DireccionesDe(pila[n]))
  <2>1. PICK nodo \in Nodo : nodo = pila[n]
    BY <1>1
  <2>2. PICK k : k \in Nat /\ DOMAIN DireccionesDe(nodo) = 1..k
    <3>1. DireccionesDe(nodo) \in Seq(DireccionDeValor)
      BY DireccionesDelNodo
    <3> QED
      BY <3>1
  <2>3. IsFiniteSet(1..k) /\ IsFiniteSet({n})
    <3>1. 1 \in Int /\ k \in Int
      BY <2>2
    <3> QED
      BY <3>1, FS_Interval, FS_Singleton
  <2> QED
    BY <2>1, <2>2, <2>3, FS_Product
<1>6. \A T \in G : IsFiniteSet(T)
  BY <1>5
<1>7. ValoresEnPila(pila) = UNION G
  BY <1>1 DEF ValoresEnPila
<1>8. IsFiniteSet(ValoresEnPila(pila))
  <2> HIDE DEF grupo, G
  <2> QED
    BY <1>4, <1>6, <1>7, FS_UNION
<1> QED
  BY <1>8, FS_CardinalityType DEF Ocupados

\* The last value of a stack, after all the others.
LEMMA UltimoValor ==
  ASSUME NEW pila \in Seq(Nodo)
  PROVE  \/ ConDirecciones(pila) = {} /\ ValoresEnPila(pila) = {}
         \/ /\ ConDirecciones(pila) # {}
            /\ \E n \in DOMAIN pila : \E i \in DOMAIN DireccionesDe(pila[n]) :
                 /\ UltimaDireccion(pila[Max(ConDirecciones(pila))]) = DireccionesDe(pila[n])[i]
                 /\ DireccionesDe(pila[n])[i] \in DireccionDeValor
                 /\ Anteriores(pila, <<n, i>>) = ValoresEnPila(pila) \ {<<n, i>>}
<1>3. \A n \in DOMAIN pila : pila[n] \in Nodo
  OBVIOUS
<1>4. \A n \in DOMAIN pila : \A i \in DOMAIN DireccionesDe(pila[n]) : n \in ConDirecciones(pila)
  <2> SUFFICES ASSUME NEW n \in DOMAIN pila, NEW i \in DOMAIN DireccionesDe(pila[n]),
                      pila[n].vars = <<>>, pila[n].args = <<>>
               PROVE  FALSE
    BY DEF ConDirecciones
  <2>1. PICK nodo \in Nodo : nodo = pila[n]
    BY <1>3
  <2>2. Len(nodo.args) = 0 /\ Len(nodo.vars) = 0
    BY <2>1
  <2>3. i \in 1..(Len(nodo.args) + Len(nodo.vars))
    BY <2>1, DireccionesDelNodo
  <2> QED
    BY <2>2, <2>3
<1>5. CASE ConDirecciones(pila) = {}
  <2>1. ValoresEnPila(pila) = {}
    BY <1>4, <1>5, ValoresSon
  <2> QED
    BY <1>5, <2>1
<1>6. CASE ConDirecciones(pila) # {}
  <2>1. PICK m : m = Max(ConDirecciones(pila))
    OBVIOUS
  <2>2. m \in ConDirecciones(pila) /\ \A n \in ConDirecciones(pila) : n <= m
    <3>1. ConDirecciones(pila) \in SUBSET (1..Len(pila)) /\ Len(pila) \in Nat
      BY DEF ConDirecciones
    <3> QED
      BY <1>6, <2>1, <3>1, MayorDe
  <2>3. m \in DOMAIN pila /\ m \in Nat /\ (pila[m].vars # <<>> \/ pila[m].args # <<>>)
    BY <2>2 DEF ConDirecciones
  <2>4. PICK nodo \in Nodo : nodo = pila[m]
    BY <1>3, <2>3
  <2>5. PICK k : k = Len(DireccionesDe(nodo))
    OBVIOUS
  <2>6. k \in DOMAIN DireccionesDe(nodo) /\ UltimaDireccion(nodo) = DireccionesDe(nodo)[k]
    BY <2>3, <2>4, <2>5, UltimaDelNodo
  <2>7. k \in Nat /\ DOMAIN DireccionesDe(nodo) = 1..k
    BY <2>5, DireccionesDelNodo, NodoTipado
  <2>8. DireccionesDe(nodo)[k] \in DireccionDeValor
    BY <2>6, DireccionTipada
  <2>9. ASSUME NEW y \in ValoresEnPila(pila), y # <<m, k>>
        PROVE  y[1] < m \/ (y[1] = m /\ y[2] < k)
    <3>1. PICK n, i : n \in DOMAIN pila /\ i \in DOMAIN DireccionesDe(pila[n]) /\ y = <<n, i>>
      BY ValoresSon
    <3>2. n <= m /\ n \in Nat
      BY <1>4, <2>2, <3>1
    <3>3. CASE n = m
      <4>1. i \in 1..k /\ i # k
        BY <2>4, <2>7, <2>9, <3>1, <3>3
      <4>2. i < k
        BY ONLY <2>7, <4>1
      <4> QED
        BY <3>1, <3>3, <4>2
    <3>4. CASE n # m
      <4>1. n < m
        BY ONLY <2>3, <3>2, <3>4
      <4> QED
        BY <3>1, <4>1
    <3> QED
      BY <3>3, <3>4
  <2>10. ~(m < m) /\ ~(k < k)
    BY <2>3, <2>7
  <2>11. Anteriores(pila, <<m, k>>) = ValoresEnPila(pila) \ {<<m, k>>}
    BY <2>9, <2>10, AnterioresSon
  <2> QED
    BY <1>6, <2>1, <2>3, <2>4, <2>6, <2>8, <2>11
<1> QED
  BY <1>5, <1>6

\* What the next value does to the number, without and with a page more.
LEMMA NumeroSiguiente ==
  ASSUME NEW t \in Nat, t >= 4, NEW o \in Nat, o % 4 = 0, o + 4 <= t,
         NEW k \in Nat, k = t \div 4
  PROVE  /\ o + 4 + 4 > t => o \div 4 + 1 = k
         /\ (o + 4) % 4 = 0 /\ (o + 4) \div 4 = o \div 4 + 1
         /\ o \div 4 \in Nat /\ o \div 4 < k
OBVIOUS

LEMMA NumeroDelSiguiente ==
  ASSUME programa \in Programas, NEW p \in PcbDelPrograma, NEW pila \in Seq(Nodo),
         EnOrden(pila), Numerada(pila), NEW dir, dir = DireccionSiguiente(p, pila)
  PROVE  /\ dir \in DireccionDeValor /\ dir.offset % 4 = 0 /\ Numero(dir) = Ocupados(pila)
         /\ dir.pagina >= PaginasTotales <=> Ocupados(pila) + 1 > StackSize * PorPagina
<1>1. /\ PaginasDeCodigo \in Nat /\ PaginasTotales \in Nat /\ TamPagina \in Nat /\ TamPagina >= 4
      /\ StackSize \in Nat /\ PaginasTotales - StackSize = PaginasDeCodigo
      /\ PaginasTotales = StackSize + PaginasDeCodigo
  BY PaginasNaturales DEF PaginasTotales
<1>2. PICK k \in Nat : k = PorPagina /\ k = TamPagina \div 4 /\ k >= 1
  <2>1. TamPagina \div 4 \in Nat /\ TamPagina \div 4 >= 1
    BY ONLY <1>1
  <2> QED
    BY <2>1 DEF PorPagina
<1>3. dir \in DireccionDeValor /\ dir.offset + 4 <= TamPagina /\ dir.pagina >= PaginasDeCodigo
  BY SiguienteLibre
<1>4. dir.offset % 4 = 0 /\ Numero(dir) = Ocupados(pila)
  <2>1. CASE ConDirecciones(pila) = {} /\ ValoresEnPila(pila) = {}
    <3>1. dir = [pagina |-> PaginasDeCodigo, offset |-> 0, size |-> 4]
      BY <1>1, <2>1, PaginasDelPcb DEF DireccionSiguiente
    <3>2. Ocupados(pila) = 0
      BY <2>1, FS_EmptySet DEF Ocupados
    <3>3. Numero(dir) = 0 * k + 0 \div 4
      BY <1>1, <1>2, <3>1 DEF Numero
    <3> QED
      BY <1>2, <3>1, <3>2, <3>3
  <2>2. CASE ConDirecciones(pila) # {}
    <3>1. PICK n, i, u :
            /\ n \in DOMAIN pila /\ i \in DOMAIN DireccionesDe(pila[n]) /\ u \in DireccionDeValor
            /\ u = DireccionesDe(pila[n])[i]
            /\ UltimaDireccion(pila[Max(ConDirecciones(pila))]) = u
            /\ Anteriores(pila, <<n, i>>) = ValoresEnPila(pila) \ {<<n, i>>}
      BY <2>2, UltimoValor
    <3>2. PICK q \in Int, o \in Nat : q = u.pagina /\ o = u.offset /\ u.size = 4
      BY <3>1 DEF DireccionDeValor
    <3>3. o % 4 = 0 /\ o + 4 <= TamPagina /\ Numero(u) = Cardinality(Anteriores(pila, <<n, i>>))
      BY <3>1, <3>2 DEF Numerada, EnOrden
    <3>4. Ocupados(pila) = Numero(u) + 1
      <4>1. <<n, i>> \in ValoresEnPila(pila)
        BY <3>1, ValoresSon
      <4>2. IsFiniteSet(ValoresEnPila(pila)) /\ Ocupados(pila) \in Nat
        BY ValoresFinitos
      <4>3. Cardinality(Anteriores(pila, <<n, i>>)) = Ocupados(pila) - 1
        BY <3>1, <4>1, <4>2, FS_RemoveElement DEF Ocupados
      <4> QED
        BY <3>3, <4>2, <4>3
    <3>5. dir = IF o + 4 + 4 > TamPagina
                THEN [pagina |-> q + 1, offset |-> 0, size |-> 4]
                ELSE [pagina |-> q, offset |-> o + 4, size |-> 4]
      BY <2>2, <3>1, <3>2 DEF DireccionSiguiente
    <3>6. PICK j \in Int : j = q - PaginasDeCodigo
      BY <1>1
    <3>7. PICK x \in Int : x = j * k /\ (j + 1) * k = x + k
      <4>1. j * k \in Int /\ (j + 1) * k = j * k + k
        BY <1>2, <3>6, Paginas
      <4> QED
        BY <4>1
    <3>8. Numero(u) = x + o \div 4
      BY <1>2, <3>2, <3>6, <3>7 DEF Numero
    <3>9. /\ o + 4 + 4 > TamPagina => o \div 4 + 1 = k
          /\ (o + 4) % 4 = 0 /\ (o + 4) \div 4 = o \div 4 + 1
          /\ o \div 4 \in Nat
      BY <1>1, <1>2, <3>3, NumeroSiguiente
    <3>10. CASE o + 4 + 4 > TamPagina
      <4>1. dir = [pagina |-> q + 1, offset |-> 0, size |-> 4]
        BY <3>5, <3>10
      <4>2. q + 1 - PaginasDeCodigo = j + 1 /\ 0 \div 4 = 0 /\ 0 % 4 = 0
        BY ONLY <1>1, <3>6, q \in Int
      <4>3. PICK q1, j1 : q1 = q + 1 /\ j1 = q1 - PaginasDeCodigo
        OBVIOUS
      <4>5. dir.pagina = q1 /\ dir.offset = 0 /\ j1 = j + 1
        <5>1. dir.pagina = q + 1 /\ dir.offset = 0
          BY <4>1
        <5>2. j1 = j + 1
          BY ONLY <1>1, <4>2, <4>3, q \in Int, j \in Int
        <5> QED
          BY <4>3, <5>1, <5>2
      <4>6. Numero(dir) = (x + k) + 0
        <5>1. Numero(dir) = j1 * k + 0
          BY <1>2, <4>2, <4>3, <4>5 DEF Numero
        <5> QED
          BY <3>7, <4>5, <5>1
      <4>4. (x + k) + 0 = x + o \div 4 + 1
        BY ONLY <1>2, <3>7, <3>9, <3>10, x \in Int, k \in Nat
      <4> QED
        BY <3>4, <3>8, <4>1, <4>2, <4>4, <4>6
    <3>11. CASE ~(o + 4 + 4 > TamPagina)
      <4>1. dir = [pagina |-> q, offset |-> o + 4, size |-> 4]
        BY <3>5, <3>11
      <4>2. Numero(dir) = x + (o + 4) \div 4
        BY <1>2, <3>6, <3>7, <4>1 DEF Numero
      <4>3. x + (o + 4) \div 4 = x + o \div 4 + 1
        BY ONLY <3>9, x \in Int
      <4> QED
        BY <3>4, <3>8, <3>9, <4>1, <4>2, <4>3
    <3> QED
      BY <3>10, <3>11
  <2> QED
    BY <2>1, <2>2, UltimoValor
<1>5. PICK j \in Int, o \in Nat : j = dir.pagina - PaginasDeCodigo /\ o = dir.offset
  BY <1>1, <1>3 DEF DireccionDeValor
<1>6. PICK x \in Int, y \in Int : x = j * k /\ (j + 1) * k = x + k /\ y = StackSize * k
  <2>1. j * k \in Int /\ (j + 1) * k = j * k + k /\ StackSize * k \in Int
    BY <1>1, <1>2, <1>5, Paginas
  <2> QED
    BY <2>1
<1>7. Ocupados(pila) = x + o \div 4
  BY <1>2, <1>4, <1>5, <1>6 DEF Numero
<1>8. o \div 4 \in Nat /\ o \div 4 < k
  <2>1. o % 4 = 0 /\ o + 4 <= TamPagina
    BY <1>3, <1>4, <1>5
  <2> QED
    BY <1>1, <1>2, <2>1, NumeroSiguiente
<1>9. (j < StackSize => x + k <= y) /\ (j >= StackSize => x >= y)
  <2>1. j < StackSize => j * k + k <= StackSize * k
    BY <1>1, <1>2, Paginas
  <2>2. j > StackSize => StackSize * k + k <= j * k
    BY <1>1, <1>2, Paginas
  <2>3. j = StackSize => x = y
    BY <1>6
  <2>4. j > StackSize => y + k <= x
    BY <1>6, <2>2
  <2> QED
    BY <1>1, <1>2, <1>6, <2>1, <2>3, <2>4
<1>10. dir.pagina >= PaginasTotales <=> j >= StackSize
  <2>1. PICK q \in Int : q = dir.pagina
    BY <1>3 DEF DireccionDeValor
  <2>2. j = q - PaginasDeCodigo
    BY <1>5, <2>1
  <2>3. q >= PaginasTotales <=> j >= StackSize
    BY ONLY <1>1, <2>2, q \in Int, j \in Int
  <2> QED
    BY <2>1, <2>3
<1>11. j >= StackSize <=> x + o \div 4 + 1 > y
  BY ONLY <1>1, <1>2, <1>8, <1>9, j \in Int, x \in Int, y \in Int, k \in Nat
<1> QED
  BY <1>2, <1>3, <1>4, <1>6, <1>7, <1>10, <1>11

\* A stack without its last values, or with frames that have none yet.
Parte(s, pila) ==
  /\ DOMAIN s \subseteq Nat /\ DOMAIN pila \subseteq Nat
  /\ \A n \in DOMAIN s : n \in DOMAIN pila => DireccionesDe(s[n]) = DireccionesDe(pila[n])
  /\ \A n \in DOMAIN s \ DOMAIN pila : DOMAIN DireccionesDe(s[n]) = {}
  /\ \A n \in DOMAIN s : \A m \in DOMAIN pila : m <= n => m \in DOMAIN s

LEMMA NumeradaIgual ==
  ASSUME NEW s, NEW pila, Parte(s, pila), Numerada(pila)
  PROVE  /\ Numerada(s)
         /\ DOMAIN pila \subseteq DOMAIN s => Ocupados(s) = Ocupados(pila)
<1>1. \A n \in DOMAIN s : \A i \in DOMAIN DireccionesDe(s[n]) :
        /\ n \in DOMAIN pila /\ i \in DOMAIN DireccionesDe(pila[n])
        /\ DireccionesDe(s[n])[i] = DireccionesDe(pila[n])[i]
  BY DEF Parte
<1>2. ValoresEnPila(s) \subseteq ValoresEnPila(pila)
  BY <1>1, ValoresSon
<1>3. ASSUME NEW n \in DOMAIN s, NEW i \in DOMAIN DireccionesDe(s[n]), NEW y \in ValoresEnPila(pila),
             y[1] < n \/ (y[1] = n /\ y[2] < i)
      PROVE  y \in ValoresEnPila(s)
  <2>1. PICK m, j : m \in DOMAIN pila /\ j \in DOMAIN DireccionesDe(pila[m]) /\ y = <<m, j>>
    BY ValoresSon
  <2>2. m <= n
    <3>1. n \in Nat /\ m \in Nat /\ (m < n \/ m = n)
      BY <1>3, <2>1 DEF Parte
    <3> QED
      BY ONLY <3>1
  <2>3. m \in DOMAIN s /\ j \in DOMAIN DireccionesDe(s[m])
    BY <2>1, <2>2 DEF Parte
  <2> QED
    BY <2>1, <2>3, ValoresSon
<1>4. ASSUME NEW n \in DOMAIN s, NEW i \in DOMAIN DireccionesDe(s[n])
      PROVE  Anteriores(s, <<n, i>>) = Anteriores(pila, <<n, i>>)
  BY <1>2, <1>3, AnterioresSon
<1>5. Numerada(s)
  BY <1>1, <1>4 DEF Numerada
<1>6. ASSUME DOMAIN pila \subseteq DOMAIN s PROVE Ocupados(s) = Ocupados(pila)
  <2>1. ASSUME NEW y \in ValoresEnPila(pila) PROVE y \in ValoresEnPila(s)
    <3>1. PICK m, j : m \in DOMAIN pila /\ j \in DOMAIN DireccionesDe(pila[m]) /\ y = <<m, j>>
      BY ValoresSon
    <3>2. m \in DOMAIN s /\ j \in DOMAIN DireccionesDe(s[m])
      BY <1>6, <3>1 DEF Parte
    <3> QED
      BY <3>1, <3>2, ValoresSon
  <2> QED
    BY <1>2, <2>1 DEF Ocupados
<1> QED
  BY <1>5, <1>6

\* The same stack with a value more in its last node.
ConUnoMas(s, pila, t, dir) ==
  /\ pila \in Seq(Nodo) /\ s \in Seq(Nodo) /\ t \in Nat /\ t > 0
  /\ Len(pila) = t /\ Len(s) = t
  /\ \A n \in 1..(t - 1) : s[n] = pila[n]
  /\ DireccionesDe(s[t]) = Append(DireccionesDe(pila[t]), dir)

LEMMA NumeradaConUno ==
  ASSUME NEW s, NEW pila, NEW t, NEW dir, ConUnoMas(s, pila, t, dir), Numerada(pila),
         dir.offset % 4 = 0, Numero(dir) = Ocupados(pila)
  PROVE  Numerada(s) /\ Ocupados(s) = Ocupados(pila) + 1
<1>1. /\ pila \in Seq(Nodo) /\ s \in Seq(Nodo) /\ t \in Nat /\ t > 0
      /\ DOMAIN pila = 1..t /\ DOMAIN s = 1..t
      /\ \A n \in 1..(t - 1) : s[n] = pila[n]
  BY DEF ConUnoMas
<1>2. t \in 1..t /\ \A n \in 1..t : n # t => n \in 1..(t - 1) /\ n < t
  BY ONLY <1>1
<1>3. PICK k \in Nat :
        /\ DOMAIN DireccionesDe(pila[t]) = 1..k /\ DOMAIN DireccionesDe(s[t]) = 1..(k + 1)
        /\ \A i \in 1..k : DireccionesDe(s[t])[i] = DireccionesDe(pila[t])[i]
        /\ DireccionesDe(s[t])[k + 1] = dir
  <2>1. PICK ds \in Seq(DireccionDeValor) : ds = DireccionesDe(pila[t])
    <3>1. pila[t] \in Nodo
      BY <1>1, <1>2
    <3> QED
      BY <3>1, DireccionesDelNodo
  <2>2. DireccionesDe(s[t]) = Append(ds, dir)
    BY <2>1 DEF ConUnoMas
  <2> QED
    BY <2>1, <2>2
<1>4. PICK x : x = <<t, k + 1>>
  OBVIOUS
<1>5. /\ \A n \in 1..t : \A i \in DOMAIN DireccionesDe(s[n]) :
           \/ n = t /\ i = k + 1
           \/ i \in DOMAIN DireccionesDe(pila[n])
              /\ DireccionesDe(s[n])[i] = DireccionesDe(pila[n])[i]
      /\ \A n \in 1..t : \A i \in DOMAIN DireccionesDe(pila[n]) : i \in DOMAIN DireccionesDe(s[n])
  <2> SUFFICES ASSUME NEW n \in 1..t
               PROVE  /\ \A i \in DOMAIN DireccionesDe(s[n]) :
                           \/ n = t /\ i = k + 1
                           \/ i \in DOMAIN DireccionesDe(pila[n])
                              /\ DireccionesDe(s[n])[i] = DireccionesDe(pila[n])[i]
                      /\ \A i \in DOMAIN DireccionesDe(pila[n]) : i \in DOMAIN DireccionesDe(s[n])
    OBVIOUS
  <2>1. CASE n = t
    <3>1. \A i \in 1..(k + 1) : i # k + 1 => i \in 1..k
      OBVIOUS
    <3>2. \A i \in 1..k : i \in 1..(k + 1)
      OBVIOUS
    <3> QED
      BY <1>3, <2>1, <3>1, <3>2
  <2>2. CASE n # t
    BY <1>1, <1>2, <2>2
  <2> QED
    BY <2>1, <2>2
<1>6. x \notin ValoresEnPila(pila)
  <2>1. k + 1 \notin 1..k
    OBVIOUS
  <2> QED
    BY <1>3, <1>4, <2>1, ValoresSon
<1>7. ValoresEnPila(s) = ValoresEnPila(pila) \cup {x}
  <2>1. x \in ValoresEnPila(s)
    <3>1. t \in DOMAIN s /\ k + 1 \in DOMAIN DireccionesDe(s[t])
      BY <1>1, <1>2, <1>3
    <3> QED
      BY <1>4, <3>1, ValoresSon
  <2>2. ASSUME NEW y \in ValoresEnPila(s) PROVE y = x \/ y \in ValoresEnPila(pila)
    <3>1. PICK n, i : n \in 1..t /\ i \in DOMAIN DireccionesDe(s[n]) /\ y = <<n, i>>
      BY <1>1, ValoresSon
    <3> QED
      BY <1>1, <1>4, <1>5, <3>1, ValoresSon
  <2>3. ASSUME NEW y \in ValoresEnPila(pila) PROVE y \in ValoresEnPila(s)
    <3>1. PICK n, i : n \in 1..t /\ i \in DOMAIN DireccionesDe(pila[n]) /\ y = <<n, i>>
      BY <1>1, ValoresSon
    <3> QED
      BY <1>1, <1>5, <3>1, ValoresSon
  <2> QED
    BY <2>1, <2>2, <2>3
<1>8. \A y \in ValoresEnPila(pila) : y[1] < t \/ (y[1] = t /\ y[2] < k + 1)
  <2> SUFFICES ASSUME NEW y \in ValoresEnPila(pila) PROVE y[1] < t \/ (y[1] = t /\ y[2] < k + 1)
    OBVIOUS
  <2>1. PICK n, i : n \in 1..t /\ i \in DOMAIN DireccionesDe(pila[n]) /\ y = <<n, i>>
    BY <1>1, ValoresSon
  <2>2. CASE n = t
    <3>1. i \in 1..k
      BY <1>3, <2>1, <2>2
    <3>2. i < k + 1
      BY ONLY <3>1, k \in Nat
    <3> QED
      BY <2>1, <2>2, <3>2
  <2>3. CASE n # t
    BY <1>2, <2>1, <2>3
  <2> QED
    BY <2>2, <2>3
<1>9. Anteriores(s, x) = ValoresEnPila(pila)
  <2>1. ~(t < t) /\ ~(k + 1 < k + 1)
    BY <1>1
  <2>2. Anteriores(s, <<t, k + 1>>)
          = {y \in ValoresEnPila(s) : y[1] < t \/ (y[1] = t /\ y[2] < k + 1)}
    BY AnterioresSon
  <2> QED
    BY <1>4, <1>7, <1>8, <2>1, <2>2
<1>10. ASSUME NEW n \in 1..t, NEW i \in DOMAIN DireccionesDe(pila[n])
       PROVE  Anteriores(s, <<n, i>>) = Anteriores(pila, <<n, i>>)
  <2>1. ~(t < n \/ (t = n /\ k + 1 < i))
    <3>1. ~(t < n)
      BY ONLY <1>1, n \in 1..t
    <3>2. t = n => ~(k + 1 < i)
      <4> SUFFICES ASSUME t = n PROVE ~(k + 1 < i)
        OBVIOUS
      <4>1. i \in 1..k
        BY <1>3
      <4> QED
        BY ONLY <4>1, k \in Nat
    <3> QED
      BY <3>1, <3>2
  <2>2. x[1] = t /\ x[2] = k + 1
    BY <1>4
  <2>3. /\ Anteriores(s, <<n, i>>) = {y \in ValoresEnPila(s) : y[1] < n \/ (y[1] = n /\ y[2] < i)}
        /\ Anteriores(pila, <<n, i>>)
             = {y \in ValoresEnPila(pila) : y[1] < n \/ (y[1] = n /\ y[2] < i)}
    BY AnterioresSon
  <2>4. ~(x[1] < n \/ (x[1] = n /\ x[2] < i))
    BY <2>1, <2>2
  <2> QED
    BY ONLY <1>7, <2>3, <2>4
<1>11. Numerada(s)
  <2> SUFFICES ASSUME NEW n \in 1..t, NEW i \in DOMAIN DireccionesDe(s[n])
               PROVE  /\ DireccionesDe(s[n])[i].offset % 4 = 0
                      /\ Numero(DireccionesDe(s[n])[i]) = Cardinality(Anteriores(s, <<n, i>>))
    BY <1>1 DEF Numerada
  <2>1. CASE n = t /\ i = k + 1
    BY <1>3, <1>4, <1>9, <2>1 DEF Ocupados
  <2>2. CASE i \in DOMAIN DireccionesDe(pila[n])
             /\ DireccionesDe(s[n])[i] = DireccionesDe(pila[n])[i]
    BY <1>1, <1>10, <2>2 DEF Numerada
  <2> QED
    BY <1>5, <2>1, <2>2
<1>12. Ocupados(s) = Ocupados(pila) + 1
  <2>1. IsFiniteSet(ValoresEnPila(pila))
    BY <1>1, ValoresFinitos
  <2> QED
    BY <1>6, <1>7, <2>1, FS_AddElement DEF Ocupados
<1> QED
  BY <1>11, <1>12

\* As many variables live as values are in the stack.
LEMMA VivasSon ==
  ASSUME NEW pila, PilaClara(pila), NEW mem, NEW marcos, marcos = MarcosEn(pila, mem)
  PROVE  Cardinality({x \in (DOMAIN marcos) \X Nombres : x[2] \in DOMAIN marcos[x[1]].valores})
           = Ocupados(pila)
<1> DEFINE V == ValoresEnPila(pila)
           W == {x \in (DOMAIN marcos) \X Nombres : x[2] \in DOMAIN marcos[x[1]].valores}
           f == [x \in V |-> <<x[1], NombreDe(pila[x[1]], x[2])>>]
<1>1. pila \in Seq(Nodo) /\ \A n \in DOMAIN pila : NodoClaro(pila[n])
  BY DEF PilaClara
<1>2. DOMAIN marcos = DOMAIN pila /\ \A n \in DOMAIN pila : DOMAIN marcos[n].valores = NombresDe(pila[n])
  BY DEF MarcosEn, Marco, ValoresDelNodo
<1>3. \A n \in DOMAIN pila :
        /\ \A i \in DOMAIN DireccionesDe(pila[n]) : NombreDe(pila[n], i) \in NombresDe(pila[n])
        /\ \A o \in NombresDe(pila[n]) : \E i \in DOMAIN DireccionesDe(pila[n]) : NombreDe(pila[n], i) = o
        /\ \A i, j \in DOMAIN DireccionesDe(pila[n]) :
             NombreDe(pila[n], i) = NombreDe(pila[n], j) => i = j
        /\ NombresDe(pila[n]) \subseteq Nombres
  <2> SUFFICES ASSUME NEW n \in DOMAIN pila
               PROVE  /\ \A i \in DOMAIN DireccionesDe(pila[n]) : NombreDe(pila[n], i) \in NombresDe(pila[n])
                      /\ \A o \in NombresDe(pila[n]) :
                           \E i \in DOMAIN DireccionesDe(pila[n]) : NombreDe(pila[n], i) = o
                      /\ \A i, j \in DOMAIN DireccionesDe(pila[n]) :
                           NombreDe(pila[n], i) = NombreDe(pila[n], j) => i = j
                      /\ NombresDe(pila[n]) \subseteq Nombres
    OBVIOUS
  <2>1. PICK nodo : nodo = pila[n] /\ NodoClaro(nodo)
    BY <1>1
  <2> QED
    BY <2>1, NombresDelNodo
<1>4. ASSUME NEW x \in V PROVE f[x] \in W
  <2>1. PICK n, i : n \in DOMAIN pila /\ i \in DOMAIN DireccionesDe(pila[n]) /\ x = <<n, i>>
    BY ValoresSon
  <2>2. f[x] = <<n, NombreDe(pila[n], i)>>
    BY <2>1
  <2>3. NombreDe(pila[n], i) \in NombresDe(pila[n]) /\ NombreDe(pila[n], i) \in Nombres
    BY <1>3, <2>1
  <2> QED
    BY <1>2, <2>1, <2>2, <2>3
<1>5. ASSUME NEW x \in V, NEW y \in V, f[x] = f[y] PROVE x = y
  <2>1. PICK n, i : n \in DOMAIN pila /\ i \in DOMAIN DireccionesDe(pila[n]) /\ x = <<n, i>>
    BY ValoresSon
  <2>2. PICK m, j : m \in DOMAIN pila /\ j \in DOMAIN DireccionesDe(pila[m]) /\ y = <<m, j>>
    BY ValoresSon
  <2>3. n = m /\ NombreDe(pila[n], i) = NombreDe(pila[m], j)
    BY <1>5, <2>1, <2>2
  <2> QED
    BY <1>3, <2>1, <2>2, <2>3
<1>6. ASSUME NEW w \in W PROVE \E x \in V : f[x] = w
  <2>1. PICK n, o : n \in DOMAIN pila /\ o \in NombresDe(pila[n]) /\ w = <<n, o>>
    BY <1>2
  <2>2. PICK i \in DOMAIN DireccionesDe(pila[n]) : NombreDe(pila[n], i) = o
    BY <1>3, <2>1
  <2>3. <<n, i>> \in V
    BY <2>1, <2>2, ValoresSon
  <2>4. f[<<n, i>>] = <<n, o>>
    BY <2>2, <2>3
  <2> QED
    BY <2>1, <2>3, <2>4
<1>7. f \in Bijection(V, W)
  <2>1. f \in [V -> W]
    BY <1>4
  <2> HIDE DEF f, V, W
  <2> QED
    BY <1>5, <1>6, <2>1 DEF Bijection, Injection, Surjection, IsInjective
<1>8. IsFiniteSet(V)
  BY <1>1, ValoresFinitos
<1>9. Cardinality(W) = Cardinality(V)
  <2> HIDE DEF f, V, W
  <2>1. ExistsBijection(V, W)
    BY <1>7 DEF ExistsBijection
  <2> QED
    BY <1>8, <2>1, FS_Bijection
<1> QED
  BY <1>9 DEF Ocupados

-----------------------------------------------------------------------------
(* What the primitives find and write, by the names of the last frame.     *)

EnPila(m, t, nodo) ==
  /\ Marcha(m) /\ PilaClara(m.pcb.indiceStack) /\ MemoriaTipada(m.memoria)
  /\ t \in Nat /\ t > 0 /\ t = Len(m.pcb.indiceStack) /\ nodo = m.pcb.indiceStack[t]

LEMMA EnPilaSigue ==
  ASSUME NEW m, NEW t, NEW nodo, EnPila(m, t, nodo), NEW r, Estable(m, r), r.memoria = m.memoria
  PROVE  EnPila(r, t, nodo)
BY DEF EnPila, Estable

LEMMA NodoEnPila ==
  ASSUME NEW m, NEW t, NEW nodo, EnPila(m, t, nodo)
  PROVE  /\ NodoClaro(nodo) /\ t \in DOMAIN m.pcb.indiceStack /\ DOMAIN m.pcb.indiceStack = 1..t
         /\ m.pcb \in PcbDelPrograma /\ m.pcb.indiceStack # <<>>
<1>1. PICK pila \in Seq(Nodo) : pila = m.pcb.indiceStack /\ Len(pila) = t /\ t \in Nat /\ t > 0
  BY DEF EnPila, PilaClara
<1>2. DOMAIN pila = 1..t /\ t \in 1..t /\ pila # <<>>
  BY <1>1
<1>3. \A k \in DOMAIN pila : NodoClaro(pila[k])
  BY <1>1 DEF EnPila, PilaClara
<1>4. NodoClaro(nodo)
  BY <1>1, <1>2, <1>3 DEF EnPila
<1> QED
  BY <1>1, <1>2, <1>4 DEF EnPila, Marcha

\* A name has one direction, or none.
LEMMA DireccionUnica ==
  ASSUME NEW p \in PcbDelPrograma, NEW nodo, NodoClaro(nodo), nodo = Last(p.indiceStack),
         NEW nombre, NEW d, d = Direcciones(p, nombre)
  PROVE  IF nombre \in NombresDe(nodo)
         THEN \E x \in Nat : x \in DOMAIN d /\ DOMAIN d = {x} /\ d[x] = DireccionEn(nodo, nombre)
         ELSE DOMAIN d = {}
<1>1. PICK a \in Nat, b \in Nat :
        /\ a <= 1 /\ DOMAIN nodo.args = 1..a /\ DOMAIN nodo.vars = 1..b
        /\ nodo.vars \in Seq(VarsDeNodo)
  BY NodoTipado DEF NodoClaro
<1>2. Argumentos[1] \in ToSet(Argumentos)
  BY PrimerArgumento
<1>3. \A v \in 1..b : nodo.vars[v].idVar \in Nombres \ ToSet(Argumentos)
  <2>1. \A v \in 1..b : nodo.vars[v] \in VarsDeNodo
    BY <1>1
  <2> QED
    BY <2>1 DEF VarsDeNodo
<1>4. \A v, w \in 1..b : nodo.vars[v].idVar = nodo.vars[w].idVar => v = w
  BY <1>1 DEF NodoClaro
<1>5. NombresDe(nodo) = {Argumentos[i] : i \in 1..a} \cup {nodo.vars[i].idVar : i \in 1..b}
  BY <1>1 DEF NombresDe
<1>6. \A i \in 1..a : i = 1 /\ a = 1
  <2>1. a <= 1 /\ a \in Nat
    BY <1>1
  <2> QED
    BY ONLY <2>1
<1>7. CASE nombre \in ToSet(Argumentos)
  <2>1. d = [i \in {k \in 1..a : Argumentos[k] = nombre} |-> nodo.args[i]]
    BY <1>1, <1>7 DEF Direcciones
  <2>2. DOMAIN d = {k \in 1..a : Argumentos[k] = nombre} /\ \A x \in DOMAIN d : d[x] = nodo.args[x]
    BY <2>1
  <2>3. DireccionEn(nodo, nombre) = nodo.args[CHOOSE i \in 1..a : Argumentos[i] = nombre]
    BY <1>1, <1>7 DEF DireccionEn
  <2>4. CASE nombre \in NombresDe(nodo)
    <3>1. PICK i \in 1..a : nombre = Argumentos[i]
      BY <1>3, <1>5, <1>7, <2>4
    <3>2. \A j \in 1..a : j = i
      BY <1>6
    <3>3. (CHOOSE j \in 1..a : Argumentos[j] = nombre) = i
      BY <3>1, <3>2
    <3>4. DOMAIN d = {i} /\ i \in Nat
      BY <2>2, <3>1, <3>2
    <3> QED
      BY <2>2, <2>3, <2>4, <3>3, <3>4
  <2>5. CASE nombre \notin NombresDe(nodo)
    BY <1>5, <2>2, <2>5
  <2> QED
    BY <2>4, <2>5
<1>8. CASE nombre \notin ToSet(Argumentos)
  <2>1. d = [i \in {k \in 1..b : nodo.vars[k].idVar = nombre} |-> nodo.vars[i].dirVar]
    BY <1>1, <1>8 DEF Direcciones
  <2>2. /\ DOMAIN d = {k \in 1..b : nodo.vars[k].idVar = nombre}
        /\ \A x \in DOMAIN d : d[x] = nodo.vars[x].dirVar
    BY <2>1
  <2>3. DireccionEn(nodo, nombre) = (CHOOSE v \in ToSet(nodo.vars) : v.idVar = nombre).dirVar
    BY <1>8 DEF DireccionEn
  <2>4. CASE nombre \in NombresDe(nodo)
    <3>1. PICK i \in 1..b : nombre = nodo.vars[i].idVar
      BY <1>2, <1>5, <1>6, <1>8, <2>4
    <3>2. nodo.vars[i] \in ToSet(nodo.vars)
          /\ \A v \in ToSet(nodo.vars) : v.idVar = nombre => v = nodo.vars[i]
      BY <1>1, <1>4, <3>1 DEF ToSet
    <3>3. (CHOOSE v \in ToSet(nodo.vars) : v.idVar = nombre) = nodo.vars[i]
      BY <3>1, <3>2
    <3>4. DOMAIN d = {i} /\ i \in Nat
      BY <1>4, <2>2, <3>1
    <3> QED
      BY <2>2, <2>3, <2>4, <3>3, <3>4
  <2>5. CASE nombre \notin NombresDe(nodo)
    BY <1>5, <2>2, <2>5
  <2> QED
    BY <2>4, <2>5
<1> QED
  BY <1>7, <1>8

LEMMA Hallado ==
  ASSUME programa \in Programas, NEW m, NEW t, NEW nodo, EnPila(m, t, nodo), NEW nombre,
         NEW r, r = obtenerPosicionVariable(m, nombre)
  PROVE  /\ Estable(m, r) /\ r.memoria = m.memoria /\ r.valor = m.valor /\ EnPila(r, t, nodo)
         /\ nombre \in NombresDe(nodo) =>
              r.interrupcion = m.interrupcion /\ r.puntero = PosicionEn(nodo, nombre)
         /\ nombre \notin NombresDe(nodo) => r.interrupcion \in Fatales /\ r.puntero = -1
<1>1. /\ NodoClaro(nodo) /\ m.pcb \in PcbDelPrograma /\ m.pcb.indiceStack # <<>>
      /\ nodo = Last(m.pcb.indiceStack) /\ Marcha(m)
  BY NodoEnPila DEF EnPila, Last
<1>2. m = [pcb |-> m.pcb, memoria |-> m.memoria, aEjecutarDelPcb |-> m.aEjecutarDelPcb,
           interrupcion |-> m.interrupcion, puntero |-> m.puntero, valor |-> m.valor]
  BY <1>1 DEF Marcha
<1>3. PICK d : d = Direcciones(m.pcb, nombre)
  OBVIOUS
<1>4. Estable(m, r)
  BY <1>1, PosicionObtenida
<1>5. CASE nombre \in NombresDe(nodo)
  <2>1. PICK x \in Nat : DOMAIN d = {x} /\ d[x] = DireccionEn(nodo, nombre)
    BY <1>1, <1>3, <1>5, DireccionUnica
  <2>2. Max({x}) = x
    <3>1. {x} \in SUBSET (1..x) \/ x = 0
      OBVIOUS
    <3>2. (CHOOSE y \in {x} : \A z \in {x} : y >= z) = x
      OBVIOUS
    <3> QED
      BY <3>2 DEF Max
  <2>3. r = [m EXCEPT !.puntero = PosicionEn(nodo, nombre)]
    BY <1>3, <2>1, <2>2 DEF obtenerPosicionVariable, PosicionEn
  <2>4. /\ r.memoria = m.memoria /\ r.interrupcion = m.interrupcion /\ r.valor = m.valor
        /\ r.puntero = PosicionEn(nodo, nombre)
    BY <1>2, <2>3
  <2> QED
    BY <1>4, <1>5, <2>4, EnPilaSigue
<1>6. CASE nombre \notin NombresDe(nodo)
  <2>1. DOMAIN d = {}
    BY <1>1, <1>3, <1>6, DireccionUnica
  <2>2. r = Interrumpir([m EXCEPT !.puntero = -1], "direccionInvalida")
    BY <1>3, <2>1 DEF obtenerPosicionVariable
  <2>3. /\ r.memoria = m.memoria /\ r.interrupcion = "direccionInvalida" /\ r.valor = m.valor
        /\ r.puntero = -1
    BY <1>2, <2>2 DEF Interrumpir
  <2> QED
    BY <1>4, <1>6, <2>3, EnPilaSigue DEF Fatales
<1> QED
  BY <1>5, <1>6

DefinidoEn(nodo, operando) == EsVariable(operando) => operando[2] \in NombresDe(nodo)

ValorDelNodo(nodo, mem, operando) ==
  IF EsVariable(operando) THEN ValorEn(mem, PosicionEn(nodo, operando[2])) ELSE operando[2]

LEMMA Operado ==
  ASSUME programa \in Programas, NEW m, NEW t, NEW nodo, EnPila(m, t, nodo), NEW operando,
         NEW r, r = Operar(m, operando)
  PROVE  /\ Estable(m, r) /\ r.memoria = m.memoria /\ EnPila(r, t, nodo)
         /\ DefinidoEn(nodo, operando) =>
              r.interrupcion = m.interrupcion /\ r.valor = ValorDelNodo(nodo, m.memoria, operando)
         /\ ~DefinidoEn(nodo, operando) => r.interrupcion \in Fatales
<1>1. Marcha(m) /\ m.pcb.indiceStack # <<>>
  BY NodoEnPila DEF EnPila
<1>2. Estable(m, r)
  BY <1>1, Operada
<1>3. CASE EsVariable(operando)
  <2>1. PICK p : p = obtenerPosicionVariable(m, operando[2])
    OBVIOUS
  <2>2. /\ Estable(m, p) /\ p.memoria = m.memoria /\ EnPila(p, t, nodo)
        /\ operando[2] \in NombresDe(nodo) =>
             p.interrupcion = m.interrupcion /\ p.puntero = PosicionEn(nodo, operando[2])
        /\ operando[2] \notin NombresDe(nodo) => p.interrupcion \in Fatales /\ p.puntero = -1
    BY <2>1, Hallado
  <2>3. r = dereferenciar(p, p.puntero)
    BY <1>3, <2>1 DEF Operar
  <2>4. p = [pcb |-> p.pcb, memoria |-> p.memoria, aEjecutarDelPcb |-> p.aEjecutarDelPcb,
             interrupcion |-> p.interrupcion, puntero |-> p.puntero, valor |-> p.valor]
        /\ p.pcb = m.pcb /\ p.pcb \in PcbDelPrograma
    BY <2>2 DEF Estable, Marcha
  <2>5. r.memoria = m.memoria
    BY <2>2, <2>3, <2>4 DEF dereferenciar, Interrumpir
  <2>6. CASE operando[2] \in NombresDe(nodo)
    <3>1. EnPaginas(p.pcb, p.puntero)
      <4>1. PICK pila : pila = m.pcb.indiceStack /\ PilaClara(pila) /\ t \in DOMAIN pila /\ pila[t] = nodo
        BY NodoEnPila DEF EnPila
      <4> QED
        BY <2>2, <2>4, <2>6, <4>1, NombreEnPaginas
    <3>2. r = [p EXCEPT !.valor = ValorEn(p.memoria, p.puntero)]
      BY <2>3, <3>1 DEF dereferenciar
    <3>3. r.interrupcion = p.interrupcion /\ r.valor = ValorEn(p.memoria, p.puntero)
      BY <2>4, <3>2
    <3> QED
      BY <1>2, <1>3, <2>2, <2>5, <2>6, <3>3, EnPilaSigue DEF DefinidoEn, ValorDelNodo
  <2>7. CASE operando[2] \notin NombresDe(nodo)
    <3>1. ~EnPaginas(p.pcb, p.puntero)
      BY <2>2, <2>7 DEF EnPaginas
    <3>2. r = Interrumpir([p EXCEPT !.valor = 0], "direccionInvalida")
      BY <2>3, <3>1 DEF dereferenciar
    <3>3. r.interrupcion = "direccionInvalida"
      BY <2>4, <3>2 DEF Interrumpir
    <3> QED
      BY <1>2, <1>3, <2>5, <2>7, <3>3, EnPilaSigue DEF DefinidoEn, Fatales
  <2> QED
    BY <2>6, <2>7
<1>4. CASE ~EsVariable(operando)
  <2>1. r = [m EXCEPT !.valor = operando[2]]
    BY <1>4 DEF Operar
  <2>2. m = [pcb |-> m.pcb, memoria |-> m.memoria, aEjecutarDelPcb |-> m.aEjecutarDelPcb,
             interrupcion |-> m.interrupcion, puntero |-> m.puntero, valor |-> m.valor]
    BY <1>1 DEF Marcha
  <2>3. r.memoria = m.memoria /\ r.interrupcion = m.interrupcion /\ r.valor = operando[2]
    BY <2>1, <2>2
  <2> QED
    BY <1>2, <1>4, <2>3, EnPilaSigue DEF DefinidoEn, ValorDelNodo
<1> QED
  BY <1>3, <1>4

LEMMA Escrito ==
  ASSUME programa \in Programas, NEW m, NEW t, NEW nodo, EnPila(m, t, nodo), NEW nombre,
         NEW valor, NEW r, r = Escribir(m, nombre, valor)
  PROVE  /\ Estable(m, r)
         /\ nombre \in NombresDe(nodo) =>
              /\ r.interrupcion = m.interrupcion
              /\ r.memoria = ConValor(m.memoria, PosicionEn(nodo, nombre), valor)
         /\ nombre \notin NombresDe(nodo) => r.interrupcion \in Fatales
<1>1. Marcha(m) /\ m.pcb.indiceStack # <<>>
  BY NodoEnPila DEF EnPila
<1>2. Estable(m, r)
  BY <1>1, Escrita
<1>3. PICK p : p = obtenerPosicionVariable(m, nombre)
  OBVIOUS
<1>4. /\ Estable(m, p) /\ p.memoria = m.memoria
      /\ nombre \in NombresDe(nodo) =>
           p.interrupcion = m.interrupcion /\ p.puntero = PosicionEn(nodo, nombre)
      /\ nombre \notin NombresDe(nodo) => p.puntero = -1
  BY <1>3, Hallado
<1>5. r = asignar(p, p.puntero, valor)
  BY <1>3 DEF Escribir
<1>6. p = [pcb |-> p.pcb, memoria |-> p.memoria, aEjecutarDelPcb |-> p.aEjecutarDelPcb,
           interrupcion |-> p.interrupcion, puntero |-> p.puntero, valor |-> p.valor]
      /\ p.pcb = m.pcb /\ p.pcb \in PcbDelPrograma
  BY <1>4 DEF Estable, Marcha
<1>7. CASE nombre \in NombresDe(nodo)
  <2>1. EnPaginas(p.pcb, p.puntero)
    <3>1. PICK pila : pila = m.pcb.indiceStack /\ PilaClara(pila) /\ t \in DOMAIN pila /\ pila[t] = nodo
      BY NodoEnPila DEF EnPila
    <3> QED
      BY <1>4, <1>6, <1>7, <3>1, NombreEnPaginas
  <2>2. r = [p EXCEPT !.memoria = ConValor(p.memoria, p.puntero, valor)]
    BY <1>5, <2>1 DEF asignar, almacenarDatosEnMemoria
  <2>3. r.interrupcion = p.interrupcion /\ r.memoria = ConValor(p.memoria, p.puntero, valor)
    BY <1>6, <2>2
  <2> QED
    BY <1>2, <1>4, <1>7, <2>3
<1>8. CASE nombre \notin NombresDe(nodo)
  <2>1. ~EnPaginas(p.pcb, p.puntero)
    BY <1>4, <1>8 DEF EnPaginas
  <2>2. r = Interrumpir(p, "excepcionMemoria")
    BY <1>5, <2>1 DEF asignar
  <2>3. r.interrupcion = "excepcionMemoria"
    BY <1>6, <2>2 DEF Interrumpir
  <2> QED
    BY <1>2, <1>8, <2>3 DEF Fatales
<1> QED
  BY <1>7, <1>8

-----------------------------------------------------------------------------
(* The steps of the program, by the frames before and after.               *)

Capacidad == StackSize * PorPagina

VivasEn(mk) == Cardinality({x \in (DOMAIN mk) \X Nombres : x[2] \in DOMAIN mk[x[1]].valores})

DefinidoM(mk, operando) == operando[1] = "variable" => operando[2] \in DOMAIN Last(mk).valores

ValorM(mk, operando) ==
  IF operando[1] = "variable" THEN Last(mk).valores[operando[2]] ELSE operando[2]

\* The frame with new names.
ConNuevos(valores, nombres, nuevos) ==
  [n \in DOMAIN valores \cup nombres |-> IF n \in nombres THEN nuevos[n] ELSE valores[n]]

MarcosConNuevos(mk, nombres, nuevos) ==
  [mk EXCEPT ![Len(mk)].valores = ConNuevos(@, nombres, nuevos)]

MarcoVacio == [valores |-> <<>>, vuelve |-> 0, en |-> <<>>]

DefinirM(i, mk, mk2) ==
  \E nuevos \in [ToSet(i.nombres) -> Valores] :
    mk2 = MarcosConNuevos(IF mk = <<>> THEN <<MarcoVacio>> ELSE mk, ToSet(i.nombres), nuevos)

MarcoDeLlamada(pc, i, v) ==
  [valores |-> [n \in {Argumentos[1]} |-> v], vuelve |-> pc, en |-> <<i.destino>>]

Paso(i, pc, mk, pc2, mk2) ==
  \/ /\ i.op = "variables" /\ VivasEn(mk) + Len(i.nombres) <= Capacidad
     /\ DefinirM(i, mk, mk2) /\ pc2 = pc + 1
  \/ /\ i.op = "asignar" /\ DefinidoM(mk, i.operando) /\ i.destino \in DOMAIN Last(mk).valores
     /\ mk2 = [mk EXCEPT ![Len(mk)].valores[i.destino] = ValorM(mk, i.operando)] /\ pc2 = pc + 1
  \/ /\ i.op = "llamar" /\ DefinidoM(mk, i.operando) /\ i.destino \in DOMAIN Last(mk).valores
     /\ i.etiqueta \in DOMAIN programa.etiquetas /\ VivasEn(mk) + 1 <= Capacidad
     /\ mk2 = Append(mk, MarcoDeLlamada(pc, i, ValorM(mk, i.operando)))
     /\ pc2 = programa.etiquetas[i.etiqueta]
  \/ /\ i.op = "retornar" /\ Len(mk) > 1 /\ DefinidoM(mk, i.operando)
     /\ mk2 = [Front(mk) EXCEPT ![Len(mk) - 1].valores[Last(mk).en[1]] = ValorM(mk, i.operando)]
     /\ pc2 = Last(mk).vuelve + 1
  \/ /\ i.op = "saltar" /\ DefinidoM(mk, i.operando)
     /\ ValorM(mk, i.operando) = 0 => i.etiqueta \in DOMAIN programa.etiquetas
     /\ pc2 = IF ValorM(mk, i.operando) = 0 THEN programa.etiquetas[i.etiqueta] ELSE pc + 1
     /\ mk2 = mk
  \/ i.op \in {"wait", "pedir"} /\ mk2 = mk /\ pc2 = pc + 1
  \/ /\ i.op \in ConRespuesta /\ i.destino \in DOMAIN Last(mk).valores
     /\ \E x \in Punteros : mk2 = [mk EXCEPT ![Len(mk)].valores[i.destino] = x]
     /\ pc2 = pc + 1

ErroneaM(i, mk) ==
  \/ i.op = "variables" /\ VivasEn(mk) + Len(i.nombres) > Capacidad
  \/ i.op \in {"asignar", "llamar", "retornar", "saltar"} /\ ~DefinidoM(mk, i.operando)
  \/ /\ i.op \in {"asignar", "llamar"} \cup ConRespuesta
     /\ i.destino \notin DOMAIN Last(mk).valores
  \/ i.op \in {"llamar", "saltar"} /\ i.etiqueta \notin DOMAIN programa.etiquetas
  \/ i.op = "llamar" /\ VivasEn(mk) + 1 > Capacidad

NodoDeclarado(nodo, lugar) ==
  /\ \A v, w \in DOMAIN nodo.vars : nodo.vars[v].idVar = nodo.vars[w].idVar => v = w
  /\ \A v \in DOMAIN nodo.vars : \E i \in DOMAIN programa.codigo :
       /\ i < lugar /\ programa.codigo[i].op = "variables"
       /\ nodo.vars[v].idVar \in ToSet(programa.codigo[i].nombres)
       /\ \A e \in Entradas(programa) : e <= i <=> e <= lugar

Memorable(p, mem) ==
  /\ \A k \in DOMAIN p.indiceStack : NodoDeclarado(p.indiceStack[k], LugarDe(p, k))
  /\ Destinos(p.indiceStack) /\ Numerada(p.indiceStack) /\ MemoriaTipada(mem)

Fiel(p, mem) ==
  p \in PcbDelPrograma /\ EnOrden(p.indiceStack) /\ PilaEnRutinas(p) /\ Memorable(p, mem)

Corresponde(m, i, r) ==
  LET mk == MarcosEn(m.pcb.indiceStack, m.memoria)
      q  == ConContador(r.pcb, r.pcb.programCounter + 1)
  IN  \/ r.interrupcion \in Fatales /\ ErroneaM(i, mk)
      \/ r.interrupcion = "resEjecNegativo" /\ i.op \in {"pedir"} \cup ConRespuesta
      \/ /\ r.interrupcion \in {"ninguna", "semWait"}
         /\ Memorable(q, r.memoria)
         /\ Paso(i, m.pcb.programCounter, mk, q.programCounter, MarcosEn(q.indiceStack, r.memoria))

\* An instruction of a process that goes on, with a frame.
EnCursoFiel(m, i, t, nodo, mk) ==
  /\ EnCurso(m, i) /\ Fiel(m.pcb, m.memoria) /\ EnPila(m, t, nodo)
  /\ mk = MarcosEn(m.pcb.indiceStack, m.memoria)

LEMMA FielClara ==
  ASSUME programa \in Programas, NEW p, NEW mem, Fiel(p, mem)
  PROVE  PilaClara(p.indiceStack)
<1>1. /\ p \in PcbDelPrograma /\ EnOrden(p.indiceStack) /\ PilaEnRutinas(p)
      /\ \A k \in DOMAIN p.indiceStack : NodoDeclarado(p.indiceStack[k], LugarDe(p, k))
  BY DEF Fiel, Memorable
<1>2. p.indiceStack \in Seq(Nodo) /\ \A k \in DOMAIN p.indiceStack : p.indiceStack[k] \in Nodo
  BY <1>1, PilaDelPcb
<1>3. \A k \in DOMAIN p.indiceStack : Len(p.indiceStack[k].args) = IF k = 1 THEN 0 ELSE 1
  BY <1>1 DEF PilaEnRutinas
<1>4. \A k \in DOMAIN p.indiceStack : Len(p.indiceStack[k].args) <= 1
  BY <1>3
<1> QED
  BY <1>1, <1>2, <1>4 DEF PilaClara, NodoClaro, NodoDeclarado

LEMMA HayCima ==
  ASSUME programa \in Programas, NEW m, NEW i, EnCurso(m, i), Fiel(m.pcb, m.memoria),
         i.op # "variables"
  PROVE  \E t, nodo, mk : EnCursoFiel(m, i, t, nodo, mk)
<1>1. m.pcb.indiceStack # <<>>
  BY PilaNoVacia
<1>2. PilaClara(m.pcb.indiceStack)
  BY FielClara
<1>3. PICK t \in Nat : t = Len(m.pcb.indiceStack) /\ t > 0
  <2>1. m.pcb.indiceStack \in Seq(Nodo)
    BY <1>2 DEF PilaClara
  <2>2. Len(m.pcb.indiceStack) \in Nat /\ Len(m.pcb.indiceStack) # 0
    BY <1>1, <2>1, EmptySeq
  <2>3. Len(m.pcb.indiceStack) > 0
    BY ONLY <2>2
  <2> QED
    BY <2>2, <2>3
<1>4. Marcha(m) /\ MemoriaTipada(m.memoria)
  BY DEF EnCurso, Fiel, Memorable
<1>5. EnCursoFiel(m, i, t, m.pcb.indiceStack[t], MarcosEn(m.pcb.indiceStack, m.memoria))
  BY <1>2, <1>3, <1>4 DEF EnCursoFiel, EnPila
<1> QED
  BY <1>5

LEMMA MarcosTipados ==
  ASSUME NEW pila \in Seq(Nodo), NEW mem, NEW mk, mk = MarcosEn(pila, mem)
  PROVE  /\ Len(mk) = Len(pila) /\ DOMAIN mk = DOMAIN pila
         /\ mk \in Seq({Marco(pila, mem, k) : k \in DOMAIN pila})
         /\ \A k \in DOMAIN pila : mk[k] = Marco(pila, mem, k)
<1> DEFINE T == {Marco(pila, mem, k) : k \in DOMAIN pila}
<1>1. mk \in [DOMAIN pila -> T] /\ \A k \in DOMAIN pila : mk[k] = Marco(pila, mem, k)
  BY DEF MarcosEn
<1>2. mk \in Seq(T) /\ Len(mk) = Len(pila)
  <2> HIDE DEF T
  <2> QED
    BY <1>1, PorLugares
<1> QED
  BY <1>1, <1>2

\* What the program sees in its last frame is what the primitives find.
LEMMA UltimoMarco ==
  ASSUME NEW m, NEW i, NEW t, NEW nodo, NEW mk, EnCursoFiel(m, i, t, nodo, mk)
  PROVE  /\ Last(mk) = Marco(m.pcb.indiceStack, m.memoria, t) /\ Len(mk) = t
         /\ DOMAIN Last(mk).valores = NombresDe(nodo)
         /\ \A x : DefinidoM(mk, x) <=> DefinidoEn(nodo, x)
         /\ \A x : DefinidoEn(nodo, x) => ValorM(mk, x) = ValorDelNodo(nodo, m.memoria, x)
         /\ VivasEn(mk) = Ocupados(m.pcb.indiceStack)
<1>1. PICK pila \in Seq(Nodo) : /\ pila = m.pcb.indiceStack /\ t = Len(pila) /\ t \in DOMAIN pila
                                /\ nodo = pila[t] /\ PilaClara(pila)
  BY NodoEnPila DEF EnCursoFiel, EnPila, PilaClara
<1>2. mk = MarcosEn(pila, m.memoria) /\ Len(mk) = t /\ mk[t] = Marco(pila, m.memoria, t)
  <2>1. mk = MarcosEn(pila, m.memoria)
    BY <1>1 DEF EnCursoFiel
  <2>2. Len(mk) = Len(pila) /\ \A k \in DOMAIN pila : mk[k] = Marco(pila, m.memoria, k)
    BY <2>1, MarcosTipados
  <2> QED
    BY <1>1, <2>1, <2>2
<1>3. Last(mk) = Marco(pila, m.memoria, t)
  BY <1>2 DEF Last
<1>4. Last(mk).valores = ValoresDelNodo(nodo, m.memoria)
  BY <1>1, <1>3 DEF Marco
<1>5. /\ DOMAIN Last(mk).valores = NombresDe(nodo)
      /\ \A n \in NombresDe(nodo) : Last(mk).valores[n] = ValorEn(m.memoria, PosicionEn(nodo, n))
  BY <1>4 DEF ValoresDelNodo
<1>6. \A x : DefinidoM(mk, x) <=> DefinidoEn(nodo, x)
  BY <1>5 DEF DefinidoM, DefinidoEn, EsVariable
<1>7. \A x : DefinidoEn(nodo, x) => ValorM(mk, x) = ValorDelNodo(nodo, m.memoria, x)
  BY <1>5 DEF ValorM, DefinidoEn, EsVariable, ValorDelNodo
<1>8. VivasEn(mk) = Ocupados(pila)
  BY <1>1, <1>2, VivasSon DEF VivasEn
<1> QED
  BY <1>1, <1>2, <1>3, <1>5, <1>6, <1>7, <1>8

LEMMA DeclaradoSigue ==
  ASSUME NEW nodo, NEW i, NodoDeclarado(nodo, i), NEW j, i \in Nat, j \in Nat, i <= j,
         programa \in Programas, \A e \in Entradas(programa) : e <= i <=> e <= j
  PROVE  NodoDeclarado(nodo, j)
<1>1. ASSUME NEW v \in DOMAIN nodo.vars
      PROVE  \E k \in DOMAIN programa.codigo :
               /\ k < j /\ programa.codigo[k].op = "variables"
               /\ nodo.vars[v].idVar \in ToSet(programa.codigo[k].nombres)
               /\ \A e \in Entradas(programa) : e <= k <=> e <= j
  <2>1. PICK k \in DOMAIN programa.codigo :
          /\ k < i /\ programa.codigo[k].op = "variables"
          /\ nodo.vars[v].idVar \in ToSet(programa.codigo[k].nombres)
          /\ \A e \in Entradas(programa) : e <= k <=> e <= i
    BY DEF NodoDeclarado
  <2>2. k \in Nat
    BY EntradasEnElTexto
  <2>3. k < j
    BY ONLY <2>1, <2>2, i \in Nat, j \in Nat, i <= j
  <2> QED
    BY <2>1, <2>3
<1> QED
  BY <1>1 DEF NodoDeclarado

\* The same frames, with the last one at another place, and another memory.
LEMMA MemorableEnOtroLugar ==
  ASSUME NEW p \in PcbDelPrograma, NEW mem, Memorable(p, mem), NEW pc \in Int,
         NEW q, q = ConContador(p, pc), NEW t \in Nat, t = Len(p.indiceStack),
         NEW nodo, nodo = p.indiceStack[t], NodoDeclarado(nodo, pc + 1),
         NEW mem2, MemoriaTipada(mem2)
  PROVE  Memorable(q, mem2)
<1>1. q.indiceStack = p.indiceStack /\ q.programCounter = pc
  BY PcbConContador
<1>2. \A k \in DOMAIN p.indiceStack : k # t => LugarDe(q, k) = LugarDe(p, k)
  BY <1>1 DEF LugarDe
<1>3. LugarDe(q, t) = pc + 1
  BY <1>1 DEF LugarDe
<1> QED
  BY <1>1, <1>2, <1>3 DEF Memorable

LEMMA MemorableSiguiente ==
  ASSUME programa \in Programas, NEW m, NEW i, NEW t, NEW nodo, NEW mk,
         EnCursoFiel(m, i, t, nodo, mk), i.op \notin {"fin", "retornar"},
         NEW q, q = ConContador(m.pcb, m.pcb.programCounter + 1),
         NEW mem2, MemoriaTipada(mem2)
  PROVE  /\ Memorable(q, mem2) /\ q.indiceStack = m.pcb.indiceStack
         /\ q.programCounter = m.pcb.programCounter + 1
<1>1. PICK p \in PcbDelPrograma : /\ p = m.pcb /\ PilaEnRutinas(p) /\ Memorable(p, m.memoria)
                                  /\ i = programa.codigo[p.programCounter + 1]
  BY DEF EnCursoFiel, Fiel, EnCurso
<1>2. PICK l : l = p.programCounter + 1 /\ l \in DOMAIN programa.codigo /\ l \in Nat
  BY <1>1, EntradasEnElTexto DEF PilaEnRutinas
<1>3. l + 1 \in DOMAIN programa.codigo /\ l + 1 \notin Entradas(programa)
  BY <1>1, <1>2, SiguienteEnElTexto
<1>4. t = Len(p.indiceStack) /\ nodo = p.indiceStack[t] /\ t \in Nat /\ t \in DOMAIN p.indiceStack
  BY <1>1, NodoEnPila DEF EnCursoFiel, EnPila
<1>5. NodoDeclarado(nodo, l)
  BY <1>1, <1>2, <1>4 DEF Memorable, LugarDe
<1>6. NodoDeclarado(nodo, l + 1)
  <2>1. \A e \in Entradas(programa) : e <= l <=> e <= l + 1
    BY <1>2, <1>3, EntradasEnElTexto
  <2>2. l + 1 \in Nat /\ l <= l + 1
    BY <1>2
  <2> QED
    BY <1>2, <1>5, <2>1, <2>2, DeclaradoSigue
<1>7. PICK pc \in Int : pc = p.programCounter + 1 /\ pc = l
  BY <1>2
<1>8. q = ConContador(p, pc) /\ NodoDeclarado(nodo, pc + 1)
  BY <1>1, <1>6, <1>7
<1>9. Memorable(q, mem2)
  BY <1>1, <1>4, <1>8, MemorableEnOtroLugar
<1>10. q.indiceStack = p.indiceStack /\ q.programCounter = pc
  BY <1>8, PcbConContador
<1> QED
  BY <1>1, <1>7, <1>9, <1>10

\* An instruction that leaves the stack as it was.
LEMMA AvanzaCorresponde ==
  ASSUME programa \in Programas, NEW m, NEW i, NEW t, NEW nodo, NEW mk,
         EnCursoFiel(m, i, t, nodo, mk), i.op \notin {"fin", "retornar"},
         NEW r, r.pcb = m.pcb, r.interrupcion \in {"ninguna", "semWait"}, MemoriaTipada(r.memoria),
         Paso(i, m.pcb.programCounter, mk, m.pcb.programCounter + 1,
              MarcosEn(m.pcb.indiceStack, r.memoria))
  PROVE  Corresponde(m, i, r)
<1>1. PICK q : q = ConContador(m.pcb, m.pcb.programCounter + 1)
  OBVIOUS
<1>2. /\ Memorable(q, r.memoria) /\ q.indiceStack = m.pcb.indiceStack
      /\ q.programCounter = m.pcb.programCounter + 1
  BY <1>1, MemorableSiguiente
<1>3. mk = MarcosEn(m.pcb.indiceStack, m.memoria)
  BY DEF EnCursoFiel
<1> QED
  BY <1>1, <1>2, <1>3 DEF Corresponde

LEMMA ErroneaCorresponde ==
  ASSUME NEW m, NEW i, NEW t, NEW nodo, NEW mk, EnCursoFiel(m, i, t, nodo, mk),
         NEW r, r.interrupcion \in Fatales, ErroneaM(i, mk)
  PROVE  Corresponde(m, i, r)
<1>1. mk = MarcosEn(m.pcb.indiceStack, m.memoria)
  BY DEF EnCursoFiel
<1> QED
  BY <1>1 DEF Corresponde

\* A value written where the last frame has a name.
LEMMA MarcosEscritos ==
  ASSUME NEW m, NEW i, NEW t, NEW nodo, NEW mk, EnCursoFiel(m, i, t, nodo, mk),
         programa \in Programas, NEW n \in NombresDe(nodo), NEW v \in Valores,
         NEW mem, mem = ConValor(m.memoria, PosicionEn(nodo, n), v)
  PROVE  /\ MemoriaTipada(mem)
         /\ MarcosEn(m.pcb.indiceStack, mem) = [mk EXCEPT ![t].valores[n] = v]
<1>1. PICK pila : /\ pila = m.pcb.indiceStack /\ PilaClara(pila) /\ t \in DOMAIN pila
                  /\ nodo = pila[t] /\ MemoriaTipada(m.memoria) /\ m.pcb \in PcbDelPrograma
  BY NodoEnPila DEF EnCursoFiel, EnPila
<1>2. PICK a : a = PosicionEn(pila[t], n)
  OBVIOUS
<1>3. a \in Nat
  BY <1>1, <1>2, NombreEnPaginas
<1>4. mem = ConValor(m.memoria, a, v)
  BY <1>1, <1>2
<1>5. MemoriaTipada(mem)
  BY <1>1, <1>3, <1>4, ValorGuardado
<1>6. MarcosEn(pila, mem) = [MarcosEn(pila, m.memoria) EXCEPT ![t].valores[n] = v]
  BY <1>1, <1>2, <1>3, <1>4, MarcosConValor
<1>7. mk = MarcosEn(pila, m.memoria)
  BY <1>1 DEF EnCursoFiel
<1> QED
  BY <1>1, <1>5, <1>6, <1>7

LEMMA OperandoConocido ==
  ASSUME programa \in Programas, NEW m, NEW i, NEW t, NEW nodo, NEW mk,
         EnCursoFiel(m, i, t, nodo, mk), i.op \in {"asignar", "llamar", "retornar"}
  PROVE  ValorDelNodo(nodo, m.memoria, i.operando) \in Valores
<1>1. /\ m.pcb.programCounter + 1 \in DOMAIN programa.codigo
      /\ i = programa.codigo[m.pcb.programCounter + 1] /\ MemoriaTipada(m.memoria)
  BY DEF EnCursoFiel, EnCurso, PilaEnRutinas, EnPila
<1>2. ~EsVariable(i.operando) => i.operando[2] \in Valores
  BY <1>1, ProgramasBienFormados DEF ValoresConocidos
<1> QED
  BY <1>1, <1>2, ValorConocido DEF ValorDelNodo

LEMMA AsignacionCorresponde ==
  ASSUME programa \in Programas, NEW m, NEW i, NEW t, NEW nodo, NEW mk,
         EnCursoFiel(m, i, t, nodo, mk), i.op = "asignar", NEW r, r = Asignacion(m, i)
  PROVE  Corresponde(m, i, r)
<1>1. EnPila(m, t, nodo) /\ m.interrupcion = "ninguna"
  BY DEF EnCursoFiel, EnCurso
<1>2. PICK v : v = Operar(m, i.operando)
  OBVIOUS
<1>3. /\ Estable(m, v) /\ v.memoria = m.memoria /\ EnPila(v, t, nodo)
      /\ DefinidoEn(nodo, i.operando) =>
           v.interrupcion = "ninguna" /\ v.valor = ValorDelNodo(nodo, m.memoria, i.operando)
      /\ ~DefinidoEn(nodo, i.operando) => v.interrupcion \in Fatales
  BY <1>1, <1>2, Operado
<1>4. r = Escribir(v, i.destino, v.valor)
  BY <1>2 DEF Asignacion
<1>5. /\ Estable(v, r)
      /\ i.destino \in NombresDe(nodo) =>
           /\ r.interrupcion = v.interrupcion
           /\ r.memoria = ConValor(v.memoria, PosicionEn(nodo, i.destino), v.valor)
      /\ i.destino \notin NombresDe(nodo) => r.interrupcion \in Fatales
  BY <1>3, <1>4, Escrito
<1>6. r.pcb = m.pcb /\ (v.interrupcion \in Fatales => r.interrupcion \in Fatales)
  BY <1>3, <1>5 DEF Estable, Interrumpida
<1>7. /\ Len(mk) = t /\ DOMAIN Last(mk).valores = NombresDe(nodo)
      /\ DefinidoM(mk, i.operando) <=> DefinidoEn(nodo, i.operando)
      /\ DefinidoEn(nodo, i.operando) =>
           ValorM(mk, i.operando) = ValorDelNodo(nodo, m.memoria, i.operando)
  BY UltimoMarco
<1>8. CASE DefinidoEn(nodo, i.operando) /\ i.destino \in NombresDe(nodo)
  <2>1. PICK x \in Valores : x = v.valor /\ x = ValorM(mk, i.operando)
    BY <1>3, <1>7, <1>8, OperandoConocido
  <2>2. r.memoria = ConValor(m.memoria, PosicionEn(nodo, i.destino), x)
    BY <1>3, <1>5, <1>8, <2>1
  <2>3. /\ MemoriaTipada(r.memoria)
        /\ MarcosEn(m.pcb.indiceStack, r.memoria) = [mk EXCEPT ![t].valores[i.destino] = x]
    BY <1>8, <2>1, <2>2, MarcosEscritos
  <2>4. Paso(i, m.pcb.programCounter, mk, m.pcb.programCounter + 1,
             MarcosEn(m.pcb.indiceStack, r.memoria))
    BY <1>7, <1>8, <2>1, <2>3 DEF Paso
  <2>5. r.interrupcion = "ninguna"
    BY <1>3, <1>5, <1>8
  <2> QED
    BY <1>6, <2>3, <2>4, <2>5, AvanzaCorresponde
<1>9. CASE ~(DefinidoEn(nodo, i.operando) /\ i.destino \in NombresDe(nodo))
  <2>1. r.interrupcion \in Fatales
    BY <1>3, <1>5, <1>6, <1>9
  <2>2. ErroneaM(i, mk)
    BY <1>7, <1>9 DEF ErroneaM
  <2> QED
    BY <2>1, <2>2, ErroneaCorresponde
<1> QED
  BY <1>8, <1>9

LEMMA EsperaCorresponde ==
  ASSUME programa \in Programas, NEW m, NEW i, NEW t, NEW nodo, NEW mk,
         EnCursoFiel(m, i, t, nodo, mk), i.op = "wait",
         NEW rechazo, NEW r, r = Espera(m, rechazo)
  PROVE  Corresponde(m, i, r) /\ r.pcb = m.pcb
<1>1. /\ m.interrupcion = "ninguna" /\ MemoriaTipada(m.memoria)
      /\ m = [pcb |-> m.pcb, memoria |-> m.memoria, aEjecutarDelPcb |-> m.aEjecutarDelPcb,
              interrupcion |-> m.interrupcion, puntero |-> m.puntero, valor |-> m.valor]
      /\ mk = MarcosEn(m.pcb.indiceStack, m.memoria)
  BY DEF EnCursoFiel, EnCurso, EnPila, Marcha
<1>2. /\ r.pcb = m.pcb /\ r.memoria = m.memoria /\ r.interrupcion \in {"ninguna", "semWait"}
  BY <1>1 DEF Espera, Interrumpir
<1>3. Paso(i, m.pcb.programCounter, mk, m.pcb.programCounter + 1,
           MarcosEn(m.pcb.indiceStack, r.memoria))
  BY <1>1, <1>2 DEF Paso
<1> QED
  BY <1>1, <1>2, <1>3, AvanzaCorresponde

LEMMA PedidoCorresponde ==
  ASSUME programa \in Programas, NEW m, NEW i, NEW t, NEW nodo, NEW mk,
         EnCursoFiel(m, i, t, nodo, mk), i.op = "pedir",
         NEW rechazo, NEW r, r = Pedido(m, rechazo)
  PROVE  Corresponde(m, i, r) /\ r.pcb = m.pcb
<1>1. /\ m.interrupcion = "ninguna" /\ MemoriaTipada(m.memoria)
      /\ m = [pcb |-> m.pcb, memoria |-> m.memoria, aEjecutarDelPcb |-> m.aEjecutarDelPcb,
              interrupcion |-> m.interrupcion, puntero |-> m.puntero, valor |-> m.valor]
      /\ mk = MarcosEn(m.pcb.indiceStack, m.memoria)
  BY DEF EnCursoFiel, EnCurso, EnPila, Marcha
<1>2. CASE rechazo
  <2>1. r.interrupcion = "resEjecNegativo" /\ r.pcb = m.pcb
    BY <1>1, <1>2 DEF Pedido, Interrumpir
  <2> QED
    BY <2>1 DEF Corresponde
<1>3. CASE ~rechazo
  <2>1. r = m
    BY <1>3 DEF Pedido
  <2>2. Paso(i, m.pcb.programCounter, mk, m.pcb.programCounter + 1,
             MarcosEn(m.pcb.indiceStack, r.memoria))
    BY <1>1, <2>1 DEF Paso
  <2> QED
    BY <1>1, <2>1, <2>2, AvanzaCorresponde
<1> QED
  BY <1>2, <1>3

\* What the CPU takes for the answer, whatever the Kernel meant.
LEMMA AlocarCorresponde ==
  ASSUME programa \in Programas, NEW m, NEW i, NEW t, NEW nodo, NEW mk,
         EnCursoFiel(m, i, t, nodo, mk), i.op \in ConRespuesta,
         NEW negativa \in BOOLEAN, NEW x, x \in Punteros \/ negativa,
         NEW r, r = Alocar(m, i, negativa, x)
  PROVE  Corresponde(m, i, r) /\ r.pcb = m.pcb
<1>1. EnPila(m, t, nodo) /\ m.interrupcion = "ninguna"
  BY DEF EnCursoFiel, EnCurso
<1>2. PICK s : s = Pedido(m, negativa)
  OBVIOUS
<1>3. /\ Marcha(s) /\ s.pcb = m.pcb /\ s.memoria = m.memoria
      /\ s.interrupcion = IF negativa THEN "resEjecNegativo" ELSE "ninguna"
  <2>1. CASE negativa = TRUE
    <3>1. m = [pcb |-> m.pcb, memoria |-> m.memoria, aEjecutarDelPcb |-> m.aEjecutarDelPcb,
               interrupcion |-> m.interrupcion, puntero |-> m.puntero, valor |-> m.valor]
      BY <1>1 DEF EnPila, Marcha
    <3>2. s.memoria = m.memoria
      BY <1>2, <2>1, <3>1 DEF Pedido, Interrumpir
    <3> QED
      BY <1>1, <1>2, <2>1, <3>2, RechazoPedido DEF EnPila
  <2>2. CASE negativa = FALSE
    BY <1>1, <1>2, <2>2 DEF Pedido, EnPila
  <2> QED
    BY <2>1, <2>2
<1>4. EnPila(s, t, nodo)
  BY <1>1, <1>3 DEF EnPila
<1>5. PICK y : y = (IF negativa THEN 0 ELSE x)
  OBVIOUS
<1>6. r = Escribir(s, i.destino, y)
  BY <1>2, <1>5 DEF Alocar
<1>7. /\ Estable(s, r)
      /\ i.destino \in NombresDe(nodo) =>
           /\ r.interrupcion = s.interrupcion
           /\ r.memoria = ConValor(m.memoria, PosicionEn(nodo, i.destino), y)
      /\ i.destino \notin NombresDe(nodo) => r.interrupcion \in Fatales
  BY <1>3, <1>4, <1>6, Escrito
<1>8. Len(mk) = t /\ DOMAIN Last(mk).valores = NombresDe(nodo)
  BY UltimoMarco
<1>12. r.pcb = m.pcb
  BY <1>3, <1>7 DEF Estable
<1>9. CASE i.destino \notin NombresDe(nodo)
  <2>1. i.op \in {"alocar", "abrir"} /\ i.destino \notin DOMAIN Last(mk).valores
    BY <1>8, <1>9 DEF ConRespuesta
  <2>2. ErroneaM(i, mk)
    BY <2>1 DEF ErroneaM
  <2> QED
    BY <1>7, <1>9, <1>12, <2>2, ErroneaCorresponde
<1>10. CASE i.destino \in NombresDe(nodo) /\ negativa
  <2>1. r.interrupcion = "resEjecNegativo"
    BY <1>3, <1>7, <1>10
  <2>2. i.op \in {"pedir"} \cup ConRespuesta
    OBVIOUS
  <2> QED
    BY <1>12, <2>1, <2>2 DEF Corresponde
<1>11. CASE i.destino \in NombresDe(nodo) /\ ~negativa
  <2>1. y \in Punteros /\ y \in Valores
    BY <1>5, <1>11, ValoresAssumption
  <2>2. /\ MemoriaTipada(r.memoria)
        /\ MarcosEn(m.pcb.indiceStack, r.memoria) = [mk EXCEPT ![t].valores[i.destino] = y]
    BY <1>7, <1>11, <2>1, MarcosEscritos
  <2>3. Paso(i, m.pcb.programCounter, mk, m.pcb.programCounter + 1,
             MarcosEn(m.pcb.indiceStack, r.memoria))
    BY <1>8, <1>11, <2>1, <2>2 DEF Paso
  <2>4. r.interrupcion = "ninguna" /\ r.pcb = m.pcb /\ i.op \notin {"fin", "retornar"}
    BY <1>3, <1>7, <1>11 DEF Estable, ConRespuesta
  <2> QED
    BY <2>2, <2>3, <2>4, AvanzaCorresponde
<1> QED
  BY <1>9, <1>10, <1>11

\* The variable that the assignment does not find is not in the frame of the program.
LEMMA SinDestinoVisto ==
  ASSUME programa \in Programas, NEW m, NEW i, NEW t, NEW nodo, NEW mk,
         EnCursoFiel(m, i, t, nodo, mk), NEW q, q.indiceStack = m.pcb.indiceStack,
         programa.codigo[q.programCounter] = i, SinDestino(q)
  PROVE  i.destino \notin DOMAIN Last(mk).valores
<1>1. /\ NodoClaro(nodo) /\ m.pcb \in PcbDelPrograma /\ m.pcb.indiceStack # <<>>
      /\ nodo = Last(m.pcb.indiceStack)
  BY NodoEnPila DEF EnCursoFiel, EnPila, Last, Marcha
<1>2. PICK n : n = i.destino
  OBVIOUS
<1>3. PICK d : d = Direcciones(m.pcb, n)
  OBVIOUS
<1>4. DOMAIN d = {}
  BY <1>2, <1>3 DEF SinDestino, Direcciones
<1>5. n \notin NombresDe(nodo)
  BY <1>1, <1>3, <1>4, DireccionUnica
<1> QED
  BY <1>2, <1>5, UltimoMarco

\* A jump does not leave a declaration of its routine behind, nor go back over one.
LEMMA DeclaradoTrasSaltar ==
  ASSUME programa \in Programas, NEW x \in DOMAIN programa.codigo,
         programa.codigo[x].op = "saltar", Etiquetada(programa, x),
         NEW j, j = programa.etiquetas[programa.codigo[x].etiqueta] + 1,
         NEW nodo, NodoDeclarado(nodo, x)
  PROVE  NodoDeclarado(nodo, j)
<1>1. x \in Nat /\ j \in DOMAIN programa.codigo /\ j \in Nat
  <2>1. programa.etiquetas[programa.codigo[x].etiqueta] \in 0..(Len(programa.codigo) - 1)
    BY TextoDelPrograma DEF Etiquetada
  <2>2. PICK n \in Nat : n = Len(programa.codigo) /\ DOMAIN programa.codigo = 1..n
    BY TextoDelPrograma
  <2>3. PICK d \in 0..(n - 1) : j = d + 1
    BY <2>1, <2>2
  <2> QED
    BY <2>2, <2>3
<1>2. \A e \in Entradas(programa) : e <= x <=> e <= j
  BY TextoDelPrograma DEF RutinasBienFormadas
<1>3. CASE x <= j
  BY <1>1, <1>2, <1>3, DeclaradoSigue
<1>4. CASE j < x
  <2>1. ASSUME NEW v \in DOMAIN nodo.vars
        PROVE  \E k \in DOMAIN programa.codigo :
                 /\ k < j /\ programa.codigo[k].op = "variables"
                 /\ nodo.vars[v].idVar \in ToSet(programa.codigo[k].nombres)
                 /\ \A e \in Entradas(programa) : e <= k <=> e <= j
    <3>1. PICK k \in DOMAIN programa.codigo :
            /\ k < x /\ programa.codigo[k].op = "variables"
            /\ nodo.vars[v].idVar \in ToSet(programa.codigo[k].nombres)
            /\ \A e \in Entradas(programa) : e <= k <=> e <= x
      BY DEF NodoDeclarado
    <3>2. k \notin j..x
      BY <3>1, ProgramasBienFormados DEF NombresUnaVez
    <3>3. k \in Nat
      BY EntradasEnElTexto
    <3>4. k < j
      BY ONLY <1>1, <3>1, <3>2, <3>3
    <3> QED
      BY <1>2, <3>1, <3>4
  <2> QED
    BY <2>1 DEF NodoDeclarado
<1> QED
  BY <1>1, <1>3, <1>4

LEMMA SaltoCorresponde ==
  ASSUME programa \in Programas, NEW m, NEW i, NEW t, NEW nodo, NEW mk,
         EnCursoFiel(m, i, t, nodo, mk), i.op = "saltar", NEW r, r = SaltoSiCero(m, i)
  PROVE  Corresponde(m, i, r)
<1>1. /\ EnPila(m, t, nodo) /\ m.interrupcion = "ninguna" /\ MemoriaTipada(m.memoria)
      /\ mk = MarcosEn(m.pcb.indiceStack, m.memoria)
  BY DEF EnCursoFiel, EnCurso, EnPila
<1>2. PICK v : v = Operar(m, i.operando)
  OBVIOUS
<1>3. /\ Estable(m, v) /\ v.memoria = m.memoria /\ EnPila(v, t, nodo)
      /\ DefinidoEn(nodo, i.operando) =>
           v.interrupcion = "ninguna" /\ v.valor = ValorDelNodo(nodo, m.memoria, i.operando)
      /\ ~DefinidoEn(nodo, i.operando) => v.interrupcion \in Fatales
  BY <1>1, <1>2, Operado
<1>4. v.pcb = m.pcb
  BY <1>3 DEF Estable
<1>5. /\ DefinidoM(mk, i.operando) <=> DefinidoEn(nodo, i.operando)
      /\ DefinidoEn(nodo, i.operando) =>
           ValorM(mk, i.operando) = ValorDelNodo(nodo, m.memoria, i.operando)
  BY UltimoMarco
<1>6. CASE v.valor # 0 /\ DefinidoEn(nodo, i.operando)
  <2>1. r = v
    BY <1>2, <1>6 DEF SaltoSiCero
  <2>2. Paso(i, m.pcb.programCounter, mk, m.pcb.programCounter + 1,
             MarcosEn(m.pcb.indiceStack, r.memoria))
    BY <1>1, <1>3, <1>5, <1>6, <2>1 DEF Paso
  <2> QED
    BY <1>1, <1>3, <1>4, <1>6, <2>1, <2>2, AvanzaCorresponde
<1>7. CASE v.valor = 0
  <2>1. r = Saltar(v, i.etiqueta)
    BY <1>2, <1>7 DEF SaltoSiCero, irAlLabel
  <2>2. CASE i.etiqueta \notin DOMAIN programa.etiquetas
    <3>1. v.pcb.indiceEtiquetas = programa.etiquetas
      BY <1>4, <1>1, NodoEnPila, PilaDelPcb
    <3>2. r = Interrumpir(v, "direccionInvalida")
      BY <2>1, <2>2, <3>1 DEF Saltar
    <3>3. v = [pcb |-> v.pcb, memoria |-> v.memoria, aEjecutarDelPcb |-> v.aEjecutarDelPcb,
               interrupcion |-> v.interrupcion, puntero |-> v.puntero, valor |-> v.valor]
      BY <1>3 DEF EnPila, Marcha
    <3>4. r.interrupcion \in Fatales
      BY <3>2, <3>3 DEF Interrumpir, Fatales
    <3>5. ErroneaM(i, mk)
      BY <2>2 DEF ErroneaM
    <3> QED
      BY <3>4, <3>5, ErroneaCorresponde
  <2>3. CASE i.etiqueta \in DOMAIN programa.etiquetas
    <3>1. PICK d \in Nat : d = programa.etiquetas[i.etiqueta]
      BY <2>3, TextoDelPrograma
    <3>2. v.pcb.indiceEtiquetas = programa.etiquetas /\ m.pcb \in PcbDelPrograma
      BY <1>4, <1>1, NodoEnPila, PilaDelPcb
    <3>3. PICK c : r = [v EXCEPT !.pcb.programCounter = d - 1, !.aEjecutarDelPcb = c]
      BY <2>1, <2>3, <3>1, <3>2 DEF Saltar
    <3>4. v = [pcb |-> v.pcb, memoria |-> v.memoria, aEjecutarDelPcb |-> v.aEjecutarDelPcb,
               interrupcion |-> v.interrupcion, puntero |-> v.puntero, valor |-> v.valor]
      BY <1>3 DEF EnPila, Marcha
    <3>5. /\ r.pcb = ConContador(m.pcb, d - 1) /\ r.memoria = m.memoria
          /\ r.interrupcion = v.interrupcion
      BY <1>3, <1>4, <3>3, <3>4 DEF ConContador
    <3>6. CASE ~DefinidoEn(nodo, i.operando)
      <4>1. ErroneaM(i, mk)
        BY <1>5, <3>6 DEF ErroneaM
      <4> QED
        BY <1>3, <3>5, <3>6, <4>1, ErroneaCorresponde
    <3>7. CASE DefinidoEn(nodo, i.operando)
      <4>1. PICK p \in PcbDelPrograma : /\ p = m.pcb /\ PilaEnRutinas(p) /\ Memorable(p, m.memoria)
                                        /\ i = programa.codigo[p.programCounter + 1]
        BY <3>2 DEF EnCursoFiel, Fiel, EnCurso
      <4>2. PICK x \in DOMAIN programa.codigo : x = p.programCounter + 1
        BY <4>1 DEF PilaEnRutinas
      <4>3. t = Len(p.indiceStack) /\ nodo = p.indiceStack[t] /\ t \in Nat /\ t \in DOMAIN p.indiceStack
        BY <1>1, <4>1, NodoEnPila DEF EnPila
      <4>4. NodoDeclarado(nodo, x)
        BY <4>1, <4>2, <4>3 DEF Memorable, LugarDe
      <4>5. NodoDeclarado(nodo, d + 1)
        <5>1. Etiquetada(programa, x) /\ i = programa.codigo[x]
          BY <2>3, <4>1, <4>2 DEF Etiquetada
        <5> QED
          BY <3>1, <4>2, <4>4, <5>1, DeclaradoTrasSaltar
      <4>6. PICK q : q = ConContador(r.pcb, r.pcb.programCounter + 1)
        OBVIOUS
      <4>7. q = ConContador(p, d)
        <5>1. d - 1 \in Int /\ d - 1 + 1 = d
          OBVIOUS
        <5>2. r.pcb.programCounter = d - 1 /\ r.pcb = ConContador(p, d - 1)
          BY <3>5, <4>1, <5>1, PcbConContador
        <5> QED
          BY <4>6, <5>1, <5>2 DEF ConContador
      <4>8. Memorable(q, r.memoria) /\ q.indiceStack = p.indiceStack /\ q.programCounter = d
        <5>1. d \in Int
          OBVIOUS
        <5>2. Memorable(q, r.memoria)
          BY <1>1, <3>5, <4>1, <4>3, <4>5, <4>7, <5>1, MemorableEnOtroLugar
        <5> QED
          BY <4>7, <5>1, <5>2, PcbConContador
      <4>9. Paso(i, m.pcb.programCounter, mk, q.programCounter,
                 MarcosEn(q.indiceStack, r.memoria))
        <5>1. ValorM(mk, i.operando) = 0
          BY <1>3, <1>5, <1>7, <3>7
        <5> QED
          BY <1>1, <1>5, <2>3, <3>1, <3>5, <3>7, <4>1, <4>8, <5>1 DEF Paso
      <4> QED
        BY <1>1, <1>3, <3>5, <3>7, <4>6, <4>8, <4>9 DEF Corresponde
    <3> QED
      BY <3>6, <3>7
  <2> QED
    BY <2>2, <2>3
<1>8. CASE v.valor # 0 /\ ~DefinidoEn(nodo, i.operando)
  <2>1. r = v
    BY <1>2, <1>8 DEF SaltoSiCero
  <2>2. ErroneaM(i, mk)
    BY <1>5, <1>8 DEF ErroneaM
  <2> QED
    BY <1>3, <1>8, <2>1, <2>2, ErroneaCorresponde
<1> QED
  BY <1>6, <1>7, <1>8

-----------------------------------------------------------------------------
(* The return of a call.                                                   *)

MismoMarco(s, pila, k) == s[k] = pila[k] /\ (k # 1 => s[k - 1] = pila[k - 1])

LEMMA MarcoIgual ==
  ASSUME NEW pila, NEW s, NEW k, MismoMarco(s, pila, k), NEW mem
  PROVE  Marco(s, mem, k) = Marco(pila, mem, k)
<1>1. DestinoDe(s, k) = DestinoDe(pila, k)
  <2>1. CASE k = 1
    BY <2>1 DEF DestinoDe
  <2>2. CASE k # 1
    <3>1. PICK x, y : /\ s[k] = x /\ pila[k] = x /\ s[k - 1] = y /\ pila[k - 1] = y
      BY <2>2 DEF MismoMarco
    <3> QED
      BY <2>2, <3>1 DEF DestinoDe
  <2> QED
    BY <2>1, <2>2
<1> QED
  BY <1>1 DEF Marco, MismoMarco

\* Where the call returns to, in the frame of its caller.
LEMMA DestinoDelMarco ==
  ASSUME NEW pila, Destinos(pila), NEW t \in DOMAIN pila, t > 1, NEW n, n = DestinoDe(pila, t)[1]
  PROVE  n \in NombresDe(pila[t - 1]) /\ PosicionEn(pila[t - 1], n) = PunteroDe(pila[t].retVar)
<1>1. \E o \in NombresDe(pila[t - 1]) :
        PunteroDe(DireccionEn(pila[t - 1], o)) = PunteroDe(pila[t].retVar)
  BY DEF Destinos
<1>2. n = CHOOSE o \in NombresDe(pila[t - 1]) :
            PunteroDe(DireccionEn(pila[t - 1], o)) = PunteroDe(pila[t].retVar)
  BY DEF DestinoDe
<1> QED
  BY <1>1, <1>2 DEF PosicionEn

\* The caller has the value, and the frame of the call is gone.
MarcosConRetorno(mk, v) == [Front(mk) EXCEPT ![Len(mk) - 1].valores[Last(mk).en[1]] = v]

VolvioCon(p, t, q, s, mem, mem2, v, x, mk) ==
  /\ Volvio(p, t, q, s) /\ Memorable(p, mem) /\ PilaClara(p.indiceStack) /\ PilaClara(s)
  /\ v \in Valores /\ x = PunteroDe(p.indiceStack[t].retVar) /\ mem2 = ConValor(mem, x, v)
  /\ mk = MarcosEn(p.indiceStack, mem)

LEMMA MarcosVuelven ==
  ASSUME programa \in Programas, NEW p, NEW t, NEW q, NEW s, NEW mem, NEW mem2, NEW v, NEW x,
         NEW mk, VolvioCon(p, t, q, s, mem, mem2, v, x, mk)
  PROVE  /\ EnPaginas(p, x) /\ MemoriaTipada(mem2) /\ Len(mk) = t
         /\ MarcosEn(s, mem2) = MarcosConRetorno(mk, v)
<1>0. /\ p \in PcbDelPrograma /\ t \in Nat /\ t >= 2 /\ t = Len(p.indiceStack)
      /\ s \in Seq(Nodo) /\ Len(s) = t - 1 /\ \A k \in 1..(t - 1) : s[k] = p.indiceStack[k]
      /\ Memorable(p, mem) /\ PilaClara(p.indiceStack) /\ PilaClara(s) /\ v \in Valores
      /\ x = PunteroDe(p.indiceStack[t].retVar) /\ mem2 = ConValor(mem, x, v)
      /\ mk = MarcosEn(p.indiceStack, mem)
  BY DEF VolvioCon, Volvio
<1>1. PICK pila \in Seq(Nodo) : pila = p.indiceStack
  BY <1>0, PilaDelPcb
<1>2. PICK u \in Nat : u = t - 1 /\ t = u + 1 /\ u >= 1 /\ t \in Nat /\ t # 1 /\ t > 1
  <2>1. t - 1 \in Nat /\ t = (t - 1) + 1 /\ t - 1 >= 1 /\ t > 1
    BY <1>0
  <2> QED
    BY <1>0, <2>1
<1>3. Len(pila) = t /\ DOMAIN pila = 1..t /\ t \in 1..t /\ u \in 1..t /\ DOMAIN s = 1..u /\ u \in 1..u
      /\ \A k \in 1..u : s[k] = pila[k] /\ k \in 1..t
  <2>1. Len(pila) = t /\ Len(s) = u /\ \A k \in 1..u : s[k] = pila[k]
    BY <1>0, <1>1, <1>2
  <2>2. DOMAIN pila = 1..Len(pila) /\ DOMAIN s = 1..Len(s)
    BY <1>0
  <2>3. t \in 1..t /\ u \in 1..t /\ u \in 1..u /\ \A k \in 1..u : k \in 1..t
    BY <1>2
  <2> QED
    BY <2>1, <2>2, <2>3
<1>4. PICK n : n = DestinoDe(pila, t)[1]
  OBVIOUS
<1>5. n \in NombresDe(s[u]) /\ PosicionEn(s[u], n) = x
  <2>1. Destinos(pila)
    BY <1>0, <1>1 DEF Memorable
  <2>2. n \in NombresDe(pila[t - 1]) /\ PosicionEn(pila[t - 1], n) = PunteroDe(pila[t].retVar)
    <3>1. t \in DOMAIN pila /\ t > 1
      BY <1>2, <1>3
    <3> QED
      BY <1>4, <2>1, <3>1, DestinoDelMarco
  <2> QED
    BY <1>0, <1>1, <1>2, <1>3, <2>2
<1>6. EnPaginas(p, x) /\ x \in Nat
  <2>1. u \in DOMAIN s /\ x = PosicionEn(s[u], n)
    BY <1>3, <1>5
  <2> QED
    BY <1>0, <1>5, <2>1, NombreEnPaginas
<1>7. MemoriaTipada(mem) /\ MemoriaTipada(mem2)
  BY <1>0, <1>6, ValorGuardado DEF Memorable
<1>8. MarcosEn(s, mem2) = [MarcosEn(s, mem) EXCEPT ![u].valores[n] = v]
  <2>1. u \in DOMAIN s /\ x = PosicionEn(s[u], n)
    BY <1>3, <1>5
  <2> QED
    BY <1>0, <1>5, <1>6, <1>7, <2>1, MarcosConValor
<1>9. /\ Len(mk) = t /\ DOMAIN mk = 1..t
      /\ \A k \in 1..t : mk[k] = Marco(pila, mem, k)
  <2>1. mk = MarcosEn(pila, mem)
    BY <1>0, <1>1
  <2>2. /\ Len(mk) = Len(pila) /\ DOMAIN mk = DOMAIN pila
        /\ \A k \in DOMAIN pila : mk[k] = Marco(pila, mem, k)
    BY <2>1, MarcosTipados
  <2> QED
    BY <1>3, <2>2
<1>10. Last(mk).en[1] = n
  <2>1. Last(mk) = Marco(pila, mem, t)
    BY <1>3, <1>9 DEF Last
  <2> QED
    BY <1>4, <2>1 DEF Marco
<1>11. MarcosEn(s, mem) = Front(mk)
  <2>1. Front(mk) = [k \in 1..u |-> mk[k]]
    BY <1>2, <1>9 DEF Front
  <2>2. ASSUME NEW k \in 1..u PROVE Marco(s, mem, k) = mk[k]
    <3>1. k # 1 => s[k - 1] = pila[k - 1]
      <4>1. k # 1 => k - 1 \in 1..u
        OBVIOUS
      <4> QED
        BY <1>3, <4>1
    <3>2. Marco(s, mem, k) = Marco(pila, mem, k)
      <4>1. MismoMarco(s, pila, k)
        BY <1>3, <3>1 DEF MismoMarco
      <4> QED
        BY <4>1, MarcoIgual
    <3> QED
      BY <1>3, <1>9, <3>2
  <2>3. MarcosEn(s, mem) = [k \in 1..u |-> Marco(s, mem, k)]
    BY <1>3 DEF MarcosEn
  <2>4. [k \in 1..u |-> Marco(s, mem, k)] = [k \in 1..u |-> mk[k]]
    BY <2>2
  <2> QED
    BY <2>1, <2>3, <2>4
<1> QED
  BY <1>2, <1>6, <1>7, <1>8, <1>9, <1>10, <1>11 DEF MarcosConRetorno

\* The caller goes on after the call, in its routine.
LEMMA MemorableVuelve ==
  ASSUME programa \in Programas, NEW p, NEW t, NEW q, NEW s, Volvio(p, t, q, s), PilaEnRutinas(p),
         NEW mem, Memorable(p, mem), NEW mem2, MemoriaTipada(mem2)
  PROVE  Memorable(q, mem2)
<1>0. /\ p \in PcbDelPrograma /\ t \in Nat /\ t >= 2 /\ t = Len(p.indiceStack)
      /\ s \in Seq(Nodo) /\ Len(s) = t - 1 /\ \A k \in 1..(t - 1) : s[k] = p.indiceStack[k]
      /\ s = q.indiceStack /\ q.programCounter = p.indiceStack[t].retPos + 1
  BY DEF Volvio
<1>1. PICK pila \in Seq(Nodo) : pila = p.indiceStack
  BY <1>0, PilaDelPcb
<1>2. PICK u \in Nat : u = t - 1 /\ t = u + 1 /\ u >= 1 /\ u < t
  <2>1. t - 1 \in Nat /\ t = (t - 1) + 1 /\ t - 1 >= 1 /\ t - 1 < t
    BY <1>0
  <2> QED
    BY <2>1
<1>3. /\ Len(pila) = t /\ DOMAIN pila = 1..t /\ t \in 1..t /\ u \in 1..t /\ Len(s) = u
      /\ DOMAIN s = 1..u /\ \A k \in 1..u : s[k] = pila[k] /\ k \in 1..t
  <2>1. Len(pila) = t /\ Len(s) = u /\ \A k \in 1..u : s[k] = pila[k]
    BY <1>0, <1>1, <1>2
  <2>2. DOMAIN pila = 1..Len(pila) /\ DOMAIN s = 1..Len(s)
    BY <1>0
  <2>3. t \in 1..t /\ u \in 1..t /\ \A k \in 1..u : k \in 1..t
    BY <1>2
  <2> QED
    BY <2>1, <2>2, <2>3
<1>4. ASSUME NEW k \in 1..u PROVE NodoDeclarado(s[k], LugarDe(q, k))
  <2>1. NodoDeclarado(pila[k], LugarDe(p, k)) /\ s[k] = pila[k]
    BY <1>1, <1>3 DEF Memorable
  <2>2. CASE k # u
    <3>1. k + 1 \in 1..u /\ k # t
      BY <1>2, <2>2
    <3>2. s[k + 1] = pila[k + 1]
      BY <1>3, <3>1
    <3>3. LugarDe(q, k) = LugarDe(p, k)
      BY <1>0, <1>1, <1>3, <2>2, <3>1, <3>2 DEF LugarDe
    <3> QED
      BY <2>1, <3>3
  <2>3. CASE k = u
    <3>1. PICK y \in DOMAIN programa.codigo : y = LugarDe(p, u) /\ programa.codigo[y].op = "llamar"
      BY <1>0, <1>1, <1>2, <1>3 DEF PilaEnRutinas
    <3>2. q.programCounter = y
      <4>1. u # Len(p.indiceStack) /\ u + 1 = t
        BY <1>0, <1>2
      <4> QED
        BY <1>0, <3>1, <4>1 DEF LugarDe
    <3>3. LugarDe(q, u) = y + 1
      BY <1>0, <1>3, <3>2 DEF LugarDe
    <3>4. y \in Nat /\ y + 1 \in Nat /\ y <= y + 1 /\ y + 1 \notin Entradas(programa)
      <4>1. y \in Nat
        BY EntradasEnElTexto
      <4>2. y + 1 \notin Entradas(programa)
        BY <3>1, SiguienteEnElTexto
      <4> QED
        BY <4>1, <4>2
    <3>5. \A e \in Entradas(programa) : e <= y <=> e <= y + 1
      BY <3>4, EntradasEnElTexto
    <3>6. NodoDeclarado(pila[u], y + 1)
      BY <2>1, <2>3, <3>1, <3>4, <3>5, DeclaradoSigue
    <3> QED
      BY <2>1, <2>3, <3>3, <3>6
  <2> QED
    BY <2>2, <2>3
<1>5. Destinos(s)
  <2> SUFFICES ASSUME NEW k \in DOMAIN s, k > 1
               PROVE  \E n \in NombresDe(s[k - 1]) :
                        PunteroDe(DireccionEn(s[k - 1], n)) = PunteroDe(s[k].retVar)
    BY DEF Destinos
  <2>1. k \in 1..u /\ k - 1 \in 1..u
    BY <1>3
  <2>2. s[k] = pila[k] /\ s[k - 1] = pila[k - 1] /\ k \in DOMAIN pila
    BY <1>3, <2>1
  <2>3. Destinos(pila)
    BY <1>1 DEF Memorable
  <2> QED
    BY <2>2, <2>3 DEF Destinos
<1>6. Numerada(s)
  <2>1. Numerada(pila)
    BY <1>1 DEF Memorable
  <2>2. Parte(s, pila)
    <3>1. DOMAIN s \subseteq Nat /\ DOMAIN pila \subseteq Nat /\ DOMAIN s \subseteq DOMAIN pila
      BY <1>3
    <3>2. \A n \in DOMAIN s : \A m \in DOMAIN pila : m <= n => m \in DOMAIN s
      BY <1>3
    <3> QED
      BY <1>3, <3>1, <3>2 DEF Parte
  <2> QED
    BY <2>1, <2>2, NumeradaIgual
<1> QED
  BY <1>0, <1>3, <1>4, <1>5, <1>6 DEF Memorable

\* A return is of a frame over another one.
LEMMA RetornoDeMarco ==
  ASSUME programa \in Programas, NEW m, NEW i, NEW t, NEW nodo, NEW mk,
         EnCursoFiel(m, i, t, nodo, mk), i.op = "retornar"
  PROVE  t >= 2
<1>1. /\ t \in Nat /\ t > 0 /\ t = Len(m.pcb.indiceStack) /\ t \in DOMAIN m.pcb.indiceStack
      /\ m.pcb \in PcbDelPrograma /\ PilaEnRutinas(m.pcb)
  BY NodoEnPila DEF EnCursoFiel, EnPila, EnCurso
<1>2. PICK y \in DOMAIN programa.codigo : y = m.pcb.programCounter + 1 /\ i = programa.codigo[y]
  BY <1>1 DEF PilaEnRutinas, EnCursoFiel, EnCurso
<1>3. EnSuLugar(m.pcb.indiceStack[t], y, t)
  <2>1. LugarDe(m.pcb, t) = y
    BY <1>1, <1>2 DEF LugarDe
  <2>2. PICK pila \in Seq(Nodo) : pila = m.pcb.indiceStack
    BY <1>1, PilaDelPcb
  <2> QED
    BY <1>1, <2>1, <2>2, MarcosEnSuLugar
<1>4. ~EsDeRutina(programa, Principal(programa), y)
  BY <1>2, TextoDelPrograma DEF RutinasBienFormadas
<1>5. t # 1
  BY <1>3, <1>4 DEF EnSuLugar
<1>6. t \in Nat /\ t > 0
  BY <1>1
<1> QED
  BY ONLY <1>5, <1>6

LEMMA RetornoCorresponde ==
  ASSUME programa \in Programas, NEW m, NEW i, NEW t, NEW nodo, NEW mk,
         EnCursoFiel(m, i, t, nodo, mk), i.op = "retornar", NEW r, r = Retorno(m, i)
  PROVE  Corresponde(m, i, r)
<1>1. /\ EnPila(m, t, nodo) /\ m.interrupcion = "ninguna" /\ Memorable(m.pcb, m.memoria)
      /\ mk = MarcosEn(m.pcb.indiceStack, m.memoria) /\ m.pcb \in PcbDelPrograma
      /\ PilaEnRutinas(m.pcb) /\ t \in Nat /\ t > 0 /\ EnOrden(m.pcb.indiceStack)
  BY DEF EnCursoFiel, EnCurso, EnPila, Marcha, Fiel
<1>2. PICK pila \in Seq(Nodo) : /\ pila = m.pcb.indiceStack /\ t = Len(pila) /\ t \in DOMAIN pila
                                /\ nodo = pila[t] /\ pila # <<>> /\ PilaClara(pila)
  BY <1>1, NodoEnPila DEF EnPila, PilaClara
<1>3. PICK v : v = Operar(m, i.operando)
  OBVIOUS
<1>4. /\ Estable(m, v) /\ v.memoria = m.memoria
      /\ DefinidoEn(nodo, i.operando) =>
           v.interrupcion = "ninguna" /\ v.valor = ValorDelNodo(nodo, m.memoria, i.operando)
      /\ ~DefinidoEn(nodo, i.operando) => v.interrupcion \in Fatales
  BY <1>1, <1>3, Operado
<1>5. Marcha(v) /\ v.pcb = m.pcb
  BY <1>4 DEF Estable
<1>6. nodo = Last(pila) /\ nodo \in Nodo /\ nodo.retPos \in Int
  <2>1. nodo = Last(pila) /\ nodo \in Nodo
    BY <1>2 DEF Last
  <2> QED
    BY <2>1, NodoTipado
<1>7. PICK s : s = Front(pila)
  OBVIOUS
<1>8. /\ s \in Seq(Nodo) /\ EnOrden(s) /\ Len(s) = t - 1 /\ DOMAIN s = 1..(t - 1)
      /\ \A k \in 1..(t - 1) : s[k] = pila[k]
  <2>1. EnOrden(pila)
    BY <1>1, <1>2
  <2> QED
    BY SMTT(30), <1>1, <1>2, <1>7, <2>1, QuitarEnOrden
<1>9. PICK p : p = ConContador(ConPila(m.pcb, s), nodo.retPos)
  OBVIOUS
<1>10. p \in PcbDelPrograma /\ p.indiceStack = s /\ p.programCounter = nodo.retPos
  <2>1. ConPila(m.pcb, s) \in PcbDelPrograma /\ ConPila(m.pcb, s).indiceStack = s
    BY <1>1, <1>8, PcbConPila
  <2> QED
    BY <1>6, <1>9, <2>1, PcbConContador
<1>11. PICK a : a = ConPcb(v, p)
  OBVIOUS
<1>12. /\ Marcha(a) /\ a.pcb = p /\ a.interrupcion = v.interrupcion /\ a.memoria = m.memoria
       /\ a = [pcb |-> a.pcb, memoria |-> a.memoria, aEjecutarDelPcb |-> a.aEjecutarDelPcb,
               interrupcion |-> a.interrupcion, puntero |-> a.puntero, valor |-> a.valor]
  <2>1. Marcha(a) /\ a.pcb = p /\ a.interrupcion = v.interrupcion
    BY <1>5, <1>8, <1>10, <1>11, MarchaConPcb
  <2>2. v = [pcb |-> v.pcb, memoria |-> v.memoria, aEjecutarDelPcb |-> v.aEjecutarDelPcb,
             interrupcion |-> v.interrupcion, puntero |-> v.puntero, valor |-> v.valor]
    BY <1>5 DEF Marcha
  <2>3. a.memoria = v.memoria
    BY <1>11, <2>2 DEF ConPcb
  <2>4. a = [pcb |-> a.pcb, memoria |-> a.memoria, aEjecutarDelPcb |-> a.aEjecutarDelPcb,
             interrupcion |-> a.interrupcion, puntero |-> a.puntero, valor |-> a.valor]
    BY <2>1 DEF Marcha
  <2> QED
    BY <1>4, <2>1, <2>3, <2>4
<1>13. [v EXCEPT !.pcb.indiceStack = Front(@), !.pcb.programCounter = nodo.retPos] = a
  BY <1>2, <1>5, <1>7, <1>9, <1>11 DEF ConPcb, ConPila, ConContador
<1>14. PICK x : x = PunteroDe(nodo.retVar)
  OBVIOUS
<1>15. r = almacenarDatosEnMemoria(a, x, v.valor)
  BY <1>2, <1>3, <1>5, <1>6, <1>13, <1>14 DEF Retorno, retornar
<1>16. r.pcb = p /\ r.interrupcion = v.interrupcion
  <2>1. Estable(a, r) /\ r.interrupcion = a.interrupcion
    BY <1>12, <1>15, Almacenada
  <2> QED
    BY <1>12, <2>1 DEF Estable
<1>17. /\ DefinidoM(mk, i.operando) <=> DefinidoEn(nodo, i.operando)
       /\ DefinidoEn(nodo, i.operando) =>
            ValorM(mk, i.operando) = ValorDelNodo(nodo, m.memoria, i.operando)
       /\ Last(mk) = Marco(m.pcb.indiceStack, m.memoria, t)
  BY UltimoMarco
<1>18. CASE ~DefinidoEn(nodo, i.operando)
  <2>1. ErroneaM(i, mk)
    BY <1>17, <1>18 DEF ErroneaM
  <2> QED
    BY <1>4, <1>16, <1>18, <2>1, ErroneaCorresponde
<1>19. CASE DefinidoEn(nodo, i.operando)
  <2>1. t >= 2
    BY RetornoDeMarco
  <2>2. PICK q : q = ConContador(r.pcb, r.pcb.programCounter + 1)
    OBVIOUS
  <2>3. /\ q \in PcbDelPrograma /\ q.indiceStack = s
        /\ q.programCounter = nodo.retPos + 1
    <3>1. r.pcb.programCounter + 1 \in Int
      BY <1>6, <1>10, <1>16
    <3> QED
      BY <1>10, <1>16, <2>2, <3>1, PcbConContador
  <2>4. Volvio(m.pcb, t, q, s)
    BY <1>1, <1>2, <1>8, <2>1, <2>3 DEF Volvio
  <2>5. PilaClara(s)
    <3>1. \A k \in 1..(t - 1) : k \in DOMAIN pila
      BY <1>2
    <3> QED
      BY <1>2, <1>8, <3>1 DEF PilaClara
  <2>6. PICK w \in Valores : w = v.valor /\ w = ValorM(mk, i.operando)
    BY <1>4, <1>17, <1>19, OperandoConocido
  <2>7. /\ EnPaginas(m.pcb, x) /\ MemoriaTipada(ConValor(m.memoria, x, w)) /\ Len(mk) = t
        /\ MarcosEn(s, ConValor(m.memoria, x, w)) = MarcosConRetorno(mk, w)
    <3>1. x = PunteroDe(m.pcb.indiceStack[t].retVar) /\ PilaClara(m.pcb.indiceStack)
      BY <1>2, <1>14
    <3>2. PICK p1, mem, mem2 : /\ p1 = m.pcb /\ mem = m.memoria /\ mem2 = ConValor(mem, x, w)
                               /\ Memorable(p1, mem) /\ mk = MarcosEn(p1.indiceStack, mem)
      BY <1>1
    <3>3. VolvioCon(p1, t, q, s, mem, mem2, w, x, mk)
      BY <2>4, <2>5, <3>1, <3>2 DEF VolvioCon
    <3>4. /\ EnPaginas(p1, x) /\ MemoriaTipada(mem2) /\ Len(mk) = t
          /\ MarcosEn(s, mem2) = MarcosConRetorno(mk, w)
      BY <3>3, MarcosVuelven
    <3> QED
      BY <3>2, <3>4
  <2>8. EnPaginas(a.pcb, x)
    <3>1. p.cantidadPaginasCodigo = m.pcb.cantidadPaginasCodigo
      BY <1>1, <1>10 DEF PcbDelPrograma
    <3> QED
      BY <1>12, <2>7, <3>1 DEF EnPaginas, cantidadPaginasTotales
  <2>9. r.memoria = ConValor(m.memoria, x, w)
    <3>1. r = [a EXCEPT !.memoria = ConValor(a.memoria, x, v.valor)]
      BY <1>15, <2>8 DEF almacenarDatosEnMemoria
    <3>2. r.memoria = ConValor(a.memoria, x, v.valor)
      BY <1>12, <3>1
    <3> QED
      BY <1>12, <2>6, <3>2
  <2>10. Memorable(q, r.memoria)
    BY <1>1, <2>4, <2>7, <2>9, MemorableVuelve
  <2>11. Paso(i, m.pcb.programCounter, mk, q.programCounter, MarcosEn(q.indiceStack, r.memoria))
    <3>1. Last(mk).vuelve = nodo.retPos
      BY <1>2, <1>17 DEF Marco
    <3>2. MarcosEn(q.indiceStack, r.memoria)
            = [Front(mk) EXCEPT ![Len(mk) - 1].valores[Last(mk).en[1]] = ValorM(mk, i.operando)]
      BY <2>3, <2>6, <2>7, <2>9 DEF MarcosConRetorno
    <3>3. Len(mk) > 1
      BY <1>1, <2>1, <2>7
    <3> QED
      BY <1>17, <1>19, <2>3, <3>1, <3>2, <3>3 DEF Paso
  <2>12. r.interrupcion = "ninguna"
    BY <1>4, <1>16, <1>19
  <2> QED
    BY <1>1, <2>2, <2>10, <2>11, <2>12 DEF Corresponde
<1> QED
  BY <1>18, <1>19

-----------------------------------------------------------------------------
(* A definition, and the call that defines its argument.                   *)

\* The last node of the stack has one more name, at the next place.
Definio(pila, t, nombre, u, w, dir) ==
  /\ t \in Nat /\ t > 0 /\ t = Len(pila) /\ dir \in DireccionDeValor /\ w \in Nodo
  /\ w = ConDireccion(pila[t], nombre, dir)
  /\ u \in Seq(Nodo) /\ Len(u) = t /\ u[t] = w /\ \A k \in 1..t : k # t => u[k] = pila[k]
  /\ EnOrden(u) /\ Numerada(u) /\ Ocupados(u) = Ocupados(pila) + 1

Definible(m, pila, t, nombre) ==
  /\ Marcha(m) /\ pila = ConNodo(m.pcb.indiceStack) /\ pila \in Seq(Nodo) /\ EnOrden(pila)
  /\ t \in Nat /\ t > 0 /\ t = Len(pila) /\ Numerada(pila)
  /\ nombre \in Nombres \cup ToSet(Argumentos)
  /\ nombre \in ToSet(Argumentos) => pila[t].vars = <<>>

LEMMA UnaDefinicion ==
  ASSUME programa \in Programas, NEW m, NEW pila, NEW t, NEW nombre, Definible(m, pila, t, nombre),
         NEW r, r = definirVariable(m, nombre)
  PROVE  /\ Ocupados(pila) + 1 > Capacidad => r.interrupcion = "stackOverflow"
         /\ Ocupados(pila) + 1 <= Capacidad =>
              \E u, w, dir : /\ Definio(pila, t, nombre, u, w, dir)
                             /\ r.pcb = ConPila(m.pcb, u) /\ r.puntero = PunteroDe(dir)
                             /\ r.interrupcion = m.interrupcion /\ r.memoria = m.memoria
<1>0. /\ Marcha(m) /\ pila = ConNodo(m.pcb.indiceStack) /\ pila \in Seq(Nodo) /\ EnOrden(pila)
      /\ t \in Nat /\ t > 0 /\ t = Len(pila) /\ Numerada(pila)
      /\ nombre \in Nombres \cup ToSet(Argumentos)
      /\ nombre \in ToSet(Argumentos) => pila[t].vars = <<>>
      /\ m.pcb \in PcbDelPrograma
      /\ m = [pcb |-> m.pcb, memoria |-> m.memoria, aEjecutarDelPcb |-> m.aEjecutarDelPcb,
              interrupcion |-> m.interrupcion, puntero |-> m.puntero, valor |-> m.valor]
  BY DEF Definible, Marcha
<1>1. PICK dir : dir = DireccionSiguiente(m.pcb, pila)
  OBVIOUS
<1>2. /\ dir \in DireccionDeValor /\ dir.offset % 4 = 0 /\ Numero(dir) = Ocupados(pila)
      /\ dir.pagina >= PaginasTotales <=> Ocupados(pila) + 1 > Capacidad
  BY <1>0, <1>1, NumeroDelSiguiente DEF Capacidad
<1>3. dir.pagina \in Int /\ PaginasTotales \in Int /\ Ocupados(pila) \in Nat
  BY <1>0, <1>2, PaginasNaturales, ValoresFinitos DEF DireccionDeValor
<1>4. cantidadPaginasTotales(m.pcb) = PaginasTotales
  BY <1>0, PaginasDelPcb
<1>5. t \in DOMAIN pila /\ DOMAIN pila = 1..t /\ pila # <<>>
  <2>1. DOMAIN pila = 1..t /\ t \in 1..t /\ pila # <<>>
    BY <1>0
  <2> QED
    BY <2>1
<1>6. CASE dir.pagina >= PaginasTotales
  <2>1. r = Interrumpir([m EXCEPT !.pcb.indiceStack = pila, !.puntero = 0], "stackOverflow")
    BY <1>0, <1>1, <1>4, <1>6 DEF definirVariable
  <2>2. r.interrupcion = "stackOverflow"
    BY <1>0, <2>1 DEF Interrumpir
  <2>3. ~(Ocupados(pila) + 1 <= Capacidad)
    <3>1. Capacidad \in Int
      BY PaginasNaturales DEF Capacidad, PorPagina
    <3> QED
      BY <1>2, <1>3, <1>6, <3>1
  <2> QED
    BY <2>2, <2>3
<1>7. CASE ~(dir.pagina >= PaginasTotales)
  <2>1. PICK w : w = ConDireccion(pila[t], nombre, dir)
    OBVIOUS
  <2>2. pila[t] \in Nodo
    BY <1>0, <1>5
  <2>3. w \in Nodo /\ DireccionesDe(w) = Append(DireccionesDe(pila[t]), dir)
    BY <1>0, <1>2, <2>1, <2>2, NodoConDireccion
  <2>4. PICK u : u = [pila EXCEPT ![t] = w]
    OBVIOUS
  <2>5. u \in Seq(Nodo) /\ Len(u) = t
    BY <1>0, <1>5, <2>3, <2>4, CambiarLugar
  <2>6. u[t] = w /\ \A k \in 1..t : k # t => u[k] = pila[k]
    BY <1>5, <2>4
  <2>7. u = Definida(m.pcb, pila, nombre)
    BY <1>0, <1>1, <2>1, <2>4 DEF Definida
  <2>8. EnOrden(u)
    <3>1. DireccionSiguiente(m.pcb, pila).pagina < PaginasTotales
      BY <1>1, <1>3, <1>7
    <3>2. nombre \in ToSet(Argumentos) => pila[Len(pila)].vars = <<>>
      BY <1>0
    <3> QED
      BY <1>0, <1>5, <2>7, <3>1, <3>2, DefinirEnOrden
  <2>9. Numerada(u) /\ Ocupados(u) = Ocupados(pila) + 1
    <3>1. \A n \in 1..(t - 1) : u[n] = pila[n]
      <4>1. \A n \in 1..(t - 1) : n \in 1..t /\ n # t
        BY <1>0
      <4> QED
        BY <2>6, <4>1
    <3>2. ConUnoMas(u, pila, t, dir)
      BY <1>0, <2>3, <2>5, <2>6, <3>1 DEF ConUnoMas
    <3> QED
      BY <1>0, <1>2, <3>2, NumeradaConUno
  <2>10. Definio(pila, t, nombre, u, w, dir)
    BY <1>0, <1>2, <2>1, <2>3, <2>5, <2>6, <2>8, <2>9 DEF Definio
  <2>11. r = [m EXCEPT !.pcb.indiceStack =
                         [pila EXCEPT ![Len(pila)] = ConDireccion(@, nombre, dir)],
                       !.puntero = PunteroDe(dir)]
    BY <1>0, <1>1, <1>4, <1>7 DEF definirVariable
  <2>12. [pila EXCEPT ![Len(pila)] = ConDireccion(@, nombre, dir)] = u
    BY <1>0, <1>5, <2>1, <2>4
  <2>13. /\ r.pcb = ConPila(m.pcb, u) /\ r.puntero = PunteroDe(dir)
         /\ r.interrupcion = m.interrupcion /\ r.memoria = m.memoria
    BY <1>0, <2>11, <2>12 DEF ConPila
  <2>14. ~(Ocupados(pila) + 1 > Capacidad)
    BY <1>2, <1>7
  <2> QED
    BY <2>10, <2>13, <2>14
<1> QED
  BY <1>6, <1>7

\* The frame of the call w over those of the caller, with its argument in dir.
ConLlamada(p, t, pila, u, w, dir, x) ==
  /\ p \in PcbDelPrograma /\ pila = p.indiceStack /\ pila \in Seq(Nodo)
  /\ t \in Nat /\ t > 0 /\ t = Len(pila)
  /\ u \in Seq(Nodo) /\ Len(u) = t + 1 /\ \A k \in 1..t : u[k] = pila[k]
  /\ w = u[t + 1] /\ w \in Nodo /\ w.args = <<dir>> /\ w.vars = <<>>
  /\ w.retPos = p.programCounter /\ w.retVar = DireccionDe(x, 4)

LEMMA ConLlamadaLugares ==
  ASSUME NEW p, NEW t, NEW pila, NEW u, NEW w, NEW dir, NEW x, ConLlamada(p, t, pila, u, w, dir, x)
  PROVE  /\ DOMAIN u = 1..(t + 1) /\ DOMAIN pila = 1..t /\ t + 1 \in DOMAIN u /\ t \in DOMAIN pila
         /\ \A k \in DOMAIN u : k = t + 1 \/ k \in DOMAIN pila
         /\ \A k \in DOMAIN pila : k # t + 1 /\ k \in DOMAIN u /\ u[k] = pila[k]
         /\ Len(u) = t + 1 /\ t + 1 # 1 /\ (t + 1) - 1 = t
<1>1. /\ t \in Nat /\ t > 0 /\ DOMAIN u = 1..(t + 1) /\ DOMAIN pila = 1..t
      /\ Len(u) = t + 1 /\ \A k \in 1..t : u[k] = pila[k]
  BY DEF ConLlamada
<1>2. /\ t + 1 \in 1..(t + 1) /\ t \in 1..t /\ \A k \in 1..(t + 1) : k = t + 1 \/ k \in 1..t
      /\ \A k \in 1..t : k # t + 1 /\ k \in 1..(t + 1)
      /\ t + 1 # 1 /\ (t + 1) - 1 = t
  BY <1>1
<1> QED
  BY <1>1, <1>2

LEMMA PunteroDeDireccion ==
  ASSUME NEW x \in Int, NEW size
  PROVE  PunteroDe(DireccionDe(x, size)) = x
<1>1. TamPagina \in Nat /\ TamPagina > 0
  BY CPUAssumption
<1>2. PICK a \in Int, b \in Int : a = x \div TamPagina /\ b = x % TamPagina
  BY <1>1, Division
<1>3. x = a * TamPagina + b
  BY <1>1, <1>2, Division
<1> QED
  BY <1>2, <1>3 DEF PunteroDe, DireccionDe

\* The argument is the only name of the frame.
LEMMA NombreDeLlamada ==
  ASSUME NEW p, NEW t, NEW pila, NEW u, NEW w, NEW dir, NEW x, ConLlamada(p, t, pila, u, w, dir, x)
  PROVE  NodoClaro(w) /\ NombresDe(w) = {Argumentos[1]} /\ DireccionEn(w, Argumentos[1]) = dir
<1>1. w \in Nodo /\ w.args = <<dir>> /\ w.vars = <<>>
  BY DEF ConLlamada
<1>2. Len(w.args) = 1 /\ DOMAIN w.args = {1} /\ w.args[1] = dir /\ DOMAIN w.vars = {}
  BY <1>1
<1>3. NodoClaro(w)
  BY <1>1, <1>2 DEF NodoClaro
<1>4. NombresDe(w) = {Argumentos[1]}
  BY <1>2 DEF NombresDe
<1>5. (CHOOSE i \in DOMAIN w.args : Argumentos[i] = Argumentos[1]) = 1
  BY <1>2
<1>6. DireccionEn(w, Argumentos[1]) = dir
  BY <1>2, <1>5, PrimerArgumento DEF DireccionEn
<1> QED
  BY <1>3, <1>4, <1>6

LEMMA ClaraConLlamada ==
  ASSUME NEW p, NEW t, NEW pila, NEW u, NEW w, NEW dir, NEW x, ConLlamada(p, t, pila, u, w, dir, x),
         PilaClara(pila), EnOrden(u)
  PROVE  PilaClara(u)
<1>1. \A k \in DOMAIN u : NodoClaro(u[k])
  <2> SUFFICES ASSUME NEW k \in DOMAIN u PROVE NodoClaro(u[k])
    OBVIOUS
  <2>1. CASE k = t + 1
    <3>1. w = u[t + 1]
      BY DEF ConLlamada
    <3> QED
      BY <2>1, <3>1, NombreDeLlamada
  <2>2. CASE k \in DOMAIN pila
    <3>1. u[k] = pila[k]
      BY <2>2, ConLlamadaLugares
    <3> QED
      BY <2>2, <3>1 DEF PilaClara
  <2> QED
    BY <2>1, <2>2, ConLlamadaLugares
<1>2. u \in Seq(Nodo)
  BY DEF ConLlamada
<1> QED
  BY <1>1, <1>2 DEF PilaClara

\* The frame of the caller waits at the call.
LEMMA MemorableLlama ==
  ASSUME NEW p, NEW t, NEW pila, NEW u, NEW w, NEW dir, NEW x, ConLlamada(p, t, pila, u, w, dir, x),
         NEW mem, Memorable(p, mem), NEW mem2, MemoriaTipada(mem2), Numerada(u),
         NEW n \in NombresDe(pila[t]), x = PosicionEn(pila[t], n), x \in Int,
         NEW q \in PcbDelPrograma, q.indiceStack = u
  PROVE  Memorable(q, mem2)
<1>0. /\ p \in PcbDelPrograma /\ pila = p.indiceStack /\ pila \in Seq(Nodo)
      /\ t \in Nat /\ t > 0 /\ t = Len(pila)
      /\ u \in Seq(Nodo) /\ Len(u) = t + 1 /\ \A k \in 1..t : u[k] = pila[k]
      /\ w = u[t + 1] /\ w \in Nodo /\ w.args = <<dir>> /\ w.vars = <<>>
      /\ w.retPos = p.programCounter /\ w.retVar = DireccionDe(x, 4)
  BY DEF ConLlamada
<1>1. /\ DOMAIN u = 1..(t + 1) /\ DOMAIN pila = 1..t /\ t + 1 \in DOMAIN u /\ t \in DOMAIN pila
      /\ \A k \in DOMAIN u : k = t + 1 \/ k \in DOMAIN pila
      /\ \A k \in DOMAIN pila : k # t + 1 /\ k \in DOMAIN u /\ u[k] = pila[k]
      /\ Len(u) = t + 1 /\ t + 1 # 1 /\ (t + 1) - 1 = t
  BY ONLY ConLlamada(p, t, pila, u, w, dir, x), ConLlamadaLugares
<1>2. ASSUME NEW k \in DOMAIN u PROVE NodoDeclarado(u[k], LugarDe(q, k))
  <2>1. CASE k = t + 1
    <3>1. u[k].vars = <<>>
      BY <1>0, <2>1
    <3>2. DOMAIN u[k].vars = {}
      BY <3>1
    <3> QED
      BY <3>2 DEF NodoDeclarado
  <2>2. CASE k \in DOMAIN pila
    <3>1. NodoDeclarado(pila[k], LugarDe(p, k)) /\ u[k] = pila[k] /\ k # t + 1
      BY <1>0, <1>1, <2>2 DEF Memorable
    <3>2. LugarDe(q, k) = u[k + 1].retPos + 1
      BY <1>1, <3>1 DEF LugarDe
    <3>3. CASE k = t
      <4>1. LugarDe(p, k) = p.programCounter + 1
        BY <1>0, <3>3 DEF LugarDe
      <4> QED
        BY <1>0, <3>1, <3>2, <3>3, <4>1
    <3>4. CASE k # t
      <4>1. k + 1 \in DOMAIN pila
        BY <1>1, <2>2, <3>4
      <4>2. u[k + 1] = pila[k + 1]
        BY <1>1, <4>1
      <4>3. LugarDe(p, k) = pila[k + 1].retPos + 1
        BY <1>0, <3>4 DEF LugarDe
      <4> QED
        BY <3>1, <3>2, <4>2, <4>3
    <3> QED
      BY <3>3, <3>4
  <2> QED
    BY <1>1, <2>1, <2>2
<1>3. Destinos(u)
  <2> SUFFICES ASSUME NEW k \in DOMAIN u, k > 1
               PROVE  \E o \in NombresDe(u[k - 1]) :
                        PunteroDe(DireccionEn(u[k - 1], o)) = PunteroDe(u[k].retVar)
    BY DEF Destinos
  <2>1. CASE k = t + 1
    <3>1. u[k - 1] = pila[t] /\ u[k].retVar = DireccionDe(x, 4)
      BY <1>0, <1>1, <2>1
    <3>2. PunteroDe(u[k].retVar) = x
      BY <3>1, PunteroDeDireccion
    <3> QED
      BY <3>1, <3>2 DEF PosicionEn
  <2>2. CASE k \in DOMAIN pila
    <3>1. k - 1 \in DOMAIN pila
      BY <1>1, <2>2
    <3>2. u[k] = pila[k] /\ u[k - 1] = pila[k - 1]
      BY <1>1, <2>2, <3>1
    <3>3. Destinos(pila)
      BY <1>0 DEF Memorable
    <3> QED
      BY <2>2, <3>2, <3>3 DEF Destinos
  <2> QED
    BY <1>1, <2>1, <2>2
<1> QED
  BY <1>1, <1>2, <1>3 DEF Memorable

LEMMA NombreUnico ==
  ASSUME NEW pila, PilaClara(pila), NEW k \in DOMAIN pila, NEW n \in NombresDe(pila[k]),
         NEW o \in NombresDe(pila[k]), PosicionEn(pila[k], n) = PosicionEn(pila[k], o)
  PROVE  n = o
<1>1. PICK a, b : a = PosicionEn(pila[k], n) /\ b = PosicionEn(pila[k], o) /\ a = b
  OBVIOUS
<1>2. a \in Int /\ (n = o \/ a + 4 <= b \/ b + 4 <= a)
  BY <1>1, NombresAparte
<1> QED
  BY <1>1, <1>2

\* A sequence with one more is itself, and what it got.
LEMMA ConElUltimo ==
  ASSUME NEW T, NEW s \in Seq(T), NEW e, NEW t \in Nat, t = Len(s)
  PROVE  Append(s, e) = [k \in 1..(t + 1) |-> IF k = t + 1 THEN e ELSE s[k]]
<1>1. PICK U : U = T \cup {e}
  OBVIOUS
<1>2. s \in Seq(U) /\ e \in U
  <2>1. s \in [DOMAIN s -> U]
    BY <1>1
  <2> QED
    BY <1>1, <2>1, PorLugares
<1>3. PICK r \in Seq(U) : r = Append(s, e)
  BY <1>2, AppendProperties
<1>4. Len(r) = t + 1 /\ r[t + 1] = e /\ \A k \in 1..t : r[k] = s[k]
  BY <1>2, <1>3
<1>5. DOMAIN r = 1..(t + 1) /\ r = [k \in 1..(t + 1) |-> r[k]]
  BY <1>4
<1>6. \A k \in 1..(t + 1) : r[k] = IF k = t + 1 THEN e ELSE s[k]
  BY <1>4
<1> QED
  BY <1>3, <1>5, <1>6

MarcoLlamado(pc, n, v) ==
  [valores |-> [o \in {Argumentos[1]} |-> v], vuelve |-> pc, en |-> <<n>>]

LlamadaEscrita(p, t, pila, u, w, dir, x, n, mem, mem2, v, mk) ==
  /\ ConLlamada(p, t, pila, u, w, dir, x) /\ PilaClara(pila) /\ PilaClara(u)
  /\ n \in NombresDe(pila[t]) /\ x = PosicionEn(pila[t], n) /\ MemoriaTipada(mem)
  /\ v \in Valores /\ mem2 = ConValor(mem, PunteroDe(dir), v) /\ mk = MarcosEn(pila, mem)

\* What the frame of the call has, before its argument is written.
LEMMA MarcoDeLaLlamada ==
  ASSUME programa \in Programas, NEW p, NEW t, NEW pila, NEW u, NEW w, NEW dir, NEW x, NEW n,
         NEW mem, NEW mem2, NEW v, NEW mk,
         LlamadaEscrita(p, t, pila, u, w, dir, x, n, mem, mem2, v, mk)
  PROVE  /\ Argumentos[1] \in NombresDe(u[Len(u)])
         /\ PosicionEn(u[Len(u)], Argumentos[1]) = PunteroDe(dir) /\ x \in Int
         /\ \E y : Marco(u, mem, Len(u)) = MarcoLlamado(p.programCounter, n, y)
<1>0. /\ ConLlamada(p, t, pila, u, w, dir, x) /\ PilaClara(pila)
      /\ n \in NombresDe(pila[t]) /\ x = PosicionEn(pila[t], n)
  BY DEF LlamadaEscrita
<1>1. PICK z : /\ z = Len(u) /\ z = t + 1 /\ t \in DOMAIN pila /\ z # 1 /\ z - 1 = t
               /\ u[t] = pila[t]
  BY <1>0, ConLlamadaLugares
<1>2. w = u[z] /\ w.retPos = p.programCounter /\ w.retVar = DireccionDe(x, 4)
  BY <1>0, <1>1 DEF ConLlamada
<1>3. NombresDe(w) = {Argumentos[1]} /\ DireccionEn(w, Argumentos[1]) = dir
  BY <1>0, NombreDeLlamada
<1>4. x \in Int
  BY <1>0, <1>1, NombresAparte
<1>5. PunteroDe(w.retVar) = x
  BY <1>2, <1>4, PunteroDeDireccion
<1>6. \A o \in NombresDe(pila[t]) : PunteroDe(DireccionEn(pila[t], o)) = x => o = n
  <2> SUFFICES ASSUME NEW o \in NombresDe(pila[t]), PunteroDe(DireccionEn(pila[t], o)) = x
               PROVE  o = n
    OBVIOUS
  <2>1. PosicionEn(pila[t], o) = PosicionEn(pila[t], n)
    BY <1>0 DEF PosicionEn
  <2> QED
    BY <1>0, <1>1, <2>1, NombreUnico
<1>7. DestinoDe(u, z) = <<n>>
  <2>1. DestinoDe(u, z) = <<CHOOSE o \in NombresDe(pila[t]) : PunteroDe(DireccionEn(pila[t], o)) = x>>
    BY <1>1, <1>2, <1>5 DEF DestinoDe
  <2>2. n \in NombresDe(pila[t]) /\ PunteroDe(DireccionEn(pila[t], n)) = x
    BY <1>0 DEF PosicionEn
  <2>3. (CHOOSE o \in NombresDe(pila[t]) : PunteroDe(DireccionEn(pila[t], o)) = x) = n
    BY <1>6, <2>2
  <2> QED
    BY <2>1, <2>3
<1>8. ValoresDelNodo(w, mem) = [o \in {Argumentos[1]} |-> ValorEn(mem, PosicionEn(w, Argumentos[1]))]
  BY <1>3 DEF ValoresDelNodo
<1>9. Marco(u, mem, z)
        = MarcoLlamado(p.programCounter, n, ValorEn(mem, PosicionEn(w, Argumentos[1])))
  BY <1>2, <1>7, <1>8 DEF Marco, MarcoLlamado
<1> QED
  BY <1>1, <1>2, <1>3, <1>4, <1>9 DEF PosicionEn

LEMMA MarcosLlaman ==
  ASSUME programa \in Programas, NEW p, NEW t, NEW pila, NEW u, NEW w, NEW dir, NEW x, NEW n,
         NEW mem, NEW mem2, NEW v, NEW mk,
         LlamadaEscrita(p, t, pila, u, w, dir, x, n, mem, mem2, v, mk)
  PROVE  /\ EnPaginas(p, PunteroDe(dir)) /\ MemoriaTipada(mem2) /\ x \in Int
         /\ MarcosEn(u, mem2) = Append(mk, MarcoLlamado(p.programCounter, n, v))
<1>0. /\ ConLlamada(p, t, pila, u, w, dir, x) /\ PilaClara(pila) /\ PilaClara(u)
      /\ MemoriaTipada(mem) /\ v \in Valores /\ mem2 = ConValor(mem, PunteroDe(dir), v)
      /\ mk = MarcosEn(pila, mem)
  BY DEF LlamadaEscrita
<1>1. /\ p \in PcbDelPrograma /\ pila \in Seq(Nodo) /\ u \in Seq(Nodo) /\ t \in Nat /\ Len(pila) = t
  BY <1>0 DEF ConLlamada
<1>2. PICK z : z = t + 1
  OBVIOUS
<1>3. /\ DOMAIN u = 1..z /\ DOMAIN pila = 1..t /\ z \in DOMAIN u
      /\ \A k \in DOMAIN u : k = z \/ k \in DOMAIN pila
      /\ \A k \in DOMAIN pila : k # z /\ k \in DOMAIN u /\ u[k] = pila[k]
      /\ z = Len(u)
  <2>1. ConLlamada(p, t, pila, u, w, dir, x)
    BY <1>0
  <2>2. /\ DOMAIN u = 1..(t + 1) /\ DOMAIN pila = 1..t /\ t + 1 \in DOMAIN u /\ t \in DOMAIN pila
        /\ \A k \in DOMAIN u : k = t + 1 \/ k \in DOMAIN pila
        /\ \A k \in DOMAIN pila : k # t + 1 /\ k \in DOMAIN u /\ u[k] = pila[k]
        /\ Len(u) = t + 1 /\ t + 1 # 1 /\ (t + 1) - 1 = t
    BY ONLY <2>1, ConLlamadaLugares
  <2>3. t + 1 = z
    BY ONLY <1>2
  <2> QED
    BY ONLY <2>2, <2>3
<1>4. PICK y : /\ Argumentos[1] \in NombresDe(u[z]) /\ PosicionEn(u[z], Argumentos[1]) = PunteroDe(dir)
               /\ Marco(u, mem, z) = MarcoLlamado(p.programCounter, n, y)
               /\ x \in Int
  <2>1. LlamadaEscrita(p, t, pila, u, w, dir, x, n, mem, mem2, v, mk)
    OBVIOUS
  <2> QED
    BY <1>2, <1>3, <2>1, MarcoDeLaLlamada
<1>5. PICK a : a = PosicionEn(u[z], Argumentos[1]) /\ a = PunteroDe(dir)
  BY <1>4
<1>6. EnPaginas(p, a) /\ a \in Nat
  BY <1>0, <1>1, <1>3, <1>4, <1>5, NombreEnPaginas
<1>7. MemoriaTipada(mem2)
  BY <1>0, <1>5, <1>6, ValorGuardado
<1>8. MarcosEn(u, mem2) = [MarcosEn(u, mem) EXCEPT ![z].valores[Argumentos[1]] = v]
  <2>1. mem2 = ConValor(mem, a, v)
    BY <1>0, <1>5
  <2> QED
    BY <1>0, <1>3, <1>4, <1>5, <1>6, <2>1, MarcosConValor
<1> DEFINE nuevo == MarcoLlamado(p.programCounter, n, v)
<1>9. /\ Len(mk) = t /\ \A k \in 1..t : mk[k] = Marco(pila, mem, k)
  <2>1. Len(mk) = Len(pila) /\ \A k \in DOMAIN pila : mk[k] = Marco(pila, mem, k)
    BY <1>0, <1>1, MarcosTipados
  <2> QED
    BY <1>1, <1>3, <2>1
<1>10. DOMAIN MarcosEn(u, mem2) = 1..z /\ DOMAIN MarcosEn(u, mem) = 1..z
  BY <1>3 DEF MarcosEn
<1>11. MarcosEn(u, mem2)[z] = nuevo
  <2>1. MarcosEn(u, mem)[z] = Marco(u, mem, z)
    BY <1>3 DEF MarcosEn
  <2>2. MarcosEn(u, mem2)[z] = [Marco(u, mem, z) EXCEPT !.valores[Argumentos[1]] = v]
    BY <1>3, <1>8, <1>10, <2>1
  <2> QED
    BY <1>4, <2>2 DEF MarcoLlamado
<1>12. ASSUME NEW k \in 1..t PROVE MarcosEn(u, mem2)[k] = mk[k]
  <2>1. k \in DOMAIN u /\ k # z
    BY <1>3
  <2>2. MarcosEn(u, mem2)[k] = MarcosEn(u, mem)[k]
    BY <1>3, <1>8, <1>10, <2>1
  <2>3. MismoMarco(u, pila, k)
    <3>1. k # 1 => k - 1 \in 1..t
      BY <1>1
    <3> QED
      BY <1>3, <3>1 DEF MismoMarco
  <2>4. Marco(u, mem, k) = Marco(pila, mem, k)
    BY <2>3, MarcoIgual
  <2>5. MarcosEn(u, mem)[k] = Marco(u, mem, k)
    BY <2>1 DEF MarcosEn
  <2> QED
    BY <1>9, <2>2, <2>4, <2>5
<1>13. MarcosEn(u, mem2) = Append(mk, nuevo)
  <2> HIDE DEF nuevo
  <2>1. MarcosEn(u, mem2) = [k \in 1..z |-> MarcosEn(u, mem2)[k]]
    BY <1>3 DEF MarcosEn
  <2>2. Append(mk, nuevo) = [k \in 1..z |-> IF k = z THEN nuevo ELSE mk[k]]
    <3>1. PICK T : mk \in Seq(T)
      BY <1>0, <1>1, MarcosTipados
    <3> QED
      BY <1>1, <1>2, <1>9, <3>1, ConElUltimo
  <2>3. \A k \in 1..z : MarcosEn(u, mem2)[k] = IF k = z THEN nuevo ELSE mk[k]
    BY <1>3, <1>11, <1>12
  <2> QED
    BY <2>1, <2>2, <2>3
<1> QED
  BY <1>4, <1>5, <1>6, <1>7, <1>13

\* The primitives of a call, one after the other.
LlamadaPor(m, i, pila, v, d, nuevo, s, l, g, r) ==
  /\ v = Operar(m, i.operando) /\ d = obtenerPosicionVariable(v, i.destino)
  /\ nuevo = [args |-> <<>>, vars |-> <<>>, retPos |-> m.pcb.programCounter,
              retVar |-> DireccionDe(d.puntero, 4)]
  /\ nuevo \in Nodo /\ s = Append(pila, nuevo) /\ s \in Seq(Nodo) /\ EnOrden(s)
  /\ Marcha(l) /\ l.pcb.indiceStack = s /\ l.memoria = m.memoria
  /\ i.etiqueta \notin DOMAIN programa.etiquetas => l.interrupcion \in Fatales
  /\ i.etiqueta \in DOMAIN programa.etiquetas =>
       /\ l.interrupcion = d.interrupcion
       /\ l.pcb.programCounter = programa.etiquetas[i.etiqueta] - 1
  /\ Interrumpida(d, l)
  /\ g = definirVariable(l, Argumentos[1]) /\ r = asignar(g, g.puntero, v.valor)

LEMMA LlamadaPorPasos ==
  ASSUME programa \in Programas, NEW m, NEW i, NEW t, NEW nodo, NEW mk,
         EnCursoFiel(m, i, t, nodo, mk), i.op = "llamar", NEW r, r = Llamada(m, i),
         NEW pila, pila = m.pcb.indiceStack
  PROVE  \E v, d, nuevo, s, l, g : LlamadaPor(m, i, pila, v, d, nuevo, s, l, g, r)
<1>1. /\ EnPila(m, t, nodo) /\ Marcha(m) /\ m.pcb \in PcbDelPrograma /\ EnOrden(pila)
      /\ pila \in Seq(Nodo)
  BY PilaDelPcb DEF EnCursoFiel, EnPila, Marcha
<1>2. PICK v : v = Operar(m, i.operando)
  OBVIOUS
<1>3. Estable(m, v) /\ v.memoria = m.memoria /\ EnPila(v, t, nodo)
  BY <1>1, <1>2, Operado
<1>4. PICK d : d = obtenerPosicionVariable(v, i.destino)
  OBVIOUS
<1>5. Estable(v, d) /\ d.memoria = m.memoria
  BY <1>3, <1>4, Hallado
<1>6. Marcha(d) /\ d.pcb = m.pcb /\ d.puntero \in Int
  BY <1>3, <1>5 DEF Estable, Marcha
<1>7. PICK nuevo : nuevo = [args |-> <<>>, vars |-> <<>>, retPos |-> m.pcb.programCounter,
                            retVar |-> DireccionDe(d.puntero, 4)]
  OBVIOUS
<1>8. nuevo \in Nodo /\ nuevo.args = <<>> /\ nuevo.vars = <<>>
  BY <1>1, <1>6, <1>7, MarcoNuevoTipado
<1>9. PICK s : s = Append(pila, nuevo)
  OBVIOUS
<1>10. s \in Seq(Nodo) /\ EnOrden(s)
  BY <1>1, <1>8, <1>9, ApilarEnOrden
<1>11. PICK p : p = ConPila(m.pcb, s)
  OBVIOUS
<1>12. p \in PcbDelPrograma /\ p.indiceStack = s /\ p.programCounter = m.pcb.programCounter
  BY <1>1, <1>10, <1>11, PcbConPila
<1>13. PICK a : a = ConPcb(d, p)
  OBVIOUS
<1>14. /\ Marcha(a) /\ a.pcb = p /\ a.interrupcion = d.interrupcion /\ a.memoria = m.memoria
       /\ a = [pcb |-> a.pcb, memoria |-> a.memoria, aEjecutarDelPcb |-> a.aEjecutarDelPcb,
               interrupcion |-> a.interrupcion, puntero |-> a.puntero, valor |-> a.valor]
  <2>1. Marcha(a) /\ a.pcb = p /\ a.interrupcion = d.interrupcion
    BY <1>6, <1>10, <1>12, <1>13, MarchaConPcb
  <2>2. d = [pcb |-> d.pcb, memoria |-> d.memoria, aEjecutarDelPcb |-> d.aEjecutarDelPcb,
             interrupcion |-> d.interrupcion, puntero |-> d.puntero, valor |-> d.valor]
    BY <1>6 DEF Marcha
  <2>3. a.memoria = d.memoria
    BY <1>13, <2>2 DEF ConPcb
  <2>4. a = [pcb |-> a.pcb, memoria |-> a.memoria, aEjecutarDelPcb |-> a.aEjecutarDelPcb,
             interrupcion |-> a.interrupcion, puntero |-> a.puntero, valor |-> a.valor]
    BY <2>1 DEF Marcha
  <2> QED
    BY <1>5, <2>1, <2>3, <2>4
<1>15. PICK l : l = Saltar(a, i.etiqueta)
  OBVIOUS
<1>16. l = llamarConRetorno(d, i.etiqueta, d.puntero)
  <2>1. [d EXCEPT !.pcb.indiceStack =
            Append(@, [args |-> <<>>, vars |-> <<>>, retPos |-> d.pcb.programCounter,
                       retVar |-> DireccionDe(d.puntero, 4)])] = a
    BY <1>6, <1>7, <1>9, <1>11, <1>13 DEF ConPcb, ConPila
  <2> QED
    BY <1>15, <2>1 DEF llamarConRetorno
<1>17. Marcha(l) /\ l.pcb.indiceStack = s
  BY <1>12, <1>14, <1>15, Saltado
<1>18. a.pcb.indiceEtiquetas = programa.etiquetas
  BY <1>12, <1>14, PilaDelPcb
<1>19. /\ l.memoria = m.memoria
       /\ i.etiqueta \notin DOMAIN programa.etiquetas => l.interrupcion \in Fatales
       /\ i.etiqueta \in DOMAIN programa.etiquetas =>
            /\ l.interrupcion = d.interrupcion
            /\ l.pcb.programCounter = programa.etiquetas[i.etiqueta] - 1
       /\ Interrumpida(d, l)
  <2>1. CASE i.etiqueta \notin DOMAIN programa.etiquetas
    <3>1. l = Interrumpir(a, "direccionInvalida")
      BY <1>15, <1>18, <2>1 DEF Saltar
    <3>2. l.memoria = a.memoria /\ l.interrupcion = "direccionInvalida"
      BY <1>14, <3>1 DEF Interrumpir
    <3> QED
      BY <1>14, <2>1, <3>2 DEF Fatales, Interrumpida
  <2>2. CASE i.etiqueta \in DOMAIN programa.etiquetas
    <3>1. PICK e : e = programa.etiquetas[i.etiqueta] - 1
      OBVIOUS
    <3>2. PICK c : l = [a EXCEPT !.pcb.programCounter = e, !.aEjecutarDelPcb = c]
      BY <1>15, <1>18, <2>2, <3>1 DEF Saltar
    <3>3. l.memoria = a.memoria /\ l.interrupcion = a.interrupcion
          /\ l.pcb = [p EXCEPT !.programCounter = e]
      BY <1>14, <3>2
    <3>4. l.pcb.programCounter = e
      BY <1>12, <3>3 DEF PcbDelPrograma
    <3> QED
      BY <1>14, <2>2, <3>1, <3>3, <3>4 DEF Interrumpida
  <2> QED
    BY <2>1, <2>2
<1>20. PICK g : g = definirVariable(l, Argumentos[1])
  OBVIOUS
<1>21. r = asignar(g, g.puntero, v.valor)
  BY <1>2, <1>4, <1>16, <1>20 DEF Llamada, ConArgumento
<1>22. LlamadaPor(m, i, pila, v, d, nuevo, s, l, g, r)
  BY <1>2, <1>4, <1>7, <1>8, <1>9, <1>10, <1>17, <1>19, <1>20, <1>21 DEF LlamadaPor
<1> QED
  BY <1>22

\* The call, its caller in pila and its own frame the last of s.
Llamando(m, i, t, nodo, mk, pila, v, d, nuevo, s, l, g, r, z) ==
  /\ EnCursoFiel(m, i, t, nodo, mk) /\ pila = m.pcb.indiceStack
  /\ LlamadaPor(m, i, pila, v, d, nuevo, s, l, g, r) /\ z = Len(s)

\* Under the argument that it is about to define, the frame of the call is empty.
LEMMA LlamadaDefinible ==
  ASSUME programa \in Programas, NEW m, NEW i, NEW t, NEW nodo, NEW mk, NEW pila,
         NEW v, NEW d, NEW nuevo, NEW s, NEW l, NEW g, NEW r, NEW z,
         Llamando(m, i, t, nodo, mk, pila, v, d, nuevo, s, l, g, r, z)
  PROVE  /\ Definible(l, s, z, Argumentos[1]) /\ Ocupados(s) = Ocupados(pila)
         /\ z = t + 1 /\ s[z] = nuevo /\ \A k \in 1..t : s[k] = pila[k]
<1>1. /\ pila \in Seq(Nodo) /\ t \in Nat /\ t > 0 /\ t = Len(pila) /\ Numerada(pila)
  BY DEF Llamando, EnCursoFiel, EnPila, Fiel, Memorable, PilaClara
<1>2. /\ nuevo \in Nodo /\ nuevo.args = <<>> /\ nuevo.vars = <<>> /\ s = Append(pila, nuevo)
      /\ s \in Seq(Nodo) /\ EnOrden(s) /\ Marcha(l) /\ l.pcb.indiceStack = s
  BY DEF Llamando, LlamadaPor
<1>3. /\ z = t + 1 /\ DOMAIN s = 1..z /\ s[z] = nuevo /\ DOMAIN pila = 1..t
      /\ \A k \in 1..t : s[k] = pila[k]
  BY <1>1, <1>2 DEF Llamando
<1>4. z \in Nat /\ z > 0 /\ s # <<>> /\ z = Len(s)
  BY <1>1, <1>2, <1>3
<1>5. s = ConNodo(l.pcb.indiceStack)
  BY <1>2, <1>4 DEF ConNodo
<1>6. DOMAIN DireccionesDe(nuevo) = {}
  <2>1. Len(nuevo.args) = 0 /\ Len(nuevo.vars) = 0
    BY <1>2
  <2>2. DOMAIN DireccionesDe(nuevo) = 1..(Len(nuevo.args) + Len(nuevo.vars))
    BY <1>2, DireccionesDelNodo
  <2> QED
    BY <2>1, <2>2
<1>7. Parte(s, pila) /\ DOMAIN pila \subseteq DOMAIN s
  <2>1. DOMAIN s \subseteq Nat /\ DOMAIN pila \subseteq Nat /\ DOMAIN pila \subseteq DOMAIN s
    BY <1>1, <1>3
  <2>2. \A n \in DOMAIN s \ DOMAIN pila : n = z
    BY <1>1, <1>3
  <2>3. \A n \in DOMAIN pila : s[n] = pila[n]
    BY <1>3
  <2> QED
    BY <1>3, <1>6, <2>1, <2>2, <2>3 DEF Parte
<1>8. Numerada(s) /\ Ocupados(s) = Ocupados(pila)
  BY <1>1, <1>7, NumeradaIgual
<1>9. Definible(l, s, z, Argumentos[1])
  BY <1>2, <1>3, <1>4, <1>5, <1>8, PrimerArgumento DEF Definible
<1> QED
  BY <1>3, <1>8, <1>9

\* A call of something that is not there, or with no place for the argument.
LlamadaErronea(i, nodo, pila) ==
  \/ ~DefinidoEn(nodo, i.operando) \/ i.destino \notin NombresDe(nodo)
  \/ i.etiqueta \notin DOMAIN programa.etiquetas \/ Ocupados(pila) + 1 > Capacidad

LEMMA LlamadaFatal ==
  ASSUME programa \in Programas, NEW m, NEW i, NEW t, NEW nodo, NEW mk, NEW pila,
         NEW v, NEW d, NEW nuevo, NEW s, NEW l, NEW g, NEW r, NEW z,
         Llamando(m, i, t, nodo, mk, pila, v, d, nuevo, s, l, g, r, z),
         LlamadaErronea(i, nodo, pila)
  PROVE  r.interrupcion \in Fatales
<1>1. /\ v = Operar(m, i.operando) /\ d = obtenerPosicionVariable(v, i.destino)
      /\ i.etiqueta \notin DOMAIN programa.etiquetas => l.interrupcion \in Fatales
      /\ Interrumpida(d, l) /\ s = l.pcb.indiceStack /\ Marcha(l)
      /\ g = definirVariable(l, Argumentos[1]) /\ r = asignar(g, g.puntero, v.valor)
  BY DEF Llamando, LlamadaPor
<1>2. EnPila(m, t, nodo) /\ z = Len(s)
  BY DEF Llamando, EnCursoFiel
<1>3. EnPila(v, t, nodo) /\ (~DefinidoEn(nodo, i.operando) => v.interrupcion \in Fatales)
  BY <1>1, <1>2, Operado
<1>4. /\ Estable(v, d)
      /\ i.destino \notin NombresDe(nodo) => d.interrupcion \in Fatales
  BY <1>1, <1>3, Hallado
<1>6. Definible(l, s, z, Argumentos[1]) /\ Ocupados(s) = Ocupados(pila)
  BY LlamadaDefinible
<1>7. /\ Ocupados(s) + 1 > Capacidad => g.interrupcion \in Fatales
      /\ Marcha(g) /\ (g.interrupcion = l.interrupcion \/ g.interrupcion \in Fatales)
  <2>1. Ocupados(s) + 1 > Capacidad => g.interrupcion = "stackOverflow"
    BY <1>1, <1>6, UnaDefinicion
  <2>2. s = ConNodo(l.pcb.indiceStack) /\ s[Len(s)].vars = <<>>
    BY <1>2, <1>6, PrimerArgumento DEF Definible
  <2>3. Marcha(g) /\ (g.interrupcion = "stackOverflow" \/ g.interrupcion = l.interrupcion)
    BY <1>1, <2>2, PrimerArgumento, VariableDefinida
  <2>4. "stackOverflow" \in Fatales
    BY DEF Fatales
  <2> QED
    BY <2>1, <2>3, <2>4
<1>8. Estable(g, r)
  BY <1>1, <1>7, Asignada
<1> QED
  BY <1>1, <1>3, <1>4, <1>6, <1>7, <1>8 DEF LlamadaErronea, Estable, Interrumpida

\* A call with all that it needs: its frame, with the argument written.
LEMMA LlamadaDefine ==
  ASSUME programa \in Programas, NEW m, NEW i, NEW t, NEW nodo, NEW mk, NEW pila,
         NEW v, NEW d, NEW nuevo, NEW s, NEW l, NEW g, NEW r, NEW z,
         Llamando(m, i, t, nodo, mk, pila, v, d, nuevo, s, l, g, r, z), i.op = "llamar",
         ~LlamadaErronea(i, nodo, pila)
  PROVE  \E u, w, dir, x, mem2, y :
           /\ LlamadaEscrita(m.pcb, t, pila, u, w, dir, x, i.destino, m.memoria, mem2, y, mk)
           /\ y = ValorDelNodo(nodo, m.memoria, i.operando) /\ Numerada(u)
           /\ r.pcb \in PcbDelPrograma /\ r.pcb.indiceStack = u /\ r.memoria = mem2
           /\ r.pcb.programCounter = programa.etiquetas[i.etiqueta] - 1
           /\ r.interrupcion = "ninguna"
<1>1. /\ v = Operar(m, i.operando) /\ d = obtenerPosicionVariable(v, i.destino)
      /\ l.interrupcion = d.interrupcion /\ l.memoria = m.memoria
      /\ l.pcb.programCounter = programa.etiquetas[i.etiqueta] - 1 /\ Marcha(l)
      /\ nuevo = [args |-> <<>>, vars |-> <<>>, retPos |-> m.pcb.programCounter,
                  retVar |-> DireccionDe(d.puntero, 4)]
      /\ g = definirVariable(l, Argumentos[1]) /\ r = asignar(g, g.puntero, v.valor)
      /\ pila = m.pcb.indiceStack /\ EnCursoFiel(m, i, t, nodo, mk)
  BY DEF Llamando, LlamadaPor, LlamadaErronea
<1>2. /\ EnPila(m, t, nodo) /\ m.interrupcion = "ninguna" /\ PilaClara(pila)
      /\ MemoriaTipada(m.memoria) /\ mk = MarcosEn(pila, m.memoria) /\ m.pcb \in PcbDelPrograma
      /\ t \in Nat /\ t > 0 /\ t = Len(pila) /\ nodo = pila[t] /\ pila \in Seq(Nodo)
  BY <1>1 DEF EnCursoFiel, EnCurso, EnPila, Marcha, PilaClara
<1>3. /\ DefinidoEn(nodo, i.operando) /\ i.destino \in NombresDe(nodo)
      /\ ~(Ocupados(pila) + 1 > Capacidad)
  BY DEF LlamadaErronea
<1>4. /\ EnPila(v, t, nodo) /\ v.interrupcion = "ninguna"
      /\ v.valor = ValorDelNodo(nodo, m.memoria, i.operando)
  BY <1>1, <1>2, <1>3, Operado
<1>5. d.interrupcion = "ninguna" /\ d.puntero = PosicionEn(nodo, i.destino)
  BY <1>1, <1>3, <1>4, Hallado
<1>6. PICK y \in Valores : y = v.valor /\ y = ValorDelNodo(nodo, m.memoria, i.operando)
  BY <1>1, <1>4, OperandoConocido
<1>7. /\ Definible(l, s, z, Argumentos[1]) /\ Ocupados(s) = Ocupados(pila)
      /\ z = t + 1 /\ s[z] = nuevo /\ \A k \in 1..t : s[k] = pila[k]
  BY LlamadaDefinible
<1>8. Ocupados(s) + 1 <= Capacidad
  <2>1. Ocupados(pila) \in Nat /\ Capacidad \in Int
    BY <1>2, ValoresFinitos, PaginasNaturales DEF Capacidad, PorPagina
  <2> QED
    BY <1>3, <1>7, <2>1
<1>9. PICK u, w, dir : /\ Definio(s, z, Argumentos[1], u, w, dir)
                       /\ g.pcb = ConPila(l.pcb, u) /\ g.puntero = PunteroDe(dir)
                       /\ g.interrupcion = l.interrupcion /\ g.memoria = l.memoria
  BY <1>1, <1>7, <1>8, UnaDefinicion
<1>10. /\ w = ConDireccion(nuevo, Argumentos[1], dir) /\ w \in Nodo /\ u \in Seq(Nodo)
       /\ Len(u) = t + 1 /\ u[t + 1] = w /\ EnOrden(u) /\ Numerada(u)
       /\ \A k \in 1..t : u[k] = pila[k]
  <2>1. /\ w = ConDireccion(nuevo, Argumentos[1], dir) /\ w \in Nodo /\ u \in Seq(Nodo)
        /\ Len(u) = z /\ u[z] = w /\ EnOrden(u) /\ Numerada(u)
        /\ \A k \in 1..z : k # z => u[k] = s[k]
    BY <1>7, <1>9 DEF Definio
  <2>2. \A k \in 1..t : k \in 1..z /\ k # z
    BY <1>2, <1>7
  <2> QED
    BY <1>7, <2>1, <2>2
<1>11. PICK x : x = d.puntero
  OBVIOUS
<1>12. ConLlamada(m.pcb, t, pila, u, w, dir, x)
  <2>1. /\ w = [args |-> Append(<<>>, dir), vars |-> <<>>, retPos |-> m.pcb.programCounter,
                retVar |-> DireccionDe(x, 4)]
    BY <1>1, <1>10, <1>11, PrimerArgumento DEF ConDireccion
  <2>2. Append(<<>>, dir) = <<dir>>
    OBVIOUS
  <2>3. /\ w.args = <<dir>> /\ w.vars = <<>> /\ w.retPos = m.pcb.programCounter
        /\ w.retVar = DireccionDe(x, 4)
    BY <2>1, <2>2
  <2> QED
    BY <1>1, <1>2, <1>10, <2>3 DEF ConLlamada
<1>13. PilaClara(u)
  BY <1>2, <1>10, <1>12, ClaraConLlamada
<1>14. PICK mem2 : mem2 = ConValor(m.memoria, PunteroDe(dir), y)
  OBVIOUS
<1>15. LlamadaEscrita(m.pcb, t, pila, u, w, dir, x, i.destino, m.memoria, mem2, y, mk)
  BY <1>2, <1>3, <1>5, <1>6, <1>11, <1>12, <1>13, <1>14 DEF LlamadaEscrita
<1>16. Marcha(g)
  <2>1. s = ConNodo(l.pcb.indiceStack) /\ s[Len(s)].vars = <<>>
    BY <1>7, PrimerArgumento DEF Definible
  <2> QED
    BY <1>1, <2>1, PrimerArgumento, VariableDefinida
<1>17. EnPaginas(g.pcb, PunteroDe(dir))
  <2>1. PICK p : p = m.pcb /\ p \in PcbDelPrograma
    BY <1>2
  <2>2. LlamadaEscrita(p, t, pila, u, w, dir, x, i.destino, m.memoria, mem2, y, mk)
    BY <1>15, <2>1
  <2>3. EnPaginas(p, PunteroDe(dir))
    BY <2>2, MarcosLlaman
  <2>4. g.pcb \in PcbDelPrograma
    BY <1>16 DEF Marcha
  <2>5. cantidadPaginasTotales(p) = PaginasTotales /\ cantidadPaginasTotales(g.pcb) = PaginasTotales
    BY <2>1, <2>4, PaginasDelPcb
  <2> QED
    BY <2>3, <2>5 DEF EnPaginas
<1>18. r.pcb = g.pcb /\ r.interrupcion = g.interrupcion
  BY <1>1, <1>9, <1>16, <1>17, Asignada DEF Estable
<1>19. r.memoria = mem2
  <2>1. r = [g EXCEPT !.memoria = ConValor(@, PunteroDe(dir), y)]
    BY <1>1, <1>6, <1>9, <1>17 DEF asignar, almacenarDatosEnMemoria
  <2>2. r.memoria = ConValor(g.memoria, PunteroDe(dir), y)
    BY <1>16, <2>1 DEF Marcha
  <2> QED
    BY <1>1, <1>9, <1>14, <2>2
<1>20. /\ r.pcb \in PcbDelPrograma /\ r.pcb.indiceStack = u
       /\ r.pcb.programCounter = l.pcb.programCounter
  <2>1. l.pcb \in PcbDelPrograma
    BY <1>1 DEF Marcha
  <2> QED
    BY <1>9, <1>10, <1>18, <2>1, PcbConPila
<1>21. r.interrupcion = "ninguna"
  BY <1>1, <1>5, <1>9, <1>18
<1> QED
  BY <1>1, <1>6, <1>10, <1>15, <1>19, <1>20, <1>21

LEMMA LlamadaCorresponde ==
  ASSUME programa \in Programas, NEW m, NEW i, NEW t, NEW nodo, NEW mk,
         EnCursoFiel(m, i, t, nodo, mk), i.op = "llamar", NEW r, r = Llamada(m, i)
  PROVE  Corresponde(m, i, r)
<1>1. PICK pila : pila = m.pcb.indiceStack
  OBVIOUS
<1>2. PICK v, d, nuevo, s, l, g : LlamadaPor(m, i, pila, v, d, nuevo, s, l, g, r)
  BY <1>1, LlamadaPorPasos
<1>3. PICK z : Llamando(m, i, t, nodo, mk, pila, v, d, nuevo, s, l, g, r, z)
  BY <1>1, <1>2 DEF Llamando
<1>4. /\ DOMAIN Last(mk).valores = NombresDe(nodo)
      /\ DefinidoM(mk, i.operando) <=> DefinidoEn(nodo, i.operando)
      /\ DefinidoEn(nodo, i.operando) =>
           ValorM(mk, i.operando) = ValorDelNodo(nodo, m.memoria, i.operando)
      /\ VivasEn(mk) = Ocupados(pila)
  BY <1>1, UltimoMarco
<1>5. CASE LlamadaErronea(i, nodo, pila)
  <2>1. r.interrupcion \in Fatales
    BY <1>3, <1>5, LlamadaFatal
  <2>2. ErroneaM(i, mk)
    BY <1>4, <1>5 DEF ErroneaM, LlamadaErronea
  <2> QED
    BY <2>1, <2>2, ErroneaCorresponde
<1>6. CASE ~LlamadaErronea(i, nodo, pila)
  <2>1. PICK u, w, dir, x, mem2, y :
           /\ LlamadaEscrita(m.pcb, t, pila, u, w, dir, x, i.destino, m.memoria, mem2, y, mk)
           /\ y = ValorDelNodo(nodo, m.memoria, i.operando) /\ Numerada(u)
           /\ r.pcb \in PcbDelPrograma /\ r.pcb.indiceStack = u /\ r.memoria = mem2
           /\ r.pcb.programCounter = programa.etiquetas[i.etiqueta] - 1
           /\ r.interrupcion = "ninguna"
    BY <1>3, <1>6, LlamadaDefine
  <2>2. /\ DefinidoEn(nodo, i.operando) /\ i.destino \in NombresDe(nodo)
        /\ i.etiqueta \in DOMAIN programa.etiquetas /\ ~(Ocupados(pila) + 1 > Capacidad)
    BY <1>6 DEF LlamadaErronea
  <2>3. PICK p, mem : p = m.pcb /\ mem = m.memoria
    OBVIOUS
  <2>4. /\ LlamadaEscrita(p, t, pila, u, w, dir, x, i.destino, mem, mem2, y, mk)
        /\ Memorable(p, mem)
    BY <2>1, <2>3 DEF EnCursoFiel, Fiel
  <2>5. /\ MemoriaTipada(mem2) /\ x \in Int
        /\ MarcosEn(u, mem2) = Append(mk, MarcoLlamado(p.programCounter, i.destino, y))
    BY <2>4, MarcosLlaman
  <2>6. /\ ConLlamada(p, t, pila, u, w, dir, x) /\ i.destino \in NombresDe(pila[t])
        /\ x = PosicionEn(pila[t], i.destino)
    BY <2>4 DEF LlamadaEscrita
  <2>7. PICK e \in Nat : e = programa.etiquetas[i.etiqueta]
    BY <2>2, TextoDelPrograma
  <2>8. PICK q : q = ConContador(r.pcb, r.pcb.programCounter + 1)
    OBVIOUS
  <2>9. q \in PcbDelPrograma /\ q.indiceStack = u /\ q.programCounter = e
    <3>1. r.pcb.programCounter + 1 \in Int /\ r.pcb.programCounter + 1 = e
      BY <2>1, <2>7
    <3> QED
      BY <2>1, <2>8, <3>1, PcbConContador
  <2>10. Memorable(q, r.memoria)
    <3>1. PICK n : n \in NombresDe(pila[t]) /\ x = PosicionEn(pila[t], n)
      BY <2>6
    <3>2. /\ ConLlamada(p, t, pila, u, w, dir, x) /\ Memorable(p, mem) /\ MemoriaTipada(mem2)
          /\ Numerada(u) /\ x \in Int
      BY <2>1, <2>4, <2>5, <2>6
    <3>3. Memorable(q, mem2)
      BY <2>9, <3>1, <3>2, MemorableLlama
    <3> QED
      BY <2>1, <3>3
  <2>11. MarcoLlamado(m.pcb.programCounter, i.destino, ValorM(mk, i.operando))
           = MarcoDeLlamada(m.pcb.programCounter, i, ValorM(mk, i.operando))
    BY DEF MarcoLlamado, MarcoDeLlamada
  <2>12. MarcosEn(u, mem2)
           = Append(mk, MarcoDeLlamada(m.pcb.programCounter, i, ValorM(mk, i.operando)))
    BY <1>4, <2>1, <2>2, <2>3, <2>5, <2>11
  <2>13. VivasEn(mk) + 1 <= Capacidad
    <3>1. Ocupados(pila) \in Nat /\ Capacidad \in Int
      BY <2>6, ValoresFinitos, PaginasNaturales DEF Capacidad, PorPagina, ConLlamada
    <3> QED
      BY <1>4, <2>2, <3>1
  <2>14. Paso(i, m.pcb.programCounter, mk, q.programCounter, MarcosEn(q.indiceStack, r.memoria))
    BY <1>4, <2>1, <2>2, <2>7, <2>9, <2>12, <2>13 DEF Paso
  <2>15. mk = MarcosEn(m.pcb.indiceStack, m.memoria)
    BY DEF EnCursoFiel
  <2> QED
    BY <2>1, <2>8, <2>10, <2>14, <2>15 DEF Corresponde
<1> QED
  BY <1>5, <1>6

-----------------------------------------------------------------------------
(* The definition of variables.                                            *)

\* The values of the stack have place in it.
LEMMA OcupadosCaben ==
  ASSUME programa \in Programas, NEW pila \in Seq(Nodo), EnOrden(pila), Numerada(pila)
  PROVE  Ocupados(pila) <= Capacidad
<1>1. /\ PaginasDeCodigo \in Nat /\ PaginasTotales \in Nat /\ TamPagina \in Nat /\ TamPagina >= 4
      /\ StackSize \in Nat /\ StackSize > 0 /\ PaginasTotales = StackSize + PaginasDeCodigo
  BY PaginasNaturales DEF PaginasTotales
<1>2. PICK k \in Nat : k = PorPagina /\ k = TamPagina \div 4 /\ k >= 1
  <2>1. TamPagina \div 4 \in Nat /\ TamPagina \div 4 >= 1
    BY ONLY <1>1
  <2> QED
    BY <2>1 DEF PorPagina
<1>3. StackSize * k \in Nat /\ Capacidad = StackSize * k
  BY <1>1, <1>2 DEF Capacidad
<1>4. CASE ConDirecciones(pila) = {} /\ ValoresEnPila(pila) = {}
  <2>1. Ocupados(pila) = 0
    BY <1>4, FS_EmptySet DEF Ocupados
  <2> QED
    BY <1>3, <2>1
<1>5. CASE ConDirecciones(pila) # {}
  <2>1. PICK n, i, u :
          /\ n \in DOMAIN pila /\ i \in DOMAIN DireccionesDe(pila[n]) /\ u \in DireccionDeValor
          /\ u = DireccionesDe(pila[n])[i]
          /\ Anteriores(pila, <<n, i>>) = ValoresEnPila(pila) \ {<<n, i>>}
    BY <1>5, UltimoValor
  <2>2. PICK q \in Int, o \in Nat : q = u.pagina /\ o = u.offset
    BY <2>1 DEF DireccionDeValor
  <2>3. /\ o % 4 = 0 /\ o + 4 <= TamPagina /\ q \in PaginasDeCodigo..(PaginasTotales - 1)
        /\ Numero(u) = Cardinality(Anteriores(pila, <<n, i>>))
    BY <2>1, <2>2 DEF Numerada, EnOrden
  <2>4. Ocupados(pila) = Numero(u) + 1
    <3>1. <<n, i>> \in ValoresEnPila(pila)
      BY <2>1, ValoresSon
    <3>2. IsFiniteSet(ValoresEnPila(pila)) /\ Ocupados(pila) \in Nat
      BY ValoresFinitos
    <3>3. Cardinality(Anteriores(pila, <<n, i>>)) = Ocupados(pila) - 1
      BY <2>1, <3>1, <3>2, FS_RemoveElement DEF Ocupados
    <3> QED
      BY <2>3, <3>2, <3>3
  <2>5. PICK j \in Nat : j = q - PaginasDeCodigo /\ j + 1 <= StackSize
    <3>1. q - PaginasDeCodigo \in Nat /\ (q - PaginasDeCodigo) + 1 <= StackSize
      BY ONLY <1>1, <2>3
    <3> QED
      BY <3>1
  <2>6. PICK x \in Int : x = j * k /\ (j + 1) * k = x + k
    <3>1. j * k \in Int /\ (j + 1) * k = j * k + k
      BY <1>2, Paginas
    <3> QED
      BY <3>1
  <2>7. Numero(u) = x + o \div 4
    BY <1>2, <2>2, <2>5, <2>6 DEF Numero
  <2>8. o \div 4 \in Nat /\ o \div 4 < k
    BY <1>1, <1>2, <2>3, NumeroSiguiente
  <2>9. (j + 1) * k <= StackSize * k
    <3>1. PICK z \in Nat : z = StackSize - (j + 1)
      BY <1>1, <2>5
    <3>2. StackSize = (j + 1) + z
      BY <1>1, <3>1
    <3>3. ((j + 1) + z) * k = (j + 1) * k + z * k /\ z * k >= 0 /\ z * k \in Nat
      BY <1>2, SMTT(30)
    <3> QED
      BY <1>2, <2>6, <3>2, <3>3
  <2>10. PICK e \in Nat, c \in Nat : e = o \div 4 /\ c = StackSize * k /\ e < k /\ x + k <= c
    BY <1>3, <2>6, <2>8, <2>9
  <2>11. Ocupados(pila) = x + e + 1 /\ Capacidad = c
    BY <1>3, <2>4, <2>7, <2>10
  <2>12. x + e + 1 <= c
    BY ONLY <2>10, x \in Int, k \in Nat, e \in Nat, c \in Nat
  <2> QED
    BY <2>11, <2>12
<1> QED
  BY <1>4, <1>5, UltimoValor

LEMMA MemoriaAlDefinir ==
  ASSUME NEW m, Marcha(m), NEW nombre, NEW r, r = definirVariable(m, nombre)
  PROVE  r.memoria = m.memoria
<1>1. m = [pcb |-> m.pcb, memoria |-> m.memoria, aEjecutarDelPcb |-> m.aEjecutarDelPcb,
           interrupcion |-> m.interrupcion, puntero |-> m.puntero, valor |-> m.valor]
  BY DEF Marcha
<1>2. \/ \E s : r = Interrumpir([m EXCEPT !.pcb.indiceStack = s, !.puntero = 0], "stackOverflow")
      \/ \E s, x : r = [m EXCEPT !.pcb.indiceStack = s, !.puntero = x]
  BY DEF definirVariable
<1> QED
  BY <1>1, <1>2 DEF Interrumpir

\* The node with k names after those that it had.
NodoConNombres(a, nombres, k, b) ==
  /\ b.args = a.args /\ b.retPos = a.retPos /\ b.retVar = a.retVar
  /\ Len(b.vars) = Len(a.vars) + k
  /\ \A j \in 1..Len(a.vars) : b.vars[j] = a.vars[j]
  /\ \A j \in 1..k : b.vars[Len(a.vars) + j].idVar = nombres[j]

\* The stack with k names more in its last node.
ConNombres(s, t, nombres, k, u) ==
  /\ s \in Seq(Nodo) /\ u \in Seq(Nodo) /\ t \in Nat /\ t > 0 /\ Len(s) = t /\ Len(u) = t
  /\ EnOrden(u) /\ Numerada(u) /\ Ocupados(u) = Ocupados(s) + k
  /\ \A j \in 1..t : j # t => u[j] = s[j]
  /\ NodoConNombres(s[t], nombres, k, u[t])

DefinioHasta(d, m, s, t, nombres, k) ==
  /\ Marcha(d) /\ d.memoria = m.memoria /\ d.pcb = ConPila(m.pcb, d.pcb.indiceStack)
  /\ \/ d.interrupcion = "stackOverflow" /\ Ocupados(s) + k > Capacidad
     \/ /\ d.interrupcion = m.interrupcion
        /\ ConNombres(s, t, nombres, k, ConNodo(d.pcb.indiceStack))

LEMMA SumaUno ==
  ASSUME NEW n \in Nat, NEW k \in Nat
  PROVE  (n + k) + 1 = n + (k + 1)
OBVIOUS

LEMMA NodoConUnoMas ==
  ASSUME NEW a \in Nodo, NEW b \in Nodo, NEW nombres, NEW k \in Nat,
         NodoConNombres(a, nombres, k, b), NEW nombre, nombre = nombres[k + 1],
         nombre \notin ToSet(Argumentos), NEW dir \in DireccionDeValor,
         NEW w, w = ConDireccion(b, nombre, dir)
  PROVE  NodoConNombres(a, nombres, k + 1, w)
<1>1. PICK x : x = [idVar |-> nombre, dirVar |-> dir]
  OBVIOUS
<1>2. w = [b EXCEPT !.vars = Append(@, x)]
  BY <1>1 DEF ConDireccion
<1>3. /\ w.args = b.args /\ w.retPos = b.retPos /\ w.retVar = b.retVar /\ w.vars = Append(b.vars, x)
  <2>1. b = [args |-> b.args, vars |-> b.vars, retPos |-> b.retPos, retVar |-> b.retVar]
    BY NodoTipado
  <2> QED
    BY <1>2, <2>1
<1>4. PICK n \in Nat, o \in Nat : n = Len(a.vars) /\ o = Len(b.vars) /\ o = n + k
  BY NodoTipado DEF NodoConNombres
<1>5. PICK e : e = w.vars /\ Len(e) = o + 1 /\ e[o + 1] = x /\ \A j \in 1..o : e[j] = b.vars[j]
  <2>1. b.vars \in Seq(VarsDeNodo)
    BY NodoTipado
  <2>2. PICK c, T : c = b.vars /\ T = VarsDeNodo \cup {x} /\ Len(c) = o
    BY <1>4
  <2>3. c \in Seq(T) /\ x \in T
    BY <2>1, <2>2
  <2>4. Len(Append(c, x)) = o + 1 /\ Append(c, x)[o + 1] = x /\ \A j \in 1..o : Append(c, x)[j] = c[j]
    BY <2>2, <2>3
  <2> QED
    BY <1>3, <2>2, <2>4
<1>6. Len(w.vars) = Len(a.vars) + (k + 1) /\ n + (k + 1) = o + 1
  <2>1. o + 1 = n + (k + 1)
    <3>1. (n + k) + 1 = n + (k + 1)
      BY SumaUno
    <3>2. o = n + k
      BY <1>4
    <3> QED
      BY ONLY <3>1, <3>2
  <2>2. Len(w.vars) = o + 1
    BY <1>5
  <2> QED
    BY <1>4, <2>1, <2>2
<1>7. \A j \in 1..n : w.vars[j] = a.vars[j]
  <2>1. \A j \in 1..n : j \in 1..o
    BY <1>4
  <2> QED
    BY <1>4, <1>5, <2>1 DEF NodoConNombres
<1>8. ASSUME NEW j \in 1..(k + 1) PROVE w.vars[Len(a.vars) + j].idVar = nombres[j]
  <2>1. CASE j = k + 1
    <3>1. Len(a.vars) + j = o + 1
      BY <1>4, <1>6, <2>1
    <3>2. w.vars[o + 1] = x /\ x.idVar = nombre
      BY <1>1, <1>5
    <3> QED
      BY ONLY <2>1, <3>1, <3>2, nombre = nombres[k + 1]
  <2>2. CASE j # k + 1
    <3>1. j \in 1..k /\ n + j \in 1..o
      BY <1>4, <2>2
    <3>2. b.vars[n + j].idVar = nombres[j]
      BY <1>4, <3>1 DEF NodoConNombres
    <3> QED
      BY <1>4, <1>5, <3>1, <3>2
  <2> QED
    BY <2>1, <2>2
<1> QED
  BY <1>3, <1>4, <1>6, <1>7, <1>8 DEF NodoConNombres

LEMMA DefinioUnoMas ==
  ASSUME programa \in Programas, NEW m, Marcha(m), NEW s, NEW t, NEW nombres, NEW k \in Nat,
         s \in Seq(Nodo), nombres[k + 1] \in Nombres \ ToSet(Argumentos),
         NEW d, DefinioHasta(d, m, s, t, nombres, k), NEW r, r = definirVariable(d, nombres[k + 1])
  PROVE  DefinioHasta(r, m, s, t, nombres, k + 1)
<1>1. PICK nombre \in Nombres : nombre = nombres[k + 1] /\ nombre \notin ToSet(Argumentos)
  OBVIOUS
<1>2. PICK pila : pila = ConNodo(d.pcb.indiceStack)
  OBVIOUS
<1>3. /\ Marcha(d) /\ d.pcb \in PcbDelPrograma /\ d.memoria = m.memoria
      /\ d.pcb = ConPila(m.pcb, d.pcb.indiceStack) /\ m.pcb \in PcbDelPrograma
  BY DEF DefinioHasta, Marcha
<1>4. /\ Marcha(r)
      /\ \/ r.interrupcion = "stackOverflow" /\ r.pcb = ConPila(d.pcb, pila)
         \/ /\ r.interrupcion = d.interrupcion
            /\ r.pcb = ConPila(d.pcb, Definida(d.pcb, pila, nombre))
  BY <1>1, <1>2, <1>3, VariableDefinida
<1>5. r.memoria = m.memoria
  BY <1>3, MemoriaAlDefinir
<1>6. r.pcb = ConPila(m.pcb, r.pcb.indiceStack)
  <2>1. PICK u : r.pcb = ConPila(d.pcb, u)
    BY <1>4
  <2>2. PICK u0, p : p = m.pcb /\ d.pcb = ConPila(p, u0) /\ p \in PcbDelPrograma
    BY <1>3
  <2>3. ConPila(ConPila(p, u0), u) = ConPila(p, u) /\ ConPila(p, u).indiceStack = u
    BY <2>2 DEF ConPila, PcbDelPrograma
  <2> QED
    BY <2>1, <2>2, <2>3
<1>7. Ocupados(s) \in Nat /\ Capacidad \in Int
  BY ValoresFinitos, PaginasNaturales DEF Capacidad, PorPagina
<1>8. CASE d.interrupcion = "stackOverflow" /\ Ocupados(s) + k > Capacidad
  <2>1. Ocupados(s) + (k + 1) > Capacidad
    BY <1>7, <1>8
  <2> QED
    BY <1>4, <1>5, <1>6, <1>8, <2>1 DEF DefinioHasta
<1>9. CASE d.interrupcion = m.interrupcion /\ ConNombres(s, t, nombres, k, pila)
  <2>1. /\ pila \in Seq(Nodo) /\ t \in Nat /\ t > 0 /\ Len(s) = t /\ Len(pila) = t
        /\ EnOrden(pila) /\ Numerada(pila) /\ Ocupados(pila) = Ocupados(s) + k
        /\ \A j \in 1..t : j # t => pila[j] = s[j]
        /\ NodoConNombres(s[t], nombres, k, pila[t])
    BY <1>9 DEF ConNombres
  <2>2. Definible(d, pila, t, nombre)
    BY <1>1, <1>2, <1>3, <2>1 DEF Definible
  <2>3. CASE Ocupados(pila) + 1 > Capacidad
    <3>1. r.interrupcion = "stackOverflow"
      BY <1>1, <2>2, <2>3, UnaDefinicion
    <3>2. Ocupados(s) + (k + 1) > Capacidad
      BY <1>7, <2>1, <2>3
    <3> QED
      BY <1>4, <1>5, <1>6, <3>1, <3>2 DEF DefinioHasta
  <2>4. CASE Ocupados(pila) + 1 <= Capacidad
    <3>1. PICK u, w, dir : /\ Definio(pila, t, nombre, u, w, dir) /\ r.pcb = ConPila(d.pcb, u)
                           /\ r.interrupcion = d.interrupcion
      BY <1>1, <2>2, <2>4, UnaDefinicion
    <3>2. /\ dir \in DireccionDeValor /\ w \in Nodo /\ w = ConDireccion(pila[t], nombre, dir)
          /\ u \in Seq(Nodo) /\ Len(u) = t /\ u[t] = w /\ \A j \in 1..t : j # t => u[j] = pila[j]
          /\ EnOrden(u) /\ Numerada(u) /\ Ocupados(u) = Ocupados(pila) + 1
      BY <3>1 DEF Definio
    <3>3. s[t] \in Nodo /\ pila[t] \in Nodo
      <4>1. t \in DOMAIN s /\ t \in DOMAIN pila
        BY <2>1
      <4> QED
        BY <2>1, <4>1
    <3>4. NodoConNombres(s[t], nombres, k + 1, w)
      <4>1. PICK a \in Nodo, b \in Nodo : a = s[t] /\ b = pila[t]
        BY <3>3
      <4>2. NodoConNombres(a, nombres, k, b) /\ w = ConDireccion(b, nombre, dir)
        BY <2>1, <3>2, <4>1
      <4> QED
        BY <1>1, <3>2, <4>1, <4>2, NodoConUnoMas
    <3>5. Ocupados(u) = Ocupados(s) + (k + 1)
      BY <1>7, <2>1, <3>2
    <3>6. ConNombres(s, t, nombres, k + 1, u)
      BY <2>1, <3>2, <3>4, <3>5 DEF ConNombres
    <3>7. ConNodo(r.pcb.indiceStack) = u
      <4>1. r.pcb.indiceStack = u
        BY <1>3, <3>1, <3>2, PcbConPila
      <4>2. u # <<>>
        BY <2>1, <3>2
      <4> QED
        BY <4>1, <4>2 DEF ConNodo
    <3> QED
      BY <1>4, <1>5, <1>6, <1>9, <3>1, <3>6, <3>7 DEF DefinioHasta
  <2>5. Ocupados(pila) \in Int
    BY <2>1, ValoresFinitos
  <2> QED
    BY <1>7, <2>3, <2>4, <2>5
<1> QED
  BY <1>2, <1>8, <1>9 DEF DefinioHasta

LEMMA VariablesHasta ==
  ASSUME programa \in Programas, NEW m, Marcha(m), NEW i, NEW s, NEW t,
         i.nombres \in Seq(Nombres \ ToSet(Argumentos)), s \in Seq(Nodo),
         DefinioHasta(m, m, s, t, i.nombres, 0), NEW r, r = Variables(m, i)
  PROVE  DefinioHasta(r, m, s, t, i.nombres, Len(i.nombres))
<1>1. PICK n \in Nat : n = Len(i.nombres)
  OBVIOUS
<1>2. PICK nombres \in Seq(Nombres \ ToSet(Argumentos)) : nombres = i.nombres
  OBVIOUS
<1>3. PICK f : f = (CHOOSE g : Definiendo(m, nombres, n, g))
  OBVIOUS
<1>4. Definiendo(m, nombres, n, f)
  <2>1. \E g : Definiendo(m, nombres, n, g)
    BY HayDefiniciones
  <2> QED
    BY <1>3, <2>1
<1>5. r = f[n]
  BY <1>1, <1>2, <1>3 DEF Variables, Definiendo
<1>6. /\ f[0] = m
      /\ \A k \in 1..n : f[k] = definirVariable(f[k - 1], nombres[k])
  <2>1. 0 \in 0..n /\ \A k \in 1..n : k \in 0..n /\ k # 0
    OBVIOUS
  <2> QED
    BY <1>4, <2>1 DEF Definiendo
<1> DEFINE B == {k \in 0..n : DefinioHasta(f[k], m, s, t, nombres, k)}
<1>7. 0 \in B
  BY <1>2, <1>6
<1>8. ASSUME NEW k \in 1..n, k - 1 \in B PROVE k \in B
  <2>1. PICK j \in Nat : j = k - 1 /\ j + 1 = k
    <3>1. k - 1 \in Nat /\ (k - 1) + 1 = k
      OBVIOUS
    <3> QED
      BY <3>1
  <2>2. PICK d : d = f[j]
    OBVIOUS
  <2>3. DefinioHasta(d, m, s, t, nombres, j)
    BY <1>8, <2>1, <2>2
  <2>4. nombres[j + 1] \in Nombres \ ToSet(Argumentos)
    BY <1>1, <1>2, <2>1
  <2>5. PICK x : x = definirVariable(d, nombres[j + 1])
    OBVIOUS
  <2>6. DefinioHasta(x, m, s, t, nombres, j + 1)
    BY <2>3, <2>4, <2>5, DefinioUnoMas
  <2>7. f[k] = x /\ k \in 0..n
    BY <1>6, <2>1, <2>2, <2>5
  <2> QED
    BY <2>1, <2>6, <2>7
<1>9. B = 0..n
  <2>1. B \in SUBSET (0..n)
    OBVIOUS
  <2> HIDE DEF B
  <2> QED
    BY <1>7, <1>8, <2>1, HastaN
<1>10. n \in B
  BY <1>9
<1> QED
  BY <1>1, <1>2, <1>5, <1>10

\* The node with all the names of an instruction has those that it had where they were.
LEMMA NodoConTodos ==
  ASSUME NEW a \in Nodo, NEW b \in Nodo, NodoClaro(a), NEW n \in Nat,
         NEW nombres \in Seq(Nombres \ ToSet(Argumentos)), n = Len(nombres),
         NodoConNombres(a, nombres, n, b), IsInjective(nombres),
         \A v \in DOMAIN a.vars : a.vars[v].idVar \notin ToSet(nombres)
  PROVE  /\ NodoClaro(b) /\ NombresDe(b) = NombresDe(a) \cup ToSet(nombres)
         /\ NombresDe(a) \cap ToSet(nombres) = {}
         /\ \A o \in NombresDe(a) : DireccionEn(b, o) = DireccionEn(a, o)
<1>1. PICK l \in Nat, c \in Nat : /\ l = Len(a.vars) /\ c = Len(a.args) /\ DOMAIN a.vars = 1..l
                                  /\ DOMAIN a.args = 1..c
  BY NodoTipado
<1>2. /\ b.args = a.args /\ DOMAIN b.vars = 1..(l + n) /\ Len(b.vars) = l + n
      /\ \A j \in 1..l : b.vars[j] = a.vars[j]
      /\ \A j \in 1..n : b.vars[l + j].idVar = nombres[j]
  BY <1>1, NodoTipado DEF NodoConNombres
<1>3. ASSUME NEW v \in 1..(l + n)
      PROVE  \/ v \in 1..l /\ b.vars[v].idVar = a.vars[v].idVar
             \/ \E j \in 1..n : v = l + j /\ b.vars[v].idVar = nombres[j]
  <2>1. CASE v <= l
    <3>1. v \in 1..l
      BY <2>1
    <3> QED
      BY <1>2, <3>1
  <2>2. CASE v > l
    <3>1. PICK j \in 1..n : v = l + j
      <4>1. v - l \in 1..n /\ v = l + (v - l)
        BY <2>2
      <4> QED
        BY <4>1
    <3> QED
      BY <1>2, <3>1
  <2> QED
    BY <2>1, <2>2
<1>4. DOMAIN nombres = 1..n /\ ToSet(nombres) = {nombres[j] : j \in 1..n}
      /\ ToSet(nombres) \cap ToSet(Argumentos) = {}
  <2>1. \A j \in 1..n : nombres[j] \in Nombres \ ToSet(Argumentos)
    OBVIOUS
  <2> QED
    BY <2>1 DEF ToSet
<1>5. \A v, w \in DOMAIN b.vars : b.vars[v].idVar = b.vars[w].idVar => v = w
  <2> SUFFICES ASSUME NEW v \in 1..(l + n), NEW w \in 1..(l + n),
                      b.vars[v].idVar = b.vars[w].idVar
               PROVE  v = w
    BY <1>2
  <2>1. CASE v \in 1..l /\ w \in 1..l
    BY <1>1, <1>2, <2>1 DEF NodoClaro
  <2>0. \A x \in 1..l, y \in 1..(l + n) :
          y \notin 1..l => b.vars[x].idVar # b.vars[y].idVar
    <3> SUFFICES ASSUME NEW x \in 1..l, NEW y \in 1..(l + n), y \notin 1..l
                 PROVE  b.vars[x].idVar # b.vars[y].idVar
      OBVIOUS
    <3>1. PICK j \in 1..n : b.vars[y].idVar = nombres[j]
      BY <1>3
    <3>2. nombres[j] \in ToSet(nombres)
      BY <1>4
    <3>3. b.vars[x].idVar = a.vars[x].idVar /\ a.vars[x].idVar \notin ToSet(nombres)
      BY <1>1, <1>2
    <3> QED
      BY <3>1, <3>2, <3>3
  <2>2. CASE v \in 1..l /\ w \notin 1..l
    BY <2>0, <2>2
  <2>3. CASE v \notin 1..l /\ w \in 1..l
    BY <2>0, <2>3
  <2>4. CASE v \notin 1..l /\ w \notin 1..l
    <3>1. PICK j \in 1..n, k \in 1..n : /\ v = l + j /\ b.vars[v].idVar = nombres[j]
                                        /\ w = l + k /\ b.vars[w].idVar = nombres[k]
      BY <1>3, <2>4
    <3>2. j = k
      BY <1>4, <3>1 DEF IsInjective
    <3> QED
      BY <3>1, <3>2
  <2> QED
    BY <2>1, <2>2, <2>3, <2>4
<1>6. NodoClaro(b)
  BY <1>2, <1>5 DEF NodoClaro
<1>7. NombresDe(b) = NombresDe(a) \cup ToSet(nombres)
  <2>1. {b.vars[v].idVar : v \in 1..(l + n)}
          = {a.vars[v].idVar : v \in 1..l} \cup {nombres[j] : j \in 1..n}
    <3>1. \A j \in 1..n : l + j \in 1..(l + n)
      OBVIOUS
    <3>2. \A v \in 1..l : v \in 1..(l + n)
      OBVIOUS
    <3>3. \A j \in 1..n : nombres[j] \in {b.vars[v].idVar : v \in 1..(l + n)}
      <4> SUFFICES ASSUME NEW j \in 1..n PROVE nombres[j] \in {b.vars[v].idVar : v \in 1..(l + n)}
        OBVIOUS
      <4>1. PICK k : k = l + j /\ k \in 1..(l + n) /\ b.vars[k].idVar = nombres[j]
        BY <1>2, <3>1
      <4> QED
        BY <4>1
    <3>4. \A k \in 1..l : a.vars[k].idVar \in {b.vars[v].idVar : v \in 1..(l + n)}
      BY <1>2, <3>2
    <3>5. \A k \in 1..(l + n) :
            b.vars[k].idVar \in {a.vars[v].idVar : v \in 1..l} \cup {nombres[j] : j \in 1..n}
      <4> SUFFICES ASSUME NEW k \in 1..(l + n)
                   PROVE  b.vars[k].idVar
                            \in {a.vars[v].idVar : v \in 1..l} \cup {nombres[j] : j \in 1..n}
        OBVIOUS
      <4> QED
        BY <1>3
    <3>6. {b.vars[v].idVar : v \in 1..(l + n)}
            \subseteq {a.vars[v].idVar : v \in 1..l} \cup {nombres[j] : j \in 1..n}
      BY ONLY <3>5
    <3>7. /\ {a.vars[v].idVar : v \in 1..l} \subseteq {b.vars[v].idVar : v \in 1..(l + n)}
          /\ {nombres[j] : j \in 1..n} \subseteq {b.vars[v].idVar : v \in 1..(l + n)}
      BY ONLY <3>3, <3>4
    <3> QED
      BY ONLY <3>6, <3>7
  <2> QED
    BY <1>1, <1>2, <1>4, <2>1 DEF NombresDe
<1>8. NombresDe(a) \cap ToSet(nombres) = {}
  <2>1. \A j \in 1..c : Argumentos[j] \in ToSet(Argumentos)
    <3>1. c <= 1
      BY <1>1 DEF NodoClaro
    <3>2. \A j \in 1..c : j = 1
      BY <3>1
    <3> QED
      BY <3>2, PrimerArgumento
  <2> QED
    BY <1>1, <1>4, <2>1 DEF NombresDe
<1>9. ASSUME NEW o \in NombresDe(a) PROVE DireccionEn(b, o) = DireccionEn(a, o)
  <2>1. PICK j \in DOMAIN DireccionesDe(a) : /\ NombreDe(a, j) = o
                                             /\ DireccionEn(a, o) = DireccionesDe(a)[j]
    BY NombresDelNodo
  <2>2. j \in 1..(c + l) /\ j \in Nat
    <3>1. DOMAIN DireccionesDe(a) = 1..(c + l)
      BY <1>1, DireccionesDelNodo
    <3> QED
      BY <2>1, <3>1
  <2>3. j \in DOMAIN DireccionesDe(b)
    <3>1. DOMAIN DireccionesDe(b) = 1..(c + (l + n))
      BY <1>1, <1>2, DireccionesDelNodo
    <3> QED
      BY <2>2, <3>1
  <2>4. NombreDe(b, j) = o /\ DireccionesDe(b)[j] = DireccionesDe(a)[j]
    <3>1. CASE j <= c
      <4>1. j \in 1..c
        BY <2>2, <3>1
      <4>2. DireccionesDe(b)[j] = b.args[j] /\ DireccionesDe(a)[j] = a.args[j]
        BY <1>1, <1>2, <4>1, DireccionesDelNodo
      <4> QED
        BY <1>1, <1>2, <2>1, <3>1, <4>2 DEF NombreDe
    <3>2. CASE ~(j <= c)
      <4>1. PICK k \in 1..l : j = c + k /\ k = j - c
        <5>1. j - c \in 1..l /\ j = c + (j - c)
          BY <2>2, <3>2
        <5> QED
          BY <5>1
      <4>2. k \in 1..(l + n) /\ b.vars[k] = a.vars[k]
        BY <1>2
      <4>3. DireccionesDe(b)[c + k] = b.vars[k].dirVar /\ DireccionesDe(a)[c + k] = a.vars[k].dirVar
        <5>1. \A z \in 1..Len(b.vars) : DireccionesDe(b)[Len(b.args) + z] = b.vars[z].dirVar
          BY DireccionesDelNodo
        <5>2. \A z \in 1..Len(a.vars) : DireccionesDe(a)[Len(a.args) + z] = a.vars[z].dirVar
          BY DireccionesDelNodo
        <5> QED
          BY <1>1, <1>2, <4>2, <5>1, <5>2
      <4>4. NombreDe(b, j) = b.vars[k].idVar /\ NombreDe(a, j) = a.vars[k].idVar
        BY <1>1, <1>2, <3>2, <4>1 DEF NombreDe
      <4> QED
        BY <2>1, <4>1, <4>2, <4>3, <4>4
    <3> QED
      BY <3>1, <3>2
  <2> QED
    BY <1>6, <2>1, <2>3, <2>4, NombresDelNodo
<1> QED
  BY <1>6, <1>7, <1>8, <1>9

\* The names of an instruction are new to the frame that gets to it.
LEMMA NombresNuevos ==
  ASSUME programa \in Programas, NEW y \in DOMAIN programa.codigo,
         programa.codigo[y].op = "variables", NEW nodo, NodoDeclarado(nodo, y)
  PROVE  /\ IsInjective(programa.codigo[y].nombres)
         /\ programa.codigo[y].nombres \in Seq(Nombres \ ToSet(Argumentos))
         /\ \A v \in DOMAIN nodo.vars : nodo.vars[v].idVar \notin ToSet(programa.codigo[y].nombres)
<1>1. NombresUnaVez(programa)
  BY ProgramasBienFormados
<1>2. ASSUME NEW v \in DOMAIN nodo.vars
      PROVE  nodo.vars[v].idVar \notin ToSet(programa.codigo[y].nombres)
  <2>1. PICK x \in DOMAIN programa.codigo :
          /\ x < y /\ programa.codigo[x].op = "variables"
          /\ nodo.vars[v].idVar \in ToSet(programa.codigo[x].nombres)
          /\ \A e \in Entradas(programa) : e <= x <=> e <= y
    BY DEF NodoDeclarado
  <2>2. x # y
    <3>1. x \in Nat /\ y \in Nat
      BY EntradasEnElTexto
    <3> QED
      BY <2>1, <3>1
  <2>3. ToSet(programa.codigo[x].nombres) \cap ToSet(programa.codigo[y].nombres) = {}
    BY <1>1, <2>1, <2>2 DEF NombresUnaVez
  <2> QED
    BY <2>1, <2>3
<1>3. programa.codigo[y].nombres \in Seq(Nombres \ ToSet(Argumentos))
  BY TextoDelPrograma DEF RutinasBienFormadas
<1> QED
  BY <1>1, <1>2, <1>3 DEF NombresUnaVez

LEMMA DeclaradoConNombres ==
  ASSUME programa \in Programas, NEW y \in DOMAIN programa.codigo,
         programa.codigo[y].op = "variables", NEW nombres, nombres = programa.codigo[y].nombres,
         NEW a \in Nodo, NEW b \in Nodo, NodoDeclarado(a, y), NodoClaro(b),
         NEW n \in Nat, n = Len(nombres), NodoConNombres(a, nombres, n, b)
  PROVE  NodoDeclarado(b, y + 1)
<1>1. y \in Nat /\ y + 1 \in Nat /\ y <= y + 1 /\ y < y + 1
  BY EntradasEnElTexto
<1>2. \A e \in Entradas(programa) : e <= y <=> e <= y + 1
  <2>1. y + 1 \notin Entradas(programa)
    BY SiguienteEnElTexto
  <2> QED
    BY <1>1, <2>1, EntradasEnElTexto
<1>3. NodoDeclarado(a, y + 1)
  BY <1>1, <1>2, DeclaradoSigue
<1>4. PICK l \in Nat : l = Len(a.vars) /\ DOMAIN a.vars = 1..l
  BY NodoTipado
<1>5. /\ DOMAIN b.vars = 1..(l + n) /\ \A j \in 1..l : b.vars[j] = a.vars[j]
      /\ \A j \in 1..n : b.vars[l + j].idVar = nombres[j]
  BY <1>4, NodoTipado DEF NodoConNombres
<1>6. \A j \in 1..n : nombres[j] \in ToSet(nombres)
  <2>1. nombres \in Seq(Nombres \ ToSet(Argumentos))
    BY TextoDelPrograma DEF RutinasBienFormadas
  <2>2. DOMAIN nombres = 1..n
    BY <2>1
  <2> QED
    BY <2>2 DEF ToSet
<1>7. ASSUME NEW v \in DOMAIN b.vars
      PROVE  \E i \in DOMAIN programa.codigo :
               /\ i < y + 1 /\ programa.codigo[i].op = "variables"
               /\ b.vars[v].idVar \in ToSet(programa.codigo[i].nombres)
               /\ \A e \in Entradas(programa) : e <= i <=> e <= y + 1
  <2>1. v \in 1..(l + n)
    BY <1>5
  <2>2. CASE v <= l
    <3>1. v \in 1..l
      BY <2>1, <2>2
    <3> QED
      BY <1>3, <1>4, <1>5, <3>1 DEF NodoDeclarado
  <2>3. CASE ~(v <= l)
    <3>1. PICK j \in 1..n : v = l + j
      <4>1. v - l \in 1..n /\ v = l + (v - l)
        BY <2>1, <2>3
      <4> QED
        BY <4>1
    <3>2. b.vars[v].idVar \in ToSet(programa.codigo[y].nombres)
      BY <1>5, <1>6, <3>1
    <3> QED
      BY <1>1, <1>2, <3>2
  <2> QED
    BY <2>2, <2>3
<1> QED
  BY <1>7 DEF NodoDeclarado, NodoClaro

LEMMA ConNodoClara ==
  ASSUME NEW pila, PilaClara(pila), Numerada(pila), NEW s, s = ConNodo(pila)
  PROVE  /\ PilaClara(s) /\ Numerada(s) /\ Ocupados(s) = Ocupados(pila) /\ s # <<>>
         /\ Len(s) \in Nat /\ Len(s) > 0 /\ Len(s) \in DOMAIN s
<1>1. pila \in Seq(Nodo) /\ EnOrden(pila)
  BY DEF PilaClara
<1>2. s \in Seq(Nodo) /\ s # <<>> /\ EnOrden(s)
  BY <1>1, ConNodoTipada
<1>3. Len(s) \in Nat /\ Len(s) > 0 /\ Len(s) \in DOMAIN s
  <2>1. Len(s) # 0 /\ Len(s) \in Nat /\ DOMAIN s = 1..Len(s)
    BY <1>2, EmptySeq
  <2> QED
    BY <2>1
<1>4. CASE pila # <<>>
  BY <1>2, <1>3, <1>4 DEF ConNodo
<1>5. CASE pila = <<>>
  <2>1. s = <<NodoVacio>> /\ DOMAIN s = {1} /\ s[1] = NodoVacio /\ DOMAIN pila = {}
    BY <1>5 DEF ConNodo
  <2>2. NodoVacio \in Nodo /\ Len(NodoVacio.args) = 0 /\ Len(NodoVacio.vars) = 0
    BY NodoVacioTipado
  <2>3. DOMAIN DireccionesDe(NodoVacio) = {}
    <3>1. DOMAIN DireccionesDe(NodoVacio) = 1..(Len(NodoVacio.args) + Len(NodoVacio.vars))
      BY <2>2, DireccionesDelNodo
    <3> QED
      BY <2>2, <3>1
  <2>4. Parte(s, pila) /\ DOMAIN pila \subseteq DOMAIN s
    BY <2>1, <2>3 DEF Parte
  <2>5. Numerada(s) /\ Ocupados(s) = Ocupados(pila)
    BY <2>4, NumeradaIgual
  <2>6. NodoClaro(NodoVacio)
    <3>1. DOMAIN NodoVacio.vars = {}
      BY NodoVacioTipado
    <3> QED
      BY <2>2, <3>1 DEF NodoClaro
  <2> QED
    BY <1>2, <1>3, <2>1, <2>5, <2>6 DEF PilaClara
<1> QED
  BY <1>4, <1>5



\* The names of the last node are the ones that it had, where they were, and the new ones.
NombresPuestos(s, t, nombres, n, u) ==
  /\ ConNombres(s, t, nombres, n, u) /\ PilaClara(s) /\ PilaClara(u)
  /\ NombresDe(u[t]) = NombresDe(s[t]) \cup ToSet(nombres)
  /\ NombresDe(s[t]) \cap ToSet(nombres) = {}
  /\ \A o \in NombresDe(s[t]) : DireccionEn(u[t], o) = DireccionEn(s[t], o)

LEMMA MarcosDefinen ==
  ASSUME NEW s, NEW t, NEW nombres, NEW n, NEW u, NombresPuestos(s, t, nombres, n, u),
         NEW mem, MemoriaTipada(mem)
  PROVE  \E nuevos \in [ToSet(nombres) -> Valores] :
           MarcosEn(u, mem) = MarcosConNuevos(MarcosEn(s, mem), ToSet(nombres), nuevos)
<1>1. /\ s \in Seq(Nodo) /\ u \in Seq(Nodo) /\ t \in Nat /\ t > 0 /\ Len(s) = t /\ Len(u) = t
      /\ \A j \in 1..t : j # t => u[j] = s[j]
      /\ u[t].retPos = s[t].retPos /\ u[t].retVar = s[t].retVar
      /\ NombresDe(u[t]) = NombresDe(s[t]) \cup ToSet(nombres)
      /\ NombresDe(s[t]) \cap ToSet(nombres) = {}
      /\ \A o \in NombresDe(s[t]) : DireccionEn(u[t], o) = DireccionEn(s[t], o)
  BY DEF NombresPuestos, ConNombres, NodoConNombres
<1>2. PICK N : N = ToSet(nombres)
  OBVIOUS
<1>3. PICK nuevos : nuevos = [x \in N |-> ValorEn(mem, PosicionEn(u[t], x))]
  OBVIOUS
<1>4. nuevos \in [N -> Valores]
  BY <1>3, ValorConocido
<1>5. PICK mk : mk = MarcosEn(s, mem)
  OBVIOUS
<1>6. Len(mk) = t /\ DOMAIN mk = 1..t /\ t \in 1..t /\ \A k \in 1..t : mk[k] = Marco(s, mem, k)
  <2>1. DOMAIN s = 1..t /\ t \in 1..t
    BY <1>1
  <2> QED
    <3>0. s \in Seq(Nodo)
      BY <1>1
    <3>1. /\ Len(mk) = Len(s) /\ DOMAIN mk = DOMAIN s
          /\ \A k \in DOMAIN s : mk[k] = Marco(s, mem, k)
      BY ONLY <1>5, <3>0, MarcosTipados
    <3> QED
      BY <1>1, <2>1, <3>1
<1>7. ValoresDelNodo(u[t], mem) = ConNuevos(ValoresDelNodo(s[t], mem), N, nuevos)
  <2>1. DOMAIN ValoresDelNodo(s[t], mem) = NombresDe(s[t])
    BY DEF ValoresDelNodo
  <2>2. ConNuevos(ValoresDelNodo(s[t], mem), N, nuevos)
          = [x \in NombresDe(u[t]) |-> IF x \in N THEN nuevos[x] ELSE ValoresDelNodo(s[t], mem)[x]]
    BY <1>1, <1>2, <2>1 DEF ConNuevos
  <2>3. ASSUME NEW x \in NombresDe(u[t])
        PROVE  ValorEn(mem, PosicionEn(u[t], x))
                 = IF x \in N THEN nuevos[x] ELSE ValoresDelNodo(s[t], mem)[x]
    <3>1. CASE x \in N
      BY <1>3, <3>1
    <3>2. CASE x \notin N
      <4>1. x \in NombresDe(s[t])
        BY <1>1, <1>2, <3>2
      <4>2. ValoresDelNodo(s[t], mem)[x] = ValorEn(mem, PosicionEn(s[t], x))
        BY <4>1 DEF ValoresDelNodo
      <4>3. PosicionEn(u[t], x) = PosicionEn(s[t], x)
        BY <1>1, <4>1 DEF PosicionEn
      <4> QED
        BY <3>2, <4>2, <4>3
    <3> QED
      BY <3>1, <3>2
  <2>4. ValoresDelNodo(u[t], mem) = [x \in NombresDe(u[t]) |-> ValorEn(mem, PosicionEn(u[t], x))]
    BY DEF ValoresDelNodo
  <2> QED
    BY <2>2, <2>3, <2>4
<1>8. DestinoDe(u, t) = DestinoDe(s, t)
  <2>1. t # 1 => u[t - 1] = s[t - 1]
    <3>1. t # 1 => t - 1 \in 1..t /\ t - 1 # t
      BY <1>1
    <3> QED
      BY <1>1, <3>1
  <2>2. CASE t = 1
    BY <2>2 DEF DestinoDe
  <2>3. CASE t # 1
    <3>1. PICK a, x : a = s[t - 1] /\ a = u[t - 1] /\ x = s[t].retVar /\ x = u[t].retVar
      BY <1>1, <2>1, <2>3
    <3>2. DestinoDe(u, t) = <<CHOOSE o \in NombresDe(a) : PunteroDe(DireccionEn(a, o)) = PunteroDe(x)>>
      BY <2>3, <3>1 DEF DestinoDe
    <3>3. DestinoDe(s, t) = <<CHOOSE o \in NombresDe(a) : PunteroDe(DireccionEn(a, o)) = PunteroDe(x)>>
      BY <2>3, <3>1 DEF DestinoDe
    <3> QED
      BY <3>2, <3>3
  <2> QED
    BY <2>2, <2>3
<1>9. Marco(u, mem, t) = [mk[t] EXCEPT !.valores = ConNuevos(@, N, nuevos)]
  BY <1>1, <1>6, <1>7, <1>8 DEF Marco
<1>10. ASSUME NEW k \in 1..t, k # t PROVE Marco(u, mem, k) = mk[k]
  <2>1. k # 1 => k - 1 \in 1..t /\ k - 1 # t
    BY <1>1, <1>10
  <2>2. MismoMarco(u, s, k)
    BY <1>1, <1>10, <2>1 DEF MismoMarco
  <2>3. Marco(u, mem, k) = Marco(s, mem, k)
    BY <2>2, MarcoIgual
  <2> QED
    BY <1>6, <2>3
<1>11. MarcosEn(u, mem) = MarcosConNuevos(mk, N, nuevos)
  <2>1. PICK x : x = Marco(u, mem, t)
    OBVIOUS
  <2>2. MarcosConNuevos(mk, N, nuevos) = [mk EXCEPT ![t] = x]
    BY <1>6, <1>9, <2>1 DEF MarcosConNuevos
  <2>3. [mk EXCEPT ![t] = x] = [k \in 1..t |-> IF k = t THEN x ELSE mk[k]]
    BY <1>6
  <2>4. MarcosEn(u, mem) = [k \in 1..t |-> Marco(u, mem, k)]
    <3>1. DOMAIN u = 1..t
      BY <1>1
    <3> QED
      BY <3>1 DEF MarcosEn
  <2>5. \A k \in 1..t : Marco(u, mem, k) = IF k = t THEN x ELSE mk[k]
    BY <1>10, <2>1
  <2> QED
    BY <2>2, <2>3, <2>4, <2>5
<1> QED
  BY <1>2, <1>4, <1>5, <1>11


LEMMA MarcosConNodo ==
  ASSUME NEW pila \in Seq(Nodo), NEW mem, NEW mk, mk = MarcosEn(pila, mem)
  PROVE  MarcosEn(ConNodo(pila), mem) = IF mk = <<>> THEN <<MarcoVacio>> ELSE mk
<1>1. CASE pila # <<>>
  <2>1. Len(pila) # 0
    BY <1>1, EmptySeq
  <2>2. Len(mk) = Len(pila)
    BY MarcosTipados
  <2>3. mk # <<>>
    BY <2>1, <2>2
  <2> QED
    BY <1>1, <2>3 DEF ConNodo
<1>2. CASE pila = <<>>
  <2>1. ConNodo(pila) = <<NodoVacio>>
    BY <1>2 DEF ConNodo
  <2>2. PICK s : s = <<NodoVacio>> /\ DOMAIN s = 1..1 /\ s[1] = NodoVacio
    <3>1. DOMAIN <<NodoVacio>> = 1..1 /\ <<NodoVacio>>[1] = NodoVacio
      OBVIOUS
    <3> QED
      BY <3>1
  <2>3. NombresDe(NodoVacio) = {} /\ NodoVacio.retPos = 0
    <3>1. NodoVacio.retPos = 0 /\ DOMAIN NodoVacio.args = {} /\ DOMAIN NodoVacio.vars = {}
      BY DEF NodoVacio
    <3> QED
      BY <3>1 DEF NombresDe
  <2>4. ValoresDelNodo(NodoVacio, mem) = <<>>
    BY <2>3 DEF ValoresDelNodo
  <2>5. Marco(s, mem, 1) = MarcoVacio
    BY <2>2, <2>3, <2>4 DEF Marco, DestinoDe, MarcoVacio
  <2>6. MarcosEn(s, mem) = <<MarcoVacio>>
    <3>1. MarcosEn(s, mem) = [k \in 1..1 |-> Marco(s, mem, k)]
      BY <2>2 DEF MarcosEn
    <3>2. \A k \in 1..1 : Marco(s, mem, k) = MarcoVacio
      BY <2>5
    <3>3. MarcosEn(s, mem) = [k \in 1..1 |-> MarcoVacio]
      BY <3>1, <3>2
    <3> HIDE DEF MarcoVacio
    <3> QED
      BY <3>3
  <2>7. mk = <<>>
    BY <1>2 DEF MarcosEn
  <2> QED
    BY <2>1, <2>2, <2>6, <2>7
<1> QED
  BY <1>1, <1>2

\* The frame that defined its variables goes on after them.
LEMMA MemorableDefine ==
  ASSUME programa \in Programas, NEW p \in PcbDelPrograma, NEW mem, Memorable(p, mem),
         NEW s, s = ConNodo(p.indiceStack), NEW t, NEW nombres, NEW n, NEW u,
         ConNombres(s, t, nombres, n, u),
         NEW q \in PcbDelPrograma, q.indiceStack = u, q.programCounter = p.programCounter + 1,
         NodoDeclarado(u[t], q.programCounter + 1)
  PROVE  Memorable(q, mem)
<1>1. /\ s \in Seq(Nodo) /\ u \in Seq(Nodo) /\ t \in Nat /\ t > 0 /\ Len(s) = t /\ Len(u) = t
      /\ Numerada(u) /\ \A j \in 1..t : j # t => u[j] = s[j]
      /\ u[t].args = s[t].args /\ u[t].retPos = s[t].retPos /\ u[t].retVar = s[t].retVar
  BY DEF ConNombres, NodoConNombres
<1>2. DOMAIN u = 1..t /\ DOMAIN s = 1..t
  BY <1>1
<1>3. \A k \in 1..t : u[k].retPos = s[k].retPos /\ u[k].retVar = s[k].retVar
  BY <1>1
<1>4. \A k \in 1..t : k # t => s = p.indiceStack
  <2> SUFFICES ASSUME NEW k \in 1..t, k # t, p.indiceStack = <<>> PROVE FALSE
    BY DEF ConNodo
  <2>1. s = <<NodoVacio>>
    BY DEF ConNodo
  <2>2. Len(<<NodoVacio>>) = 1
    OBVIOUS
  <2>3. t = 1
    BY <1>1, <2>1, <2>2
  <2> QED
    BY <2>3
<1>5. ASSUME NEW k \in 1..t PROVE NodoDeclarado(u[k], LugarDe(q, k))
  <2>1. CASE k = t
    <3>1. LugarDe(q, t) = q.programCounter + 1
      BY <1>1 DEF LugarDe
    <3> QED
      BY <2>1, <3>1
  <2>2. CASE k # t
    <3>1. s = p.indiceStack /\ k + 1 \in 1..t /\ u[k] = s[k] /\ Len(p.indiceStack) = t
      BY <1>1, <1>4, <2>2
    <3>2. u[k + 1].retPos = s[k + 1].retPos
      BY <1>3, <3>1
    <3>3. LugarDe(q, k) = LugarDe(p, k)
      BY <1>1, <2>2, <3>1, <3>2 DEF LugarDe
    <3>4. NodoDeclarado(s[k], LugarDe(p, k))
      BY <1>2, <3>1 DEF Memorable
    <3> QED
      BY <3>1, <3>3, <3>4
  <2> QED
    BY <2>1, <2>2
<1>6. Destinos(u)
  <2> SUFFICES ASSUME NEW k \in DOMAIN u, k > 1
               PROVE  \E o \in NombresDe(u[k - 1]) :
                        PunteroDe(DireccionEn(u[k - 1], o)) = PunteroDe(u[k].retVar)
    BY DEF Destinos
  <2>1. k \in 1..t /\ k - 1 \in 1..t /\ k - 1 # t
    <3>1. k \in 1..t
      BY <1>2
    <3> QED
      BY <1>1, <3>1
  <2>2. s = p.indiceStack /\ u[k - 1] = s[k - 1] /\ u[k].retVar = s[k].retVar
    BY <1>1, <1>3, <1>4, <2>1
  <2>3. k \in DOMAIN s /\ Destinos(s)
    BY <1>2, <2>1, <2>2 DEF Memorable
  <2>4. \E o \in NombresDe(s[k - 1]) : PunteroDe(DireccionEn(s[k - 1], o)) = PunteroDe(s[k].retVar)
    BY <2>3 DEF Destinos
  <2> QED
    BY <2>2, <2>4
<1>7. MemoriaTipada(mem)
  BY DEF Memorable
<1> QED
  BY <1>1, <1>2, <1>5, <1>6, <1>7 DEF Memorable

LEMMA VariablesCorresponde ==
  ASSUME programa \in Programas, NEW m, NEW i, EnCurso(m, i), Fiel(m.pcb, m.memoria),
         i.op = "variables", NEW r, r = Variables(m, i)
  PROVE  Corresponde(m, i, r)
<1>1. PICK p, mem :
         /\ p \in PcbDelPrograma /\ p = m.pcb /\ mem = m.memoria /\ Memorable(p, mem) /\ PilaEnRutinas(p)
         /\ Marcha(m) /\ m.interrupcion = "ninguna" /\ Fiel(p, mem)
         /\ i = programa.codigo[p.programCounter + 1]
  BY DEF EnCurso, Fiel
<1>2. PICK y \in DOMAIN programa.codigo : /\ y = p.programCounter + 1 /\ i = programa.codigo[y]
                                          /\ y \in Nat
  BY <1>1, EntradasEnElTexto DEF PilaEnRutinas
<1>3. PICK pila \in Seq(Nodo) : /\ pila = p.indiceStack /\ PilaClara(pila) /\ Numerada(pila)
                                /\ MemoriaTipada(mem)
  BY <1>1, PilaDelPcb, FielClara DEF Memorable
<1>4. PICK s : s = ConNodo(pila)
  OBVIOUS
<1>5. PICK t \in Nat : /\ PilaClara(s) /\ Numerada(s) /\ Ocupados(s) = Ocupados(pila) /\ s # <<>>
                       /\ t = Len(s) /\ t > 0 /\ t \in DOMAIN s
  BY <1>3, <1>4, ConNodoClara
<1>6. s \in Seq(Nodo) /\ EnOrden(s) /\ s[t] \in Nodo /\ NodoClaro(s[t])
  BY <1>5 DEF PilaClara
<1>7. NodoDeclarado(s[t], y)
  <2>1. CASE pila = <<>>
    <3>1. s[t] = NodoVacio
      <4>1. s = <<NodoVacio>> /\ \A k \in DOMAIN s : k = 1
        BY <1>4, <2>1 DEF ConNodo
      <4> QED
        BY <1>5, <4>1
    <3>2. DOMAIN s[t].vars = {}
      BY <3>1 DEF NodoVacio
    <3> QED
      BY <3>2 DEF NodoDeclarado
  <2>2. CASE pila # <<>>
    <3>1. s = pila
      BY <1>4, <2>2 DEF ConNodo
    <3> QED
      BY <1>1, <1>2, <1>3, <1>5, <3>1 DEF Memorable, LugarDe
  <2> QED
    BY <2>1, <2>2
<1>8. PICK nombres \in Seq(Nombres \ ToSet(Argumentos)) :
        /\ nombres = i.nombres /\ IsInjective(nombres)
        /\ \A v \in DOMAIN s[t].vars : s[t].vars[v].idVar \notin ToSet(nombres)
  BY <1>2, <1>7, NombresNuevos
<1>9. PICK n \in Nat : n = Len(nombres)
  OBVIOUS
<1>10. DefinioHasta(r, m, s, t, nombres, n)
  <2>1. NodoConNombres(s[t], nombres, 0, s[t])
    <3>1. Len(s[t].vars) \in Nat
      BY <1>6, NodoTipado
    <3> QED
      BY <3>1 DEF NodoConNombres
  <2>2. Ocupados(s) \in Nat
    BY <1>6, ValoresFinitos
  <2>3. ConNombres(s, t, nombres, 0, s)
    BY <1>5, <1>6, <2>1, <2>2 DEF ConNombres
  <2>4. m.pcb = ConPila(m.pcb, m.pcb.indiceStack)
    BY <1>1 DEF ConPila, PcbDelPrograma
  <2>5. DefinioHasta(m, m, s, t, nombres, 0)
    BY <1>1, <1>3, <1>4, <2>3, <2>4 DEF DefinioHasta
  <2> QED
    BY <1>1, <1>6, <1>8, <1>9, <2>5, VariablesHasta
<1>11. /\ r.memoria = mem /\ r.pcb = ConPila(p, r.pcb.indiceStack) /\ Marcha(r)
       /\ \/ r.interrupcion = "stackOverflow" /\ Ocupados(s) + n > Capacidad
          \/ r.interrupcion = "ninguna" /\ ConNombres(s, t, nombres, n, ConNodo(r.pcb.indiceStack))
  BY <1>1, <1>10 DEF DefinioHasta
<1>12. PICK mk : mk = MarcosEn(pila, mem)
  OBVIOUS
<1>13. VivasEn(mk) = Ocupados(pila)
  BY <1>3, <1>12, VivasSon DEF VivasEn
<1>14. CASE r.interrupcion = "stackOverflow" /\ Ocupados(s) + n > Capacidad
  <2>1. ErroneaM(i, mk)
    BY <1>5, <1>8, <1>9, <1>13, <1>14 DEF ErroneaM
  <2>2. r.interrupcion \in Fatales
    BY <1>14 DEF Fatales
  <2> QED
    BY <1>1, <1>3, <1>12, <2>1, <2>2 DEF Corresponde
<1>15. CASE r.interrupcion = "ninguna" /\ ConNombres(s, t, nombres, n, ConNodo(r.pcb.indiceStack))
  <2>1. PICK u : u = ConNodo(r.pcb.indiceStack)
    OBVIOUS
  <2>2. /\ ConNombres(s, t, nombres, n, u) /\ u \in Seq(Nodo) /\ EnOrden(u) /\ Numerada(u)
        /\ Ocupados(u) = Ocupados(s) + n /\ NodoConNombres(s[t], nombres, n, u[t]) /\ Len(u) = t
        /\ \A j \in 1..t : j # t => u[j] = s[j]
    BY <1>15, <2>1 DEF ConNombres
  <2>3. r.pcb \in PcbDelPrograma /\ r.pcb.programCounter = p.programCounter
    <3>1. r.pcb \in PcbDelPrograma
      BY <1>11 DEF Marcha
    <3>2. PICK z \in Seq(Nodo) : z = r.pcb.indiceStack
      BY <3>1, PilaDelPcb
    <3>3. r.pcb = ConPila(p, z)
      BY <1>11, <3>2
    <3>4. ConPila(p, z).programCounter = p.programCounter
      BY <1>1 DEF ConPila, PcbDelPrograma
    <3> QED
      BY <3>1, <3>3, <3>4
  <2>4. r.pcb.indiceStack = u
    <3>1. n > 0 \/ pila # <<>>
      <4>1. ASSUME pila = <<>> PROVE n > 0
        <5>1. y = Principal(programa)
          BY <1>1, <1>2, <1>3, <4>1 DEF PilaEnRutinas, Principal
        <5>2. nombres # <<>>
          BY <1>2, <1>8, <5>1, TextoDelPrograma DEF RutinasBienFormadas
        <5>3. Len(nombres) # 0
          BY <5>2, EmptySeq
        <5> QED
          BY <1>9, <5>3
      <4> QED
        BY <4>1
    <3>2. Avance(r, m, nombres, n)
      BY <1>1, <1>8, <1>9, VariablesDefinidas
    <3> QED
      BY <1>1, <1>3, <2>1, <3>1, <3>2 DEF Avance
  <2>5. PICK q : q = ConContador(r.pcb, r.pcb.programCounter + 1)
    OBVIOUS
  <2>6. /\ q \in PcbDelPrograma /\ q.indiceStack = u
        /\ q.programCounter = p.programCounter + 1 /\ q.programCounter = y
    <3>1. PICK x \in PcbDelPrograma : x = r.pcb /\ x.indiceStack = u /\ x.programCounter = p.programCounter
      BY <2>3, <2>4
    <3>2. PICK c \in Int : c = x.programCounter + 1 /\ c = y
      BY <1>2, <3>1
    <3>3. q = ConContador(x, c)
      BY <2>5, <3>1, <3>2
    <3>4. q \in PcbDelPrograma /\ q.indiceStack = x.indiceStack /\ q.programCounter = c
      BY <3>1, <3>3, PcbConContador
    <3> QED
      BY <1>2, <3>1, <3>2, <3>4
  <2>7. u[t] \in Nodo
    BY <1>5, <2>2
  <2>8. /\ NodoClaro(u[t]) /\ NombresDe(u[t]) = NombresDe(s[t]) \cup ToSet(nombres)
        /\ NombresDe(s[t]) \cap ToSet(nombres) = {}
        /\ \A o \in NombresDe(s[t]) : DireccionEn(u[t], o) = DireccionEn(s[t], o)
    <3>1. PICK a \in Nodo, b \in Nodo : a = s[t] /\ b = u[t]
      BY <1>6, <2>7
    <3>2. /\ NodoClaro(a) /\ NodoConNombres(a, nombres, n, b)
          /\ \A v \in DOMAIN a.vars : a.vars[v].idVar \notin ToSet(nombres)
      BY <1>6, <1>8, <2>2, <3>1
    <3>3. /\ NodoClaro(b) /\ NombresDe(b) = NombresDe(a) \cup ToSet(nombres)
          /\ NombresDe(a) \cap ToSet(nombres) = {}
          /\ \A o \in NombresDe(a) : DireccionEn(b, o) = DireccionEn(a, o)
      BY <1>8, <1>9, <3>2, NodoConTodos
    <3> QED
      BY <3>1, <3>3
  <2>9. PilaClara(u)
    <3> SUFFICES ASSUME NEW k \in DOMAIN u PROVE NodoClaro(u[k])
      BY <2>2 DEF PilaClara
    <3>1. k \in 1..t /\ k \in DOMAIN s
      BY <1>5, <1>6, <2>2
    <3>2. CASE k = t
      BY <2>8, <3>2
    <3>3. CASE k # t
      <4>1. u[k] = s[k]
        BY <2>2, <3>1, <3>3
      <4> QED
        BY <1>5, <3>1, <4>1 DEF PilaClara
    <3> QED
      BY <3>2, <3>3
  <2>10. NombresPuestos(s, t, nombres, n, u)
    BY <1>5, <2>2, <2>8, <2>9 DEF NombresPuestos
  <2>11. PICK nuevos \in [ToSet(nombres) -> Valores] :
           MarcosEn(u, mem) = MarcosConNuevos(MarcosEn(s, mem), ToSet(nombres), nuevos)
    BY <1>3, <2>10, MarcosDefinen
  <2>12. MarcosEn(s, mem) = IF mk = <<>> THEN <<MarcoVacio>> ELSE mk
    BY <1>3, <1>4, <1>12, MarcosConNodo
  <2>13. DefinirM(i, mk, MarcosEn(u, mem))
    <3>1. PICK w, v, fr : /\ w = ToSet(i.nombres) /\ fr = MarcosEn(u, mem)
                          /\ v = IF mk = <<>> THEN <<MarcoVacio>> ELSE mk
      OBVIOUS
    <3>2. nuevos \in [w -> Valores] /\ fr = MarcosConNuevos(v, w, nuevos)
      BY <1>8, <2>11, <2>12, <3>1
    <3> QED
      BY <3>1, <3>2 DEF DefinirM
  <2>14. NodoDeclarado(u[t], q.programCounter + 1)
    <3>1. PICK a \in Nodo, b \in Nodo : a = s[t] /\ b = u[t]
      BY <1>6, <2>7
    <3>2. NodoDeclarado(a, y) /\ NodoClaro(b) /\ NodoConNombres(a, nombres, n, b)
      BY <1>7, <2>2, <2>8, <3>1
    <3>3. NodoDeclarado(b, y + 1)
      BY <1>2, <1>8, <1>9, <3>2, DeclaradoConNombres
    <3> QED
      BY <2>6, <3>1, <3>3
  <2>15. Memorable(q, mem)
    <3>1. s = ConNodo(p.indiceStack)
      BY <1>3, <1>4
    <3> QED
      BY <1>1, <2>2, <2>6, <2>14, <3>1, MemorableDefine
  <2>16. VivasEn(mk) + Len(i.nombres) <= Capacidad
    <3>1. Ocupados(u) <= Capacidad
      BY <2>2, OcupadosCaben
    <3> QED
      BY <1>5, <1>8, <1>9, <1>13, <2>2, <3>1
  <2>17. Paso(i, m.pcb.programCounter, mk, q.programCounter, MarcosEn(q.indiceStack, r.memoria))
    BY <1>1, <1>11, <2>6, <2>13, <2>16 DEF Paso
  <2> QED
    BY <1>1, <1>3, <1>11, <1>12, <1>15, <2>5, <2>15, <2>17 DEF Corresponde
<1> QED
  BY <1>11, <1>14, <1>15

\* Whatever the instruction, and whatever the CPU takes for the answer.
LEMMA InstruccionCorresponde ==
  ASSUME programa \in Programas, NEW m, NEW i, EnCurso(m, i), Fiel(m.pcb, m.memoria),
         i.op # "fin", NEW rechazo \in BOOLEAN, NEW r \in Resultados(m, i, rechazo)
  PROVE  Corresponde(m, i, r) /\ (i.op \in Refutable => r.pcb = m.pcb)
<1>1. i.op \in Operaciones
  <2>1. PICK y \in DOMAIN programa.codigo : i = programa.codigo[y]
    BY DEF EnCurso, PilaEnRutinas
  <2> QED
    BY <2>1, TextoDelPrograma DEF RutinasBienFormadas
<1>2. CASE i.op = "variables"
  BY <1>2, VariablesCorresponde DEF Resultados, Refutable, ConRespuesta
<1>3. CASE i.op # "variables"
  <2>1. PICK t, nodo, mk : EnCursoFiel(m, i, t, nodo, mk)
    BY <1>3, HayCima
  <2>2. CASE i.op = "asignar"
    BY <2>1, <2>2, AsignacionCorresponde DEF Resultados, Refutable, ConRespuesta
  <2>3. CASE i.op = "llamar"
    BY <2>1, <2>3, LlamadaCorresponde DEF Resultados, Refutable, ConRespuesta
  <2>4. CASE i.op = "retornar"
    BY <2>1, <2>4, RetornoCorresponde DEF Resultados, Refutable, ConRespuesta
  <2>5. CASE i.op = "saltar"
    BY <2>1, <2>5, SaltoCorresponde DEF Resultados, Refutable, ConRespuesta
  <2>6. CASE i.op = "wait"
    BY <2>1, <2>6, EsperaCorresponde DEF Resultados, ConRespuesta
  <2>7. CASE i.op = "pedir"
    BY <2>1, <2>7, PedidoCorresponde DEF Resultados, ConRespuesta
  <2>8. CASE i.op \in ConRespuesta
    <3>1. PICK x : r = Alocar(m, i, rechazo, x) /\ (x \in Punteros \/ rechazo)
      BY <2>8 DEF Resultados, ConRespuesta
    <3> QED
      BY <2>1, <2>8, <3>1, AlocarCorresponde
  <2> QED
    BY <1>1, <1>3, <2>2, <2>3, <2>4, <2>5, <2>6, <2>7, <2>8 DEF Operaciones, ConRespuesta
<1> QED
  BY <1>2, <1>3

-----------------------------------------------------------------------------
(* The run of the program, in the variables of the CPU.                    *)

PcVisto     == IF Terminado THEN 0 ELSE PcbActual.programCounter
MarcosVisto == IF Terminado THEN <<>> ELSE MarcosDe(PcbActual.indiceStack)

InstruccionVista == programa.codigo[PcVisto + 1]

LEMMA VistaIgual ==
  ASSUME programa' = programa, PcVisto' = PcVisto, MarcosVisto' = MarcosVisto, EstadoDe' = EstadoDe
  PROVE  UNCHANGED Ejecucion!vars
BY DEF Ejecucion!vars, PcVisto, MarcosVisto

LEMMA VistaTermina ==
  ASSUME programa' = programa, EstadoDe = 1, NEW c, EstadoDe' = c, PcVisto' = 0,
         MarcosVisto' = <<>>
  PROVE  Ejecucion!Terminar(c)
BY DEF Ejecucion!Terminar, Ejecucion!Vivo, PcVisto, MarcosVisto

LEMMA VistaOpera ==
  /\ Ejecucion!Instruccion = InstruccionVista
  /\ Ejecucion!Vivas = VivasEn(MarcosVisto)
  /\ Ejecucion!Marco = Last(MarcosVisto)
  /\ \A x : Ejecucion!Definido(x) <=> DefinidoM(MarcosVisto, x)
  /\ \A x : Ejecucion!Valor(x) = ValorM(MarcosVisto, x)
<1>1. Ejecucion!Instruccion = InstruccionVista
  BY DEF Ejecucion!Instruccion, InstruccionVista, PcVisto
<1>2. Ejecucion!Vivas = VivasEn(MarcosVisto)
  BY DEF Ejecucion!Vivas, VivasEn, MarcosVisto, Ejecucion!Cardinality, Cardinality
<1>3. Ejecucion!Marco = Last(MarcosVisto)
  BY DEF Ejecucion!Marco, MarcosVisto, Ejecucion!Last, Last
<1>4. \A x : Ejecucion!Definido(x) <=> DefinidoM(MarcosVisto, x)
  BY <1>3 DEF Ejecucion!Definido, DefinidoM
<1>5. \A x : Ejecucion!Valor(x) = ValorM(MarcosVisto, x)
  BY <1>3 DEF Ejecucion!Valor, ValorM
<1> QED
  BY <1>1, <1>2, <1>3, <1>4, <1>5

LEMMA LlamadaVista ==
  ASSUME NEW pc, NEW i, NEW v
  PROVE  [Ejecucion!NuevoMarco(pc, <<i.destino>>) EXCEPT !.valores =
            Ejecucion!Con(<<>>, Argumentos[1], v)] = MarcoDeLlamada(pc, i, v)
<1>1. Ejecucion!Con(<<>>, Argumentos[1], v) = [n \in {Argumentos[1]} |-> v]
  <2>1. \A n \in {Argumentos[1]} : n = Argumentos[1]
    OBVIOUS
  <2>2. Ejecucion!Con(<<>>, Argumentos[1], v)
          = [n \in {Argumentos[1]} |-> IF n = Argumentos[1] THEN v ELSE <<>>[n]]
    <3>1. (DOMAIN <<>>) \cup {Argumentos[1]} = {Argumentos[1]}
      OBVIOUS
    <3> QED
      BY <3>1 DEF Ejecucion!Con
  <2> QED
    BY <2>1, <2>2
<1> QED
  BY <1>1 DEF Ejecucion!NuevoMarco, MarcoDeLlamada

PilasCon(pila, nombres) ==
  {[pila EXCEPT ![Len(pila)].valores =
      [n \in DOMAIN @ \cup nombres |-> IF n \in nombres THEN nuevos[n] ELSE @[n]]]
   : nuevos \in [nombres -> Valores]}

LEMMA NuevosVistos ==
  ASSUME NEW v, NEW w, NEW nuevos \in [w -> Valores]
  PROVE  MarcosConNuevos(v, w, nuevos) \in PilasCon(v, w)
BY DEF MarcosConNuevos, ConNuevos, PilasCon

LEMMA VistaPasa ==
  ASSUME programa' = programa, EstadoDe = 1, EstadoDe' = 1,
         Paso(InstruccionVista, PcVisto, MarcosVisto, PcVisto', MarcosVisto')
  PROVE  Ejecucion!Next
<1>1. Ejecucion!Instruccion = InstruccionVista /\ Ejecucion!Vivas = VivasEn(MarcosVisto)
  BY VistaOpera
<1>2. Ejecucion!Marco = Last(MarcosVisto)
  BY VistaOpera
<1>3. PcVisto' = PcVisto + 1 => Ejecucion!Avanza
  BY DEF Ejecucion!Avanza, PcVisto
<1>4. CASE /\ InstruccionVista.op = "variables"
           /\ VivasEn(MarcosVisto) + Len(InstruccionVista.nombres) <= Capacidad
           /\ DefinirM(InstruccionVista, MarcosVisto, MarcosVisto') /\ PcVisto' = PcVisto + 1
  <2>1. Ejecucion!En("variables")
    BY <1>1, <1>4 DEF Ejecucion!En, Ejecucion!Vivo
  <2>2. Ejecucion!Vivas + Len(Ejecucion!Instruccion.nombres) <= StackSize * (TamPagina \div 4)
    BY <1>1, <1>4 DEF Capacidad, PorPagina
  <2>3. PICK nuevos \in [ToSet(InstruccionVista.nombres) -> Valores] :
          MarcosVisto' = MarcosConNuevos(IF MarcosVisto = <<>> THEN <<MarcoVacio>> ELSE MarcosVisto,
                                         ToSet(InstruccionVista.nombres), nuevos)
    BY <1>4 DEF DefinirM
  <2>4. /\ Ejecucion!ToSet(Ejecucion!Instruccion.nombres) = ToSet(InstruccionVista.nombres)
        /\ Ejecucion!NuevoMarco(0, <<>>) = MarcoVacio
    BY <1>1 DEF Ejecucion!ToSet, ToSet, Ejecucion!NuevoMarco, MarcoVacio
  <2>5. MarcosVisto' \in PilasCon(IF MarcosVisto = <<>> THEN <<Ejecucion!NuevoMarco(0, <<>>)>>
                                  ELSE MarcosVisto,
                                  Ejecucion!ToSet(Ejecucion!Instruccion.nombres))
    <3>1. PICK v, w : /\ v = IF MarcosVisto = <<>> THEN <<MarcoVacio>> ELSE MarcosVisto
                      /\ w = ToSet(InstruccionVista.nombres)
      OBVIOUS
    <3>2. nuevos \in [w -> Valores] /\ MarcosVisto' = MarcosConNuevos(v, w, nuevos)
      BY <2>3, <3>1
    <3>3. MarcosVisto' \in PilasCon(v, w)
      BY ONLY <3>2, NuevosVistos
    <3> QED
      BY <2>4, <3>1, <3>3
  <2>6. Ejecucion!Avanza
    BY <1>3, <1>4
  <2>7. Ejecucion!Definir
    BY ONLY <2>1, <2>2, <2>5, <2>6 DEF Ejecucion!Definir, MarcosVisto, PilasCon
  <2> QED
    BY <2>7 DEF Ejecucion!Next
<1>5. CASE /\ InstruccionVista.op = "asignar" /\ DefinidoM(MarcosVisto, InstruccionVista.operando)
           /\ InstruccionVista.destino \in DOMAIN Last(MarcosVisto).valores
           /\ MarcosVisto' = [MarcosVisto EXCEPT ![Len(MarcosVisto)].valores[InstruccionVista.destino]
                                = ValorM(MarcosVisto, InstruccionVista.operando)]
           /\ PcVisto' = PcVisto + 1
  <2>1. Ejecucion!En("asignar")
    BY <1>1, <1>5 DEF Ejecucion!En, Ejecucion!Vivo
  <2>2. /\ Ejecucion!Definido(Ejecucion!Instruccion.operando)
        /\ Ejecucion!Instruccion.destino \in DOMAIN Ejecucion!Marco.valores
        /\ Ejecucion!Valor(Ejecucion!Instruccion.operando)
             = ValorM(MarcosVisto, InstruccionVista.operando)
    BY <1>1, <1>2, <1>5, VistaOpera
  <2>3. Ejecucion!Asignar
    BY <1>1, <1>3, <1>5, <2>1, <2>2 DEF Ejecucion!Asignar, MarcosVisto
  <2> QED
    BY <2>3 DEF Ejecucion!Next
<1>6. CASE /\ InstruccionVista.op = "llamar" /\ DefinidoM(MarcosVisto, InstruccionVista.operando)
           /\ InstruccionVista.destino \in DOMAIN Last(MarcosVisto).valores
           /\ InstruccionVista.etiqueta \in DOMAIN programa.etiquetas
           /\ VivasEn(MarcosVisto) + 1 <= Capacidad
           /\ MarcosVisto' = Append(MarcosVisto,
                               MarcoDeLlamada(PcVisto, InstruccionVista,
                                              ValorM(MarcosVisto, InstruccionVista.operando)))
           /\ PcVisto' = programa.etiquetas[InstruccionVista.etiqueta]
  <2>1. Ejecucion!En("llamar")
    BY <1>1, <1>6 DEF Ejecucion!En, Ejecucion!Vivo
  <2>2. /\ Ejecucion!Definido(Ejecucion!Instruccion.operando)
        /\ Ejecucion!Instruccion.destino \in DOMAIN Ejecucion!Marco.valores
        /\ Ejecucion!Valor(Ejecucion!Instruccion.operando)
             = ValorM(MarcosVisto, InstruccionVista.operando)
        /\ Ejecucion!Instruccion.etiqueta \in DOMAIN programa.etiquetas
    BY <1>1, <1>2, <1>6, VistaOpera
  <2>3. Ejecucion!Vivas + 1 <= StackSize * (TamPagina \div 4)
    BY <1>1, <1>6 DEF Capacidad, PorPagina
  <2>4. [Ejecucion!NuevoMarco(PcVisto, <<Ejecucion!Instruccion.destino>>) EXCEPT !.valores =
           Ejecucion!Con(<<>>, Argumentos[1], Ejecucion!Valor(Ejecucion!Instruccion.operando))]
        = MarcoDeLlamada(PcVisto, InstruccionVista, ValorM(MarcosVisto, InstruccionVista.operando))
    BY <1>1, <2>2, LlamadaVista
  <2>5. Ejecucion!Llamar
    BY <1>1, <1>6, <2>1, <2>2, <2>3, <2>4 DEF Ejecucion!Llamar, MarcosVisto, PcVisto
  <2> QED
    BY <2>5 DEF Ejecucion!Next
<1>7. CASE /\ InstruccionVista.op = "retornar" /\ Len(MarcosVisto) > 1
           /\ DefinidoM(MarcosVisto, InstruccionVista.operando)
           /\ MarcosVisto' = [Front(MarcosVisto) EXCEPT
                                ![Len(MarcosVisto) - 1].valores[Last(MarcosVisto).en[1]]
                                  = ValorM(MarcosVisto, InstruccionVista.operando)]
           /\ PcVisto' = Last(MarcosVisto).vuelve + 1
  <2>1. Ejecucion!En("retornar")
    BY <1>1, <1>7 DEF Ejecucion!En, Ejecucion!Vivo
  <2>2. /\ Ejecucion!Definido(Ejecucion!Instruccion.operando)
        /\ Ejecucion!Valor(Ejecucion!Instruccion.operando)
             = ValorM(MarcosVisto, InstruccionVista.operando)
    BY <1>1, <1>7, VistaOpera
  <2>3. Ejecucion!Front(MarcosVisto) = Front(MarcosVisto)
    BY DEF Ejecucion!Front, Front
  <2>4. Ejecucion!Retornar
    BY <1>2, <1>7, <2>1, <2>2, <2>3 DEF Ejecucion!Retornar, MarcosVisto, PcVisto
  <2> QED
    BY <2>4 DEF Ejecucion!Next
<1>8. CASE /\ InstruccionVista.op = "saltar" /\ DefinidoM(MarcosVisto, InstruccionVista.operando)
           /\ ValorM(MarcosVisto, InstruccionVista.operando) = 0 =>
                InstruccionVista.etiqueta \in DOMAIN programa.etiquetas
           /\ PcVisto' = IF ValorM(MarcosVisto, InstruccionVista.operando) = 0
                         THEN programa.etiquetas[InstruccionVista.etiqueta] ELSE PcVisto + 1
           /\ MarcosVisto' = MarcosVisto
  <2>1. Ejecucion!En("saltar")
    BY <1>1, <1>8 DEF Ejecucion!En, Ejecucion!Vivo
  <2>2. /\ Ejecucion!Definido(Ejecucion!Instruccion.operando)
        /\ Ejecucion!Valor(Ejecucion!Instruccion.operando)
             = ValorM(MarcosVisto, InstruccionVista.operando)
    BY <1>1, <1>8, VistaOpera
  <2>3. Ejecucion!SaltarSiCero
    BY <1>1, <1>8, <2>1, <2>2 DEF Ejecucion!SaltarSiCero, MarcosVisto, PcVisto
  <2> QED
    BY <2>3 DEF Ejecucion!Next
<1>9. CASE /\ InstruccionVista.op \in {"wait", "pedir"} /\ MarcosVisto' = MarcosVisto
           /\ PcVisto' = PcVisto + 1
  <2>1. Ejecucion!Esperar
    BY <1>1, <1>3, <1>9 DEF Ejecucion!Esperar, Ejecucion!Vivo, MarcosVisto
  <2> QED
    BY <2>1 DEF Ejecucion!Next
<1>10. CASE /\ InstruccionVista.op \in ConRespuesta
            /\ InstruccionVista.destino \in DOMAIN Last(MarcosVisto).valores
            /\ \E x \in Punteros :
                 MarcosVisto' = [MarcosVisto EXCEPT
                                   ![Len(MarcosVisto)].valores[InstruccionVista.destino] = x]
            /\ PcVisto' = PcVisto + 1
  <2>1. EstadoDe = Ejecucion!Vivo /\ Ejecucion!Instruccion.op \in {"alocar", "abrir"}
    BY <1>1, <1>10 DEF Ejecucion!Vivo, ConRespuesta
  <2>2. Ejecucion!Alocar
    BY <1>1, <1>2, <1>3, <1>10, <2>1 DEF Ejecucion!Alocar, MarcosVisto
  <2> QED
    BY <2>2 DEF Ejecucion!Next
<1> QED
  BY <1>4, <1>5, <1>6, <1>7, <1>8, <1>9, <1>10 DEF Paso

LEMMA VistaErronea ==
  ASSUME ErroneaM(InstruccionVista, MarcosVisto)
  PROVE  Ejecucion!Erronea
<1>1. Ejecucion!Instruccion = InstruccionVista /\ Ejecucion!Vivas = VivasEn(MarcosVisto)
      /\ Ejecucion!Marco = Last(MarcosVisto)
  BY VistaOpera
<1>2. \A x : Ejecucion!Definido(x) <=> DefinidoM(MarcosVisto, x)
  BY VistaOpera
<1>3. StackSize * (TamPagina \div 4) = Capacidad
  BY DEF Capacidad, PorPagina
<1> QED
  BY <1>1, <1>2, <1>3 DEF ErroneaM, Ejecucion!Erronea, ConRespuesta

-----------------------------------------------------------------------------
(* The run of the program, in the values of the variables of the CPU.      *)

LEMMA MemorableEs ==
  ASSUME NEW p \in PcbDelPrograma, NEW mem
  PROVE  Memorable(p, mem) <=> /\ Declarados(p) /\ Destinos(p.indiceStack) /\ EnFila(p)
                               /\ MemoriaTipada(mem)
<1>1. Declarados(p) <=> \A k \in DOMAIN p.indiceStack :
                          NodoDeclarado(p.indiceStack[k], LugarDe(p, k))
  BY DEF Declarados, NodoDeclarado
<1>2. EnFila(p) <=> Numerada(p.indiceStack)
  BY EnFilaEs
<1> QED
  BY <1>1, <1>2 DEF Memorable

EstadoEn(k, u) ==
  IF ~Acabado(k, u) THEN 1
  ELSE IF Discorde(k, u) THEN 2
  ELSE IF u.fase = "verificando" /\ u.interrupcion \notin {"ninguna", "semWait"}
       THEN Codigo(u.interrupcion) ELSE k.proceso.exitCode

\* The interruption that the CPU has for the Kernel.
Pendiente(u) == IF u.fase = "verificando" THEN u.interrupcion ELSE "ninguna"

LEMMA SegunPendiente ==
  ASSUME NEW k, NEW u, NEW x, x = Pendiente(u)
  PROVE  /\ Acabado(k, u) <=> \/ x \notin {"ninguna", "semWait"}
                              \/ k.lista \in {"terminados", "desincronizado"}
         /\ Discorde(k, u) <=> \/ k.lista = "desincronizado"
                               \/ (k.espera = "pcb") # (x \in PorKernel)
         /\ EstadoEn(k, u) = IF ~Acabado(k, u) THEN 1
                             ELSE IF Discorde(k, u) THEN 2
                             ELSE IF x \notin {"ninguna", "semWait"} THEN Codigo(x)
                             ELSE k.proceso.exitCode
<1>1. CASE u.fase = "verificando"
  <2>1. x = u.interrupcion
    BY <1>1 DEF Pendiente
  <2> QED
    BY <1>1, <2>1 DEF Acabado, Discorde, EstadoEn
<1>2. CASE u.fase # "verificando"
  <2>1. x = "ninguna" /\ x \notin PorKernel
    BY <1>2 DEF Pendiente, PorKernel
  <2> QED
    BY <1>2, <2>1 DEF Acabado, Discorde, EstadoEn
<1> QED
  BY <1>1, <1>2

PcEn(k, u, p) == IF Acabado(k, u) THEN 0 ELSE p.programCounter

FramesEn(k, u, p, mem) ==
  IF Acabado(k, u) THEN <<>> ELSE MarcosEn(p.indiceStack, mem)

LEMMA VistaAhora ==
  /\ Terminado <=> Acabado(kernel, cpu)
  /\ PcVisto = PcEn(kernel, cpu, PcbActual)
  /\ MarcosVisto = FramesEn(kernel, cpu, PcbActual, memoria)
  /\ EstadoDe = EstadoEn(kernel, cpu)
<1>1. Terminado <=> Acabado(kernel, cpu)
  BY DEF Terminado, Condenado, Acabado
<1>2. PcVisto = PcEn(kernel, cpu, PcbActual)
  BY <1>1 DEF PcVisto, PcEn
<1>3. MarcosVisto = FramesEn(kernel, cpu, PcbActual, memoria)
  BY <1>1, MarcosSon DEF MarcosVisto, FramesEn
<1>5. Desacuerdo <=> Discorde(kernel, cpu)
  BY DEF Desacuerdo, Discorde
<1>4. EstadoDe = EstadoEn(kernel, cpu)
  BY <1>1, <1>5 DEF EstadoDe, EstadoEn, Condenado
<1> QED
  BY <1>1, <1>2, <1>3, <1>4

\* The state after a step, by its values.
Despues(k, c, u, b, p, mem) ==
  /\ k = kernel' /\ c = canal' /\ u = cpu' /\ b = pcb' /\ mem = memoria'
  /\ p = Actual(k, c, b) /\ p \in PcbDelPrograma

LEMMA VistaDespues ==
  ASSUME programa' = programa, NEW k, NEW c, NEW u, NEW b, NEW p, NEW mem,
         Despues(k, c, u, b, p, mem)
  PROVE  /\ PcVisto' = PcEn(k, u, p) /\ MarcosVisto' = FramesEn(k, u, p, mem)
         /\ EstadoDe' = EstadoEn(k, u)
         /\ (~Acabado(k, u) => Memorable(p, mem)) => PilaFiel'
<1>1. k = kernel' /\ c = canal' /\ u = cpu' /\ b = pcb' /\ mem = memoria' /\ p \in PcbDelPrograma
  BY DEF Despues
<1>2. PcbActual' = p
  BY DEF PcbActual, Actual, Despues
<1>3. Terminado' <=> Acabado(k, u)
  BY <1>1 DEF Terminado, Condenado, Acabado
<1>4. PcVisto' = PcEn(k, u, p)
  BY <1>2, <1>3 DEF PcVisto, PcEn
<1>5. MarcosVisto' = FramesEn(k, u, p, mem)
  <2>1. MarcosDe(PcbActual.indiceStack)' = MarcosEn(PcbActual'.indiceStack, memoria')
    BY DEF MarcosDe, MarcosEn, Marco, ValoresDelNodo, PosicionEn
  <2>2. MarcosDe(PcbActual.indiceStack)' = MarcosEn(p.indiceStack, mem)
    BY <1>1, <1>2, <2>1
  <2> QED
    BY <1>3, <2>2 DEF MarcosVisto, FramesEn
<1>8. Desacuerdo' <=> Discorde(k, u)
  BY <1>1 DEF Desacuerdo, Discorde
<1>6. EstadoDe' = EstadoEn(k, u)
  BY <1>1, <1>3, <1>8 DEF EstadoDe, EstadoEn, Condenado
<1>7. ASSUME ~Acabado(k, u) => Memorable(p, mem) PROVE PilaFiel'
  <2>1. ~Acabado(k, u) => /\ Declarados(p) /\ Destinos(p.indiceStack) /\ EnFila(p)
                             /\ MemoriaTipada(mem)
    BY <1>1, <1>7, MemorableEs
  <2>2. Declarados(PcbActual)' <=> Declarados(p)
    BY <1>2 DEF Declarados, LugarDe
  <2>3. Destinos(PcbActual.indiceStack)' <=> Destinos(p.indiceStack)
    BY <1>2
  <2>4. EnFila(PcbActual)' <=> EnFila(p)
    BY <1>2
  <2>5. MemoriaTipada(memoria)' <=> MemoriaTipada(mem)
    BY <1>1
  <2> QED
    BY <1>3, <2>1, <2>2, <2>3, <2>4, <2>5 DEF PilaFiel
<1> QED
  BY <1>4, <1>5, <1>6, <1>7

LEMMA FielAhora ==
  ASSUME IInvPcb, PilaFiel, ~Acabado(kernel, cpu)
  PROVE  Memorable(PcbActual, memoria) /\ EstadoDe = 1
<1>1. PcbActual \in PcbDelPrograma
  BY InvarianteEs DEF Invariante
<1>2. ~Terminado
  BY VistaAhora
<1>3. Memorable(PcbActual, memoria)
  BY <1>1, <1>2, MemorableEs DEF PilaFiel
<1>4. EstadoDe = 1
  BY <1>2 DEF EstadoDe
<1> QED
  BY <1>3, <1>4

\* A move of the process is not a step of its program.
LEMMA MoverSigue ==
  ASSUME IInvPcb, PilaFiel, programa' = programa, memoria' = memoria,
         NEW k, NEW c, NEW u, NEW b, NEW p, NEW mem, Despues(k, c, u, b, p, mem),
         Acabado(k, u) <=> Acabado(kernel, cpu),
         ~Acabado(k, u) => p = PcbActual, EstadoEn(k, u) = EstadoEn(kernel, cpu)
  PROVE  PilaFiel' /\ UNCHANGED Ejecucion!vars
<1>1. mem = memoria
  BY DEF Despues
<1>2. ~Acabado(k, u) => Memorable(p, mem)
  BY <1>1, FielAhora
<1>3. /\ PcVisto' = PcEn(k, u, p) /\ MarcosVisto' = FramesEn(k, u, p, mem)
      /\ EstadoDe' = EstadoEn(k, u) /\ PilaFiel'
  BY <1>2, VistaDespues
<1>4. PcVisto' = PcVisto /\ MarcosVisto' = MarcosVisto /\ EstadoDe' = EstadoDe
  BY <1>1, <1>3, VistaAhora DEF PcEn, FramesEn
<1> QED
  BY <1>3, <1>4, VistaIgual

\* The end of the process is the end of its program, with its exit code.
LEMMA TerminarSigue ==
  ASSUME IInvPcb, PilaFiel, programa' = programa, ~Acabado(kernel, cpu),
         NEW k, NEW c, NEW u, NEW b, NEW p, NEW mem, Despues(k, c, u, b, p, mem),
         Acabado(k, u), NEW x, x = EstadoEn(k, u)
  PROVE  PilaFiel' /\ Ejecucion!Terminar(x)
<1>1. /\ PcVisto' = 0 /\ MarcosVisto' = <<>> /\ EstadoDe' = x /\ PilaFiel'
  BY VistaDespues DEF PcEn, FramesEn
<1>2. EstadoDe = 1
  BY FielAhora
<1> QED
  BY <1>1, <1>2, VistaTermina

ElProgramaSigue == PilaFiel' /\ (Ejecucion!Next \/ UNCHANGED Ejecucion!vars)

LEMMA ProgramaAlRecibir ==
  ASSUME IInvPcb, PilaFiel, recibirPCB
  PROVE  ElProgramaSigue
<1>0. programa \in Programas /\ Invariante(kernel, canal, cpu, pcb, PcbActual)
  BY InvarianteAntes
<1>1. /\ KernelTipado(kernel) /\ CpuTipada(cpu)
      /\ PcbActual = Actual(kernel, canal, pcb) /\ PcbActual \in PcbDelPrograma
      /\ EnSuSitio(kernel, canal, pcb, cpu)
  BY <1>0 DEF Invariante
<1>2. canal # Ninguno /\ pcb = Ninguno /\ kernel.lista = "ejecucion"
  BY <1>1 DEF recibirPCB, EnSuSitio, EnUno
<1>3. PICK p \in PcbDelPrograma : p = PcbActual /\ p # Ninguno
  BY <1>1, PcbAlgo
<1>4. deserializarPcb(canal.campos) = p
  BY <1>1, <1>2, <1>3 DEF Actual
<1>5. PICK u, k, mem : u = cpu' /\ k = kernel /\ mem = memoria
  OBVIOUS
<1>6. /\ pcb' = p /\ canal' = Ninguno /\ kernel' = k /\ programa' = programa /\ memoria' = memoria
      /\ u.fase = "recibiendo" /\ cpu.fase = "esperando"
  BY <1>1, <1>4, <1>5 DEF recibirPCB, CpuTipada
<1>7. Despues(k, Ninguno, u, p, p, mem)
  BY <1>3, <1>5, <1>6 DEF Despues, Actual
<1>8. ~Acabado(k, u) /\ ~Acabado(kernel, cpu)
  BY <1>2, <1>5, <1>6 DEF Acabado
<1>9. EstadoEn(k, u) = EstadoEn(kernel, cpu)
  BY <1>8 DEF EstadoEn
<1> QED
  BY <1>3, <1>6, <1>7, <1>8, <1>9, MoverSigue DEF ElProgramaSigue

\* Nothing of the process moves: only the CPU or what the Kernel knows of it.
LEMMA ProgramaQuieto ==
  ASSUME IInvPcb, PilaFiel, UNCHANGED <<programa, canal, pcb, memoria>>,
         kernel'.proceso = kernel.proceso, kernel'.espera = kernel.espera,
         \A x \in {"terminados", "desincronizado"} : kernel'.lista = x <=> kernel.lista = x,
         Pendiente(cpu') = Pendiente(cpu)
  PROVE  ElProgramaSigue
<1>1. PcbActual = Actual(kernel, canal, pcb) /\ PcbActual \in PcbDelPrograma
  BY InvarianteAntes DEF Invariante
<1>2. PICK k, c, u, b, p, mem : /\ k = kernel' /\ c = canal /\ u = cpu' /\ b = pcb
                                /\ p = PcbActual /\ mem = memoria
  OBVIOUS
<1>3. Despues(k, c, u, b, p, mem)
  BY <1>1, <1>2 DEF Despues, Actual
<1>4. /\ k.proceso = kernel.proceso /\ k.espera = kernel.espera
      /\ k.lista = "terminados" <=> kernel.lista = "terminados"
      /\ k.lista = "desincronizado" <=> kernel.lista = "desincronizado"
  BY <1>2
<1>8. PICK x : x = Pendiente(u) /\ x = Pendiente(cpu)
  BY <1>2
<1>9. /\ Acabado(k, u) <=> \/ x \notin {"ninguna", "semWait"}
                           \/ k.lista \in {"terminados", "desincronizado"}
      /\ Discorde(k, u) <=> \/ k.lista = "desincronizado"
                            \/ (k.espera = "pcb") # (x \in PorKernel)
  BY <1>8, SegunPendiente
<1>10. /\ Acabado(kernel, cpu) <=> \/ x \notin {"ninguna", "semWait"}
                                   \/ kernel.lista \in {"terminados", "desincronizado"}
       /\ Discorde(kernel, cpu) <=> \/ kernel.lista = "desincronizado"
                                    \/ (kernel.espera = "pcb") # (x \in PorKernel)
  BY <1>8, SegunPendiente
<1>5. (Acabado(k, u) <=> Acabado(kernel, cpu)) /\ (Discorde(k, u) <=> Discorde(kernel, cpu))
  BY <1>4, <1>9, <1>10
<1>6. EstadoEn(k, u) = EstadoEn(kernel, cpu)
  <2>2. EstadoEn(k, u) = IF ~Acabado(k, u) THEN 1
                         ELSE IF Discorde(k, u) THEN 2
                         ELSE IF x \notin {"ninguna", "semWait"} THEN Codigo(x)
                         ELSE k.proceso.exitCode
    BY <1>8, SegunPendiente
  <2>3. EstadoEn(kernel, cpu) = IF ~Acabado(kernel, cpu) THEN 1
                                ELSE IF Discorde(kernel, cpu) THEN 2
                                ELSE IF x \notin {"ninguna", "semWait"} THEN Codigo(x)
                                ELSE kernel.proceso.exitCode
    BY <1>8, SegunPendiente
  <2> QED
    BY <1>4, <1>5, <2>2, <2>3
<1>7. p = PcbActual
  BY <1>2
<1> QED
  BY <1>3, <1>5, <1>6, <1>7, MoverSigue DEF ElProgramaSigue

LEMMA ProgramaAlSeguir ==
  ASSUME IInvPcb, PilaFiel,
         \/ EjecutarProgramaMedianteAlgoritmo
         \/ Seguir \/ AgotarCuenta \/ signalHandler \/ cerrarTodo \/ ConectarCPU
         \/ Desbloquear \/ VerCierre \/ (Matar /\ kernel.lista = "ejecucion")
  PROVE  ElProgramaSigue
<1>1. KernelTipado(kernel) /\ CpuTipada(cpu) /\ EnSuSitio(kernel, canal, pcb, cpu)
  BY InvarianteAntes DEF Invariante
<1>2. CASE EjecutarProgramaMedianteAlgoritmo \/ Seguir \/ AgotarCuenta \/ signalHandler \/ cerrarTodo
  <2>1. UNCHANGED <<programa, kernel, canal, pcb, memoria>>
    BY <1>2 DEF EjecutarProgramaMedianteAlgoritmo, Seguir, AgotarCuenta, signalHandler, cerrarTodo
  <2>2. PICK u : u = cpu'
    OBVIOUS
  <2>3. \/ u.fase = cpu.fase /\ u.interrupcion = cpu.interrupcion
        \/ Pendiente(cpu) = "ninguna" /\ u.fase # "verificando"
    <3>1. CASE EjecutarProgramaMedianteAlgoritmo
      <4>1. cpu.fase = "recibiendo"
        BY <3>1 DEF EjecutarProgramaMedianteAlgoritmo
      <4>2. PICK n : u = [cpu EXCEPT !.fase = "ejecutando", !.interrupcion = "ninguna",
                                     !.procesoFinalizado = FALSE, !.aEjecutarDelPcb = n]
        BY <2>2, <3>1 DEF EjecutarProgramaMedianteAlgoritmo
      <4> QED
        BY <1>1, <4>1, <4>2 DEF CpuTipada, Pendiente
    <3>2. CASE Seguir \/ AgotarCuenta
      <4>1. cpu.fase = "verificando" /\ cpu.interrupcion = "ninguna"
        BY <3>2 DEF Seguir, AgotarCuenta, SinInterrupcion
      <4>2. PICK f \in {"ejecutando", "cerrada", "esperando"} : u = [cpu EXCEPT !.fase = f]
        BY <2>2, <3>2 DEF Seguir, AgotarCuenta
      <4> QED
        BY <1>1, <4>1, <4>2 DEF CpuTipada, Pendiente
    <3>3. CASE signalHandler
      <4>1. CASE cpu.procesoFinalizado
        <5>1. u = [cpu EXCEPT !.fase = "cerrada"] /\ cpu.fase # "verificando"
          BY <1>1, <2>2, <3>3, <4>1 DEF signalHandler, EnSuSitio
        <5> QED
          BY <1>1, <5>1 DEF CpuTipada, Pendiente
      <4>2. CASE ~cpu.procesoFinalizado
        <5>1. u = [cpu EXCEPT !.cpuFinalizada = TRUE]
          BY <2>2, <3>3, <4>2 DEF signalHandler
        <5> QED
          BY <1>1, <5>1 DEF CpuTipada
      <4> QED
        BY <4>1, <4>2
    <3>4. CASE cerrarTodo
      <4>1. u = [cpu EXCEPT !.fase = "cerrada"] /\ cpu.fase = "esperando"
        BY <2>2, <3>4 DEF cerrarTodo
      <4> QED
        BY <1>1, <4>1 DEF CpuTipada, Pendiente
    <3> QED
      BY <1>2, <3>1, <3>2, <3>3, <3>4
  <2>4. Pendiente(cpu') = Pendiente(cpu)
    BY <2>2, <2>3 DEF Pendiente
  <2> QED
    BY <2>1, <2>4, ProgramaQuieto
<1>3. CASE ConectarCPU
  <2>1. /\ UNCHANGED <<programa, canal, pcb, memoria>>
        /\ kernel' = [kernel EXCEPT !.libre = TRUE] /\ cpu' = CPUNueva /\ cpu.fase = "cerrada"
    BY <1>3 DEF ConectarCPU
  <2>2. /\ kernel'.proceso = kernel.proceso /\ kernel'.lista = kernel.lista
        /\ kernel'.espera = kernel.espera
    BY <1>1, <2>1 DEF KernelTipado
  <2>3. Pendiente(cpu') = Pendiente(cpu)
    BY <2>1 DEF Pendiente, CPUNueva
  <2> QED
    BY <2>1, <2>2, <2>3, ProgramaQuieto
<1>4. CASE Desbloquear \/ VerCierre \/ (Matar /\ kernel.lista = "ejecucion")
  <2>1. UNCHANGED <<programa, canal, cpu, pcb, memoria>>
    BY <1>4 DEF Desbloquear, VerCierre, Matar
  <2>2. \/ kernel' = [kernel EXCEPT !.lista = "listos"] /\ kernel.lista = "bloqueados"
        \/ kernel' = [kernel EXCEPT !.libre = FALSE]
        \/ kernel' = [kernel EXCEPT !.interrumpido = TRUE]
    BY <1>4 DEF Desbloquear, VerCierre, Matar
  <2>3. /\ kernel'.proceso = kernel.proceso /\ kernel'.espera = kernel.espera
        /\ \A x \in {"terminados", "desincronizado"} : kernel'.lista = x <=> kernel.lista = x
    BY <1>1, <2>2 DEF KernelTipado
  <2>4. Pendiente(cpu') = Pendiente(cpu)
    BY <2>1
  <2> QED
    BY <2>1, <2>3, <2>4, ProgramaQuieto
<1> QED
  BY <1>2, <1>3, <1>4

LEMMA ProgramaAlDespachar ==
  ASSUME IInvPcb, PilaFiel, Despachar
  PROVE  ElProgramaSigue
<1>0. programa \in Programas /\ Invariante(kernel, canal, cpu, pcb, PcbActual)
  BY InvarianteAntes
<1>1. /\ KernelTipado(kernel) /\ PcbActual = Actual(kernel, canal, pcb)
      /\ PcbActual \in PcbDelPrograma /\ EnSuSitio(kernel, canal, pcb, cpu)
  BY <1>0 DEF Invariante
<1>2. /\ UNCHANGED <<programa, cpu, pcb, memoria>> /\ kernel.lista = "listos"
      /\ kernel' = [kernel EXCEPT !.lista = "ejecucion", !.proceso = Ninguno, !.libre = FALSE]
  BY DEF Despachar
<1>3. kernel.proceso # Ninguno /\ canal = Ninguno /\ pcb = Ninguno /\ PcbActual = kernel.proceso
  BY <1>1, <1>2 DEF EnSuSitio, EnUno, Actual
<1>4. PICK p \in PcbDelPrograma : p = PcbActual
  BY <1>1
<1>5. PICK q \in Cuantos : canal' = [quantum |-> q, campos |-> serializarPcb(p)]
  BY <1>3, <1>4 DEF Despachar
<1>6. PICK k, c, u, mem : k = kernel' /\ c = canal' /\ u = cpu /\ mem = memoria
  OBVIOUS
<1>7. c # Ninguno /\ c.campos = serializarPcb(p)
  <2>1. c = [quantum |-> q, campos |-> serializarPcb(p)]
    BY <1>5, <1>6
  <2>2. "quantum" \in DOMAIN c /\ DOMAIN Ninguno = {}
    BY <2>1, CPUAssumption
  <2> QED
    BY <2>1, <2>2
<1>8. deserializarPcb(c.campos) = p
  BY <1>0, <1>4, <1>7, PcbViaja
<1>9. Despues(k, c, u, Ninguno, p, mem)
  BY <1>2, <1>3, <1>4, <1>6, <1>7, <1>8 DEF Despues, Actual
<1>10. k.lista = "ejecucion"
  BY <1>1, <1>2, <1>6 DEF KernelTipado
<1>11. ~Acabado(k, u) /\ ~Acabado(kernel, cpu)
  <2>1. u.fase # "verificando" /\ cpu.fase # "verificando"
    BY <1>1, <1>3, <1>6 DEF EnSuSitio
  <2> QED
    BY <1>2, <1>10, <2>1 DEF Acabado
<1>12. EstadoEn(k, u) = EstadoEn(kernel, cpu)
  BY <1>11 DEF EstadoEn
<1> QED
  BY <1>2, <1>4, <1>9, <1>11, <1>12, MoverSigue DEF ElProgramaSigue

\* The PCB goes to a list of the Kernel, or to none that it has if it is not read.
Entrega(p, z) ==
  \E l : /\ kernel' = [kernel EXCEPT !.lista = z, !.proceso = deserializarPcb(serializarPcb(p)),
                                    !.espera = "orden", !.libre = l]
         /\ cpu' = [cpu EXCEPT !.procesoFinalizado = TRUE, !.fase = "esperando"]
         /\ pcb' = Ninguno

LEMMA DevueltoAlKernel ==
  ASSUME IInvPcb, pcb # Ninguno, UNCHANGED <<programa, canal, memoria>>, NEW p \in PcbDelPrograma,
         NEW z, Entrega(p, z)
  PROVE  \E k, u, mem : /\ Despues(k, Ninguno, u, Ninguno, p, mem) /\ mem = memoria
                        /\ k.lista = z
                        /\ k.proceso = p /\ k.espera = "orden" /\ u.fase = "esperando"
<1>0. programa \in Programas /\ Invariante(kernel, canal, cpu, pcb, PcbActual)
  BY InvarianteAntes
<1>1. KernelTipado(kernel) /\ CpuTipada(cpu) /\ canal = Ninguno
  BY <1>0 DEF Invariante, EnSuSitio, EnUno
<1>2. PICK k, u, mem : k = kernel' /\ u = cpu' /\ mem = memoria
  OBVIOUS
<1>3. deserializarPcb(serializarPcb(p)) = p
  BY <1>0, PcbViaja
<1>4. PICK l : /\ k = [kernel EXCEPT !.lista = z, !.proceso = p, !.espera = "orden", !.libre = l]
               /\ u = [cpu EXCEPT !.procesoFinalizado = TRUE, !.fase = "esperando"]
               /\ pcb' = Ninguno
  BY <1>2, <1>3 DEF Entrega
<1>6. k.lista = z /\ k.proceso = p /\ k.espera = "orden" /\ u.fase = "esperando"
  BY <1>1, <1>4 DEF KernelTipado, CpuTipada
<1>7. Despues(k, Ninguno, u, Ninguno, p, mem)
  BY <1>1, <1>2, <1>4, <1>6 DEF Despues, Actual
<1> QED
  BY <1>2, <1>6, <1>7

LEMMA CodigoGuardado ==
  ASSUME NEW p \in PcbDelPrograma, NEW c \in Int
  PROVE  ConCodigo(p, c) \in PcbDelPrograma /\ ConCodigo(p, c).exitCode = c
BY DEF ConCodigo, PcbDelPrograma

\* The process that the CPU gives back goes on or has ended: not the program.
LEMMA ProgramaAlExpropiar ==
  ASSUME IInvPcb, PilaFiel, expropiar \/ expropiarPorRR
  PROVE  ElProgramaSigue
<1>0. programa \in Programas /\ Invariante(kernel, canal, cpu, pcb, PcbActual)
  BY InvarianteAntes
<1>1. cpu.fase = "verificando" /\ UNCHANGED <<programa, canal, memoria>>
  BY DEF expropiar, expropiarPorRR, SinInterrupcion
<1>2. /\ pcb # Ninguno /\ pcb \in PcbDelPrograma /\ PcbActual = pcb /\ kernel.lista = "ejecucion"
      /\ (kernel.espera = "orden") # (cpu.interrupcion \notin PorKernel) =>
           cpu.interrupcion \notin {"ninguna", "semWait"}
  BY <1>0, <1>1, EnLaCPU
<1>3. PICK x : x = cpu.interrupcion
  OBVIOUS
<1>4. PICK b : b = pcb
  OBVIOUS
<1>5. CASE expropiarPorRR \/ x = "semWait"
  <2>0. x \in {"ninguna", "semWait"}
    BY <1>3, <1>5 DEF expropiarPorRR, SinInterrupcion
  <2>1. /\ ~Acabado(kernel, cpu) /\ EstadoEn(kernel, cpu) = 1
    BY <1>2, <1>3, <2>0 DEF Acabado, EstadoEn
  <2>2. PICK lista : lista \in {"listos", "bloqueados"} /\ Entrega(b, lista)
    <3>1. CASE expropiarPorRR
      <4>1. kernel.espera = "orden"
        BY <1>2, <3>1 DEF expropiarPorRR, SinInterrupcion, PorKernel
      <4>2. Entrega(b, "listos")
        BY <1>4, <3>1, <4>1 DEF expropiarPorRR, Devolver, Entrega
      <4> QED
        BY <4>2
    <3>2. CASE expropiar /\ x = "semWait"
      <4>1. kernel.espera # "orden" /\ cpu.interrupcion \in PorKernel
        BY <1>2, <1>3, <3>2 DEF PorKernel
      <4>2. /\ Interrumpido(pcb, cpu.interrupcion) = b /\ ListaPara(cpu.interrupcion) = "bloqueados"
        BY <1>3, <1>4, <3>2 DEF Interrumpido, ListaPara
      <4>3. Entrega(b, "bloqueados")
        BY <3>2, <4>1, <4>2 DEF expropiar, Devolver, Entrega
      <4> QED
        BY <4>3
    <3> QED
      BY <1>5, <3>1, <3>2
  <2>5. PICK k, u, mem : /\ Despues(k, Ninguno, u, Ninguno, b, mem) /\ mem = memoria
                         /\ k.lista = lista /\ u.fase = "esperando"
    BY <1>1, <1>2, <1>4, <2>2, DevueltoAlKernel
  <2>6. ~Acabado(k, u) /\ EstadoEn(k, u) = 1
    BY <2>2, <2>5 DEF Acabado, EstadoEn
  <2> QED
    BY <1>1, <1>2, <1>4, <2>1, <2>5, <2>6, MoverSigue DEF ElProgramaSigue
<1>6. CASE expropiar /\ x # "semWait"
  <2>1. x \notin {"ninguna", "semWait"}
    BY <1>3, <1>6 DEF expropiar
  <2>2. PICK c \in Int : c = Codigo(x)
    BY CodigosEnteros
  <2>3. PICK leido : /\ leido \in BOOLEAN
                     /\ leido = ((x \notin PorKernel) = (kernel.espera = "orden"))
    OBVIOUS
  <2>4. Acabado(kernel, cpu) /\ EstadoEn(kernel, cpu) = IF leido THEN c ELSE 2
    <3>1. Acabado(kernel, cpu)
      BY <1>1, <1>3, <2>1 DEF Acabado
    <3>2. kernel.espera \in {"orden", "pcb"}
      BY <1>0 DEF Invariante, KernelTipado
    <3>3. Discorde(kernel, cpu) <=> ~leido
      BY <1>1, <1>2, <1>3, <2>3, <3>2 DEF Discorde
    <3> QED
      BY <1>1, <1>3, <2>1, <2>2, <2>3, <3>1, <3>3 DEF EstadoEn
  <2>5. PICK p : p = ConCodigo(b, c)
    OBVIOUS
  <2>6. p \in PcbDelPrograma /\ p.exitCode = c
    BY <1>2, <1>4, <2>5, CodigoGuardado
  <2>7. PICK z : z = IF leido THEN "terminados" ELSE "desincronizado"
    OBVIOUS
  <2>8. Entrega(p, z)
    <3>1. Interrumpido(pcb, cpu.interrupcion) = p /\ ListaPara(cpu.interrupcion) = "terminados"
      BY <1>3, <1>4, <1>6, <2>2, <2>5 DEF Interrumpido, ListaPara
    <3>2. CASE leido
      <4>1. /\ (cpu.interrupcion \notin PorKernel) = (kernel.espera = "orden")
            /\ z = "terminados"
        BY <1>3, <2>3, <2>7, <3>2
      <4> QED
        BY <1>6, <3>1, <4>1 DEF expropiar, Devolver, Entrega
    <3>3. CASE ~leido
      <4>1. /\ (cpu.interrupcion \notin PorKernel) # (kernel.espera = "orden")
            /\ z = "desincronizado"
        BY <1>3, <2>3, <2>7, <3>3
      <4> QED
        BY <1>6, <3>1, <4>1 DEF expropiar, Devolver, Entrega
    <3> QED
      BY <2>3, <3>2, <3>3
  <2>9. PICK k, u, mem : /\ Despues(k, Ninguno, u, Ninguno, p, mem) /\ mem = memoria
                         /\ k.lista = z
                         /\ k.proceso = p /\ k.espera = "orden" /\ u.fase = "esperando"
    BY <1>1, <1>2, <2>6, <2>8, DevueltoAlKernel
  <2>10. Acabado(k, u) /\ EstadoEn(k, u) = IF leido THEN c ELSE 2
    <3>1. Acabado(k, u)
      BY <2>7, <2>9 DEF Acabado
    <3>2. Discorde(k, u) <=> ~leido
      BY <2>3, <2>7, <2>9 DEF Discorde
    <3> QED
      BY <2>3, <2>6, <2>9, <3>1, <3>2 DEF EstadoEn
  <2> QED
    BY <1>1, <2>4, <2>9, <2>10, MoverSigue DEF ElProgramaSigue
<1> QED
  BY <1>5, <1>6

\* END, with 0, and a death that the CPU or the Kernel gives.
LEMMA ProgramaAlTerminar ==
  ASSUME IInvPcb, PilaFiel,
         finalizar \/ expropiadoVoluntariamente \/ (Matar /\ kernel.lista # "ejecucion")
  PROVE  ElProgramaSigue
<1>0. programa \in Programas /\ Invariante(kernel, canal, cpu, pcb, PcbActual)
  BY InvarianteAntes
<1>1. /\ KernelTipado(kernel) /\ PcbActual = Actual(kernel, canal, pcb)
      /\ PcbActual \in PcbDelPrograma /\ EnSuSitio(kernel, canal, pcb, cpu) /\ Marchando(cpu)
      /\ Atendido(kernel, cpu, PcbActual)
  BY <1>0 DEF Invariante
<1>2. \A c : Ejecucion!Terminar(c) /\ c = CodigoMuerte => Ejecucion!Next
  BY DEF Ejecucion!Next, Ejecucion!Morir, CodigoMuerte
<1>3. CASE finalizar \/ expropiadoVoluntariamente
  <2>1. /\ cpu.fase \in {"ejecutando", "verificando"} /\ UNCHANGED <<programa, canal, memoria>>
        /\ cpu.interrupcion = "ninguna"
    BY <1>1, <1>3 DEF finalizar, expropiadoVoluntariamente, SinInterrupcion, Marchando
  <2>2. /\ pcb # Ninguno /\ pcb \in PcbDelPrograma /\ PcbActual = pcb
        /\ kernel.lista = "ejecucion" /\ PilaEnRutinas(pcb) /\ kernel.espera = "orden"
    BY <1>0, <2>1, EnLaCPU
  <2>3. ~Acabado(kernel, cpu)
    BY <2>1, <2>2 DEF Acabado
  <2>4. PICK c \in Int : c = IF finalizar THEN 0 ELSE CodigoMuerte
    BY CodigosEnteros
  <2>5. PICK p : p = ConCodigo(pcb, c)
    OBVIOUS
  <2>6. p \in PcbDelPrograma /\ p.exitCode = c
    BY <2>2, <2>5, CodigoGuardado
  <2>8. Entrega(p, "terminados")
    BY <1>3, <2>2, <2>4, <2>5
       DEF finalizar, expropiadoVoluntariamente, Devolver, Entrega
  <2>9. PICK k, u, mem : /\ Despues(k, Ninguno, u, Ninguno, p, mem) /\ mem = memoria
                         /\ k.lista = "terminados" /\ k.proceso = p /\ k.espera = "orden"
                         /\ u.fase = "esperando"
    <3>1. PICK z : z = "terminados" /\ Entrega(p, z)
      BY <2>8
    <3> QED
      BY <2>1, <2>2, <2>6, <3>1, DevueltoAlKernel
  <2>10. Acabado(k, u) /\ EstadoEn(k, u) = c
    <3>1. Acabado(k, u) /\ ~Discorde(k, u)
      BY <2>9 DEF Acabado, Discorde
    <3> QED
      BY <2>6, <2>9, <3>1 DEF EstadoEn
  <2>11. PilaFiel' /\ Ejecucion!Terminar(c)
    BY <2>1, <2>3, <2>9, <2>10, TerminarSigue
  <2>12. CASE finalizar
    <3>1. obtener_instruccion.op = "fin" /\ c = 0
      BY <2>4, <2>12 DEF finalizar
    <3>2. obtener_instruccion = programa.codigo[pcb.programCounter + 1]
      BY <1>0, <2>2, InstruccionActual DEF PilaEnRutinas
    <3>3. PcVisto = pcb.programCounter
      BY <2>2, <2>3, VistaAhora DEF PcEn
    <3>4. Ejecucion!Instruccion = obtener_instruccion
      BY <3>2, <3>3, VistaOpera DEF InstruccionVista
    <3>5. Ejecucion!Finalizar
      BY <2>11, <3>1, <3>4 DEF Ejecucion!Finalizar, Ejecucion!En, Ejecucion!Terminar
    <3> QED
      BY <2>11, <3>5 DEF ElProgramaSigue, Ejecucion!Next
  <2>13. CASE ~finalizar
    BY <1>2, <2>4, <2>11, <2>13 DEF ElProgramaSigue
  <2> QED
    BY <2>12, <2>13
<1>4. CASE Matar /\ kernel.lista # "ejecucion"
  <2>1. kernel.proceso # Ninguno /\ canal = Ninguno /\ pcb = Ninguno /\ PcbActual = kernel.proceso
    BY <1>1, <1>4 DEF EnSuSitio, EnUno, Actual
  <2>2. PICK c \in Int : c = CodigoMuerte
    BY CodigosEnteros
  <2>3. PICK p : p = ConCodigo(PcbActual, c)
    OBVIOUS
  <2>4. p \in PcbDelPrograma /\ p.exitCode = c
    BY <1>1, <2>3, CodigoGuardado
  <2>12. cpu.fase # "verificando" /\ kernel.espera = "orden"
    BY <1>1, <2>1 DEF EnSuSitio, Atendido, KernelTipado
  <2>5. /\ UNCHANGED <<programa, canal, cpu, pcb, memoria>>
        /\ kernel.lista \in {"listos", "bloqueados"}
        /\ kernel' = [kernel EXCEPT !.lista = "terminados", !.proceso = p]
    BY <1>4, <2>1, <2>2, <2>3 DEF Matar
  <2>6. PICK k, u, mem : k = kernel' /\ u = cpu /\ mem = memoria
    OBVIOUS
  <2>7. k.lista = "terminados" /\ k.proceso = p /\ k.espera = "orden" /\ u.fase # "verificando"
    BY <1>1, <2>5, <2>6, <2>12 DEF KernelTipado
  <2>8. Despues(k, Ninguno, u, Ninguno, p, mem)
    BY <2>1, <2>4, <2>5, <2>6, <2>7 DEF Despues, Actual
  <2>9. ~Acabado(kernel, cpu)
    BY <2>5, <2>12 DEF Acabado
  <2>10. Acabado(k, u) /\ EstadoEn(k, u) = c
    <3>1. Acabado(k, u) /\ ~Discorde(k, u)
      BY <2>7 DEF Acabado, Discorde
    <3> QED
      BY <2>4, <2>7, <3>1 DEF EstadoEn
  <2>11. PilaFiel' /\ Ejecucion!Terminar(c)
    BY <2>5, <2>8, <2>9, <2>10, TerminarSigue
  <2> QED
    BY <1>2, <2>2, <2>11 DEF ElProgramaSigue
<1> QED
  BY <1>3, <1>4

LEMMA ProgramaAlEjecutar ==
  ASSUME IInvPcb, PilaFiel, ejecutarInstruccion
  PROVE  ElProgramaSigue
<1>0. programa \in Programas /\ Invariante(kernel, canal, cpu, pcb, PcbActual)
  BY InvarianteAntes
<1>1. cpu.fase = "ejecutando" /\ UNCHANGED <<programa, canal>>
  BY DEF ejecutarInstruccion
<1>2. /\ pcb # Ninguno /\ pcb \in PcbDelPrograma /\ EnOrden(pcb.indiceStack) /\ PcbActual = pcb
      /\ canal = Ninguno /\ kernel.lista = "ejecucion" /\ kernel.espera = "orden"
      /\ cpu.interrupcion \in {"ninguna", "semWait"} => PilaEnRutinas(pcb)
  BY <1>0, <1>1, EnLaCPU
<1>3. KernelTipado(kernel) /\ CpuTipada(cpu) /\ Marchando(cpu)
  BY <1>0 DEF Invariante
<1>4. cpu.interrupcion = "ninguna" /\ PilaEnRutinas(pcb)
  BY <1>1, <1>2, <1>3 DEF Marchando
<1>5. ~Acabado(kernel, cpu)
  BY <1>2, <1>4 DEF Acabado
<1>6. Memorable(pcb, memoria) /\ EstadoDe = 1
  BY <1>2, <1>5, FielAhora
<1>7. PICK i : i = obtener_instruccion
  OBVIOUS
<1>8. PICK m : m = [pcb |-> pcb, memoria |-> memoria, aEjecutarDelPcb |-> cpu.aEjecutarDelPcb,
                    interrupcion |-> cpu.interrupcion, puntero |-> 0, valor |-> 0]
  OBVIOUS
<1>9. i = programa.codigo[pcb.programCounter + 1]
  <2>1. pcb.programCounter + 1 \in DOMAIN programa.codigo
    BY <1>4 DEF PilaEnRutinas
  <2> QED
    BY <1>0, <1>2, <1>7, <2>1, InstruccionActual
<1>10. EnCurso(m, i) /\ Fiel(m.pcb, m.memoria) /\ m.pcb = pcb /\ m.memoria = memoria
  <2>1. Marcha(m) /\ m.interrupcion = "ninguna" /\ m.pcb = pcb /\ m.memoria = memoria
    <3>1. cpu.aEjecutarDelPcb \in Nat /\ "ninguna" \in Interrupciones
      BY <1>3 DEF CpuTipada, Interrupciones
    <3> QED
      BY <1>2, <1>4, <1>8, <3>1 DEF Marcha
  <2> QED
    BY <1>2, <1>4, <1>6, <1>9, <2>1 DEF EnCurso, Fiel
<1>11. PICK rechazo, negativa, r :
        /\ rechazo \in BOOLEAN /\ i.op # "fin" /\ (rechazo => i.op \in Refutable)
        /\ kernel' = [kernel EXCEPT !.espera = IF rechazo THEN "pcb" ELSE @]
        /\ negativa \in Negativa(i.op, rechazo) /\ r \in Resultados(m, i, negativa)
        /\ pcb' = [r.pcb EXCEPT !.programCounter = @ + 1] /\ memoria' = r.memoria
        /\ cpu' = [cpu EXCEPT !.fase = "verificando", !.aEjecutarDelPcb = r.aEjecutarDelPcb,
                              !.interrupcion = r.interrupcion,
                              !.aEjecutarPorKernel = Contado(@)]
  BY <1>7, <1>8 DEF ejecutarInstruccion
<1>12. /\ Ejecutada(m, r, rechazo) /\ Corresponde(m, i, r)
       /\ i.op \in Refutable => r.pcb = m.pcb
  <2>1. /\ programa \in Programas /\ EnCurso(m, i) /\ i.op # "fin" /\ rechazo \in BOOLEAN
        /\ (rechazo => i.op \in Refutable) /\ r \in Resultados(m, i, negativa)
        /\ negativa \in Negativa(i.op, rechazo) /\ negativa \in BOOLEAN
        /\ Fiel(m.pcb, m.memoria)
    BY <1>0, <1>10, <1>11 DEF Negativa
  <2> QED
    BY ONLY <2>1, InstruccionEjecutada, InstruccionCorresponde
<1>13. PICK q : q = ConContador(r.pcb, r.pcb.programCounter + 1)
  OBVIOUS
<1>14. q \in PcbDelPrograma /\ q # Ninguno /\ pcb' = q
  <2>1. r.pcb \in PcbDelPrograma
    BY <1>12 DEF Ejecutada, Marcha
  <2>2. r.pcb.programCounter + 1 \in Int
    BY <2>1, PilaDelPcb
  <2>3. q \in PcbDelPrograma
    BY <1>13, <2>1, <2>2, PcbConContador
  <2> QED
    BY <1>11, <1>13, <2>1, <2>3, PcbAlgo DEF ConContador
<1>15. PICK k, u, mem, mk, pc : /\ k = kernel' /\ u = cpu' /\ mem = r.memoria
                                /\ mk = MarcosEn(pcb.indiceStack, memoria)
                                /\ pc = pcb.programCounter
  OBVIOUS
<1>16. /\ k.lista = "ejecucion" /\ u.interrupcion = r.interrupcion /\ u.fase = "verificando"
       /\ k.espera = IF rechazo THEN "pcb" ELSE "orden"
  BY <1>2, <1>3, <1>11, <1>15 DEF KernelTipado, CpuTipada
<1>17. Despues(k, Ninguno, u, q, q, mem)
  BY <1>1, <1>2, <1>11, <1>14, <1>15 DEF Despues, Actual
<1>18. /\ InstruccionVista = i /\ MarcosVisto = mk /\ PcVisto = pc
  BY <1>2, <1>5, <1>9, <1>15, VistaAhora DEF PcEn, FramesEn, InstruccionVista
<1>19. CASE r.interrupcion \in {"ninguna", "semWait"}
  <2>1. /\ Memorable(q, mem)
        /\ Paso(i, pc, mk, q.programCounter, MarcosEn(q.indiceStack, mem))
    BY <1>10, <1>12, <1>13, <1>15, <1>19 DEF Corresponde, Fatales
  <2>2. ~Acabado(k, u) /\ EstadoEn(k, u) = 1
    BY <1>16, <1>19 DEF Acabado, EstadoEn
  <2>3. /\ PcVisto' = q.programCounter /\ MarcosVisto' = MarcosEn(q.indiceStack, mem)
        /\ EstadoDe' = 1 /\ PilaFiel'
    BY <1>1, <1>17, <2>1, <2>2, VistaDespues DEF PcEn, FramesEn
  <2>4. Paso(InstruccionVista, PcVisto, MarcosVisto, PcVisto', MarcosVisto')
    BY <1>18, <2>1, <2>3
  <2> QED
    BY <1>1, <1>6, <2>3, <2>4, VistaPasa DEF ElProgramaSigue
<1>20. CASE r.interrupcion \notin {"ninguna", "semWait"}
  <2>1. Acabado(k, u)
    BY <1>16, <1>20 DEF Acabado
  <2>2. PICK x : x = EstadoEn(k, u)
    OBVIOUS
  <2>3. x = IF Discorde(k, u) THEN 2 ELSE Codigo(r.interrupcion)
    BY <1>16, <1>20, <2>1, <2>2 DEF EstadoEn
  <2>4. PilaFiel' /\ Ejecucion!Terminar(x)
    BY <1>1, <1>5, <1>17, <2>1, <2>2, TerminarSigue
  <2>5. EstadoDe = Ejecucion!Vivo /\ Ejecucion!Instruccion = i
    BY <1>6, <1>18, VistaOpera DEF Ejecucion!Vivo
  <2>8. CASE Discorde(k, u)
    <3>1. PuedeDiscordar(q)
      BY <1>11, <1>12, <1>13, <1>16, <2>8 DEF Discorde, Ejecutada
    <3>2. q.indiceStack = pcb.indiceStack /\ programa.codigo[q.programCounter] = i
      <4>1. (r.interrupcion \in PorKernel) # rechazo
        BY <1>11, <1>16, <2>8 DEF Discorde
      <4>2. i.op \in Refutable
        <5>1. CASE rechazo
          BY <1>11, <5>1
        <5>2. CASE ~rechazo
          <6>1. r.interrupcion = "resEjecNegativo"
            BY <1>11, <1>12, <4>1, <5>2 DEF Ejecutada
          <6> QED
            BY <1>12, <6>1 DEF Corresponde, Fatales, Refutable
        <5> QED
          BY <5>1, <5>2
      <4>3. r.pcb = pcb
        BY <1>10, <1>12, <4>2
      <4>4. q.indiceStack = pcb.indiceStack /\ q.programCounter = pcb.programCounter + 1
        <5>1. pcb.programCounter + 1 \in Int
          BY <1>2, PilaDelPcb
        <5> QED
          BY <1>2, <1>13, <4>3, <5>1, PcbConContador
      <4> QED
        BY <1>9, <4>4
    <3>3. i.op = "alocar" \/ (i.op = "abrir" /\ i.destino \notin DOMAIN Last(mk).valores)
      <4>1. CASE i.op = "alocar"
        BY <4>1
      <4>2. CASE i.op # "alocar"
        <5>1. i.op = "abrir" /\ SinDestino(q)
          BY <3>1, <3>2, <4>2 DEF PuedeDiscordar
        <5>2. PICK t, nodo, mc : EnCursoFiel(m, i, t, nodo, mc)
          BY <1>0, <1>10, <5>1, HayCima
        <5>3. mc = mk
          BY <1>10, <1>15, <5>2 DEF EnCursoFiel
        <5> QED
          BY <1>0, <1>10, <3>2, <5>1, <5>2, <5>3, SinDestinoVisto
      <4> QED
        BY <4>1, <4>2
    <3>4. Ejecucion!Marco = Last(mk) /\ x = Ejecucion!Perdido
      BY <1>18, <2>3, <2>8, VistaOpera DEF Ejecucion!Perdido
    <3> QED
      BY <2>4, <2>5, <3>3, <3>4 DEF ElProgramaSigue, Ejecucion!Next, Ejecucion!Perderse
  <2>6. CASE r.interrupcion \in Fatales /\ ErroneaM(i, mk) /\ ~Discorde(k, u)
    <3>1. x = CodigoError
      BY <2>3, <2>6 DEF Codigo, Fatales
    <3>2. Ejecucion!Erronea
      BY <1>18, <2>6, VistaErronea
    <3> QED
      BY <2>4, <2>5, <3>1, <3>2 DEF ElProgramaSigue, Ejecucion!Next, Ejecucion!Fallar
  <2>7. CASE /\ r.interrupcion = "resEjecNegativo" /\ i.op \in {"pedir"} \cup ConRespuesta
             /\ ~Discorde(k, u)
    <3>1. x = CodigoRechazo /\ i.op \in {"pedir", "alocar", "abrir"}
      BY <2>3, <2>7 DEF Codigo, ConRespuesta
    <3> QED
      BY <2>4, <2>5, <3>1 DEF ElProgramaSigue, Ejecucion!Next, Ejecucion!Rechazar
  <2> QED
    BY <1>10, <1>12, <1>15, <1>20, <2>6, <2>7, <2>8 DEF Corresponde
<1> QED
  BY <1>19, <1>20

LEMMA ElProgramaDaUnPaso ==
  ASSUME IInvPcb, PilaFiel, [Next]_vars
  PROVE  ElProgramaSigue
<1>1. CASE recibirPCB
  BY <1>1, ProgramaAlRecibir
<1>2. CASE finalizar \/ expropiadoVoluntariamente \/ (Matar /\ kernel.lista # "ejecucion")
  BY <1>2, ProgramaAlTerminar
<1>3. CASE ejecutarInstruccion
  BY <1>3, ProgramaAlEjecutar
<1>4. CASE expropiar \/ expropiarPorRR
  BY <1>4, ProgramaAlExpropiar
<1>5. CASE \/ EjecutarProgramaMedianteAlgoritmo
           \/ Seguir \/ AgotarCuenta \/ signalHandler \/ cerrarTodo \/ ConectarCPU
           \/ Desbloquear \/ VerCierre \/ (Matar /\ kernel.lista = "ejecucion")
  BY <1>5, ProgramaAlSeguir
<1>6. CASE Despachar
  BY <1>6, ProgramaAlDespachar
<1>7. CASE UNCHANGED vars
  <2>1. /\ UNCHANGED <<programa, canal, pcb, memoria>> /\ kernel' = kernel /\ cpu' = cpu
    BY <1>7 DEF vars
  <2> QED
    BY <2>1, ProgramaQuieto
<1> QED
  BY <1>1, <1>2, <1>3, <1>4, <1>5, <1>6, <1>7 DEF Next

LEMMA ElProgramaEmpieza ==
  ASSUME Init
  PROVE  PilaFiel /\ Ejecucion!Init
<1>1. /\ programa \in Programas /\ canal = Ninguno /\ cpu = CPUNueva /\ pcb = Ninguno
      /\ memoria = <<>>
      /\ kernel = [lista |-> "listos", proceso |-> crearPcb(1, programa, TamPagina),
                   espera |-> "orden", libre |-> TRUE, interrumpido |-> FALSE]
  BY DEF Init
<1>2. PICK p : p = crearPcb(1, programa, TamPagina)
  OBVIOUS
<1>3. p \in PcbDelPrograma /\ p.indiceStack = <<>> /\ p.programCounter = programa.inicio
  BY <1>1, <1>2, PcbNuevo DEF crearPcb
<1>4. PcbActual = p /\ ~Terminado /\ EstadoDe = 1
  BY <1>1, <1>2 DEF PcbActual, Terminado, Condenado, EstadoDe, CPUNueva
<1>5. Memorable(p, memoria)
  <2>1. DOMAIN p.indiceStack = {}
    BY <1>3
  <2>2. DOMAIN memoria = {}
    BY <1>1
  <2> QED
    BY <2>1, <2>2 DEF Memorable, Destinos, Numerada, MemoriaTipada
<1>6. PilaFiel
  BY <1>3, <1>4, <1>5, MemorableEs DEF PilaFiel
<1>7. MarcosDe(PcbActual.indiceStack) = <<>>
  BY <1>3, <1>4 DEF MarcosDe
<1>8. Ejecucion!Init
  BY <1>3, <1>4, <1>7 DEF Ejecucion!Init, Ejecucion!Vivo
<1> QED
  BY <1>6, <1>8

-----------------------------------------------------------------------------
\* What the stack and the memory have of the process is what its program says: each name
\* once, each value in its place, each call with a variable to return to.
THEOREM CPUFielAlPrograma == Spec => []IInvCPU
<1>1. IInvCuenta /\ PilaFiel /\ [Next]_vars => PilaFiel'
  BY ElProgramaDaUnPaso DEF IInvCuenta, ElProgramaSigue
<1>2. Init => PilaFiel
  BY ElProgramaEmpieza
<1>3. IInvCPU <=> IInvCuenta /\ PilaFiel
  BY DEF IInvCPU
<1> QED
  BY <1>1, <1>2, <1>3, CPUAlcanzaElFinal, PTL DEF Spec

\* Whatever moves the process, a quantum, a semaphore, a kill or a signal, a CPU runs its
\* program and nothing else: each step of the CPU is a step of the program or none, and the
\* exit code is that of how the program ended.
THEOREM CPUImplementaPrograma == Spec => ImplementaPrograma
<1>1. Init => Ejecucion!Init
  BY ElProgramaEmpieza
<1>2. IInvCPU /\ [Next]_vars => [Ejecucion!Next]_(Ejecucion!vars)
  BY ElProgramaDaUnPaso DEF IInvCPU, IInvCuenta, ElProgramaSigue
<1> QED
  BY <1>1, <1>2, CPUFielAlPrograma, PTL DEF Spec, ImplementaPrograma, Ejecucion!SpecPrograma
=============================================================================
