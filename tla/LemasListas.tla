----------------------------- MODULE LemasListas -----------------------------
(***************************************************************************)
(* What the proofs need of the lists of the code, which are sequences, and *)
(* of the sums over them.                                                  *)
(***************************************************************************)
EXTENDS Integers, Sequences, SequencesExt, SequenceTheorems, FiniteSetTheorems,
        WellFoundedInduction, TLAPS

\* Taking out one place of a sequence leaves a sequence that is one shorter.
LEMMA QuitarLugar ==
  ASSUME NEW S, NEW s \in Seq(S), NEW i \in 1..Len(s)
  PROVE  RemoveAt(s, i) \in Seq(S) /\ Len(RemoveAt(s, i)) = Len(s) - 1
<1> DEFINE antes == SubSeq(s, 1, i-1)
           despues == SubSeq(s, i+1, Len(s))
<1>1. antes \in Seq(S) /\ Len(antes) = i - 1
  OBVIOUS
<1>2. despues \in Seq(S) /\ Len(despues) = Len(s) - i
  OBVIOUS
<1>3. RemoveAt(s, i) = antes \o despues
  BY DEF RemoveAt
<1> HIDE DEF antes, despues
<1>4. antes \o despues \in Seq(S) /\ Len(antes \o despues) = Len(antes) + Len(despues)
  BY <1>1, <1>2, ConcatProperties
<1> QED
  BY <1>1, <1>2, <1>3, <1>4

\* What stays was there.
LEMMA QuedanLosDemas ==
  ASSUME NEW S, NEW s \in Seq(S), NEW i \in 1..Len(s)
  PROVE  \A j \in DOMAIN RemoveAt(s, i) : \E k \in DOMAIN s : RemoveAt(s, i)[j] = s[k]
<1> DEFINE E == {s[k] : k \in DOMAIN s}
           q == RemoveAt(s, i)
<1>1. s \in [1..Len(s) -> E] /\ Len(s) \in Nat
  BY LenProperties
<1>2. s \in Seq(E)
  BY <1>1, SeqDef, SMTT(30)
<1>3. q \in Seq(E)
  BY <1>2, QuitarLugar
<1> HIDE DEF q
<1>4. \A j \in DOMAIN q : q[j] \in E
  BY <1>3
<1> QED
  BY <1>4 DEF q

\* A set of naturals that is not empty has a minimum.
LEMMA MinimoDeNaturales ==
  ASSUME NEW I \in SUBSET Nat, I # {}
  PROVE  \E k \in I : \A j \in I : k =< j
<1> DEFINE Menor == OpToRel(<, Nat)
<1>1. \A j, k \in Nat : j < k => <<j, k>> \in Menor
  BY DEF OpToRel
<1>2. IsWellFoundedOn(Menor, Nat)
  BY NatLessThanWellFounded
<1> HIDE DEF Menor
<1>3. PICK k \in I : \A j \in I : ~(<<j, k>> \in Menor)
  BY <1>2, WFMin
<1>4. ASSUME NEW j \in I PROVE k =< j
  <2>1. j \in Nat /\ k \in Nat /\ ~(j < k)
    BY <1>1, <1>3
  <2> QED
    BY <2>1
<1> QED
  BY <1>4

\* Taking out the first place of an element that is there does the same.
LEMMA QuitarPrimero ==
  ASSUME NEW S, NEW s \in Seq(S), NEW e
  PROVE  /\ RemoveFirst(s, e) \in Seq(S)
         /\ Contains(s, e) => Len(RemoveFirst(s, e)) = Len(s) - 1
<1>1. CASE Contains(s, e)
  <2> DEFINE I == {i \in 1..Len(s) : s[i] = e}
  <2>1. I # {} /\ I \subseteq Nat
    BY <1>1 DEF Contains
  <2>2. PICK k \in I : k = Min(I)
    BY <2>1, MinimoDeNaturales DEF Min
  <2>3. RemoveFirst(s, e) = RemoveAt(s, k)
    BY <1>1, <2>1, <2>2 DEF RemoveFirst, SelectInSeq, Contains
  <2>. QED
    BY <2>2, <2>3, QuitarLugar
<1>2. CASE ~Contains(s, e)
  BY <1>2 DEF RemoveFirst, Contains
<1> QED
  BY <1>1, <1>2

\* So has a set of positions a maximum.
LEMMA MaximoDePosiciones ==
  ASSUME NEW n \in Nat, NEW I \in SUBSET (1..n), I # {}
  PROVE  \E k \in I : \A j \in I : j =< k
<1> DEFINE R == {n - i : i \in I}
<1>1. R \in SUBSET Nat /\ R # {}
  <2>1. \A i \in I : n - i \in Nat
    OBVIOUS
  <2>2. \E i \in I : TRUE
    OBVIOUS
  <2> QED
    BY <2>1, <2>2
<1>2. PICK m \in R : \A j \in R : m =< j
  <2> HIDE DEF R
  <2> QED
    BY <1>1, MinimoDeNaturales
<1>3. PICK k \in I : m = n - k
  OBVIOUS
<1>4. ASSUME NEW j \in I PROVE j =< k
  <2>1. m =< n - j
    BY <1>2
  <2>2. j \in Int /\ k \in Int
    OBVIOUS
  <2> QED
    BY <2>1, <2>2, <1>3
<1> QED
  BY <1>4

\* Putting an element at the end keeps the rest.
LEMMA AgregarAlFinal ==
  ASSUME NEW S, NEW s \in Seq(S), NEW e \in S
  PROVE  Append(s, e) \in Seq(S) /\ Len(Append(s, e)) = Len(s) + 1
OBVIOUS

\* Changing one place keeps the sequence.
LEMMA CambiarLugar ==
  ASSUME NEW S, NEW s \in Seq(S), NEW i \in DOMAIN s, NEW e \in S
  PROVE  [s EXCEPT ![i] = e] \in Seq(S) /\ Len([s EXCEPT ![i] = e]) = Len(s)
BY ExceptSeq

\* A sequence rewritten place by place is one as long.
LEMMA PorLugares ==
  ASSUME NEW S, NEW T, NEW s \in Seq(S), NEW f \in [DOMAIN s -> T]
  PROVE  f \in Seq(T) /\ Len(f) = Len(s)
<1>1. DOMAIN s = 1..Len(s) /\ Len(s) \in Nat
  OBVIOUS
<1> QED
  BY <1>1

-----------------------------------------------------------------------------
(* Sums. SumFunctionOnSet is a recursion over the subsets of a finite set; *)
(* what it adds up to is by the smallest subset for which it would not.    *)

\* A family of subsets of a finite set has a member none of whose elements can
\* be taken out without leaving the family.
LEMMA SubconjuntoMinimo ==
  ASSUME NEW D, IsFiniteSet(D), NEW B \in SUBSET (SUBSET D), B # {}
  PROVE  \E s \in B : \A x \in s : s \ {x} \notin B
<1> DEFINE I == {Cardinality(s) : s \in B}
<1>1. \A s \in B : IsFiniteSet(s) /\ Cardinality(s) \in Nat
  BY FS_Subset, FS_CardinalityType
<1>2. I \in SUBSET Nat /\ I # {}
  BY <1>1
<1>3. PICK k \in I : \A j \in I : k =< j
  BY <1>2, MinimoDeNaturales
<1>4. PICK s \in B : k = Cardinality(s)
  BY <1>3
<1>5. ASSUME NEW x \in s, s \ {x} \in B PROVE FALSE
  <2>1. Cardinality(s \ {x}) = Cardinality(s) - 1
    BY <1>1, <1>4, FS_RemoveElement
  <2>2. k =< Cardinality(s \ {x}) /\ Cardinality(s) \in Nat
    BY <1>1, <1>3, <1>5
  <2> QED
    BY <1>4, <2>1, <2>2
<1> QED
  BY <1>5

\* The recursion of SumFunctionOnSet over the subsets of D.
Elegido(s) == CHOOSE x \in s : TRUE
PasoDeSuma(f, g, s) == IF s = {} THEN 0 ELSE f[Elegido(s)] + g[s \ {Elegido(s)}]
EsSuma(f, g, D) == g = [s \in SUBSET D |-> PasoDeSuma(f, g, s)]

LEMMA SumaEs ==
  ASSUME NEW f, NEW D
  PROVE  SumFunctionOnSet(f, D) = (CHOOSE g : EsSuma(f, g, D))[D]
BY DEF SumFunctionOnSet, FoldFunctionOnSet, MapThenFoldSet, EsSuma, PasoDeSuma, Elegido

\* Over a finite set the recursion defines a function.
LEMMA HaySuma ==
  ASSUME NEW f, NEW D, IsFiniteSet(D)
  PROVE  \E g : EsSuma(f, g, D)
<1> DEFINE Chicos(n) == {s \in SUBSET D : Cardinality(s) =< n}
           Hasta(n, h) == h = [s \in Chicos(n) |-> PasoDeSuma(f, h, s)]
           Malos == {n \in Nat : ~\E h : Hasta(n, h)}
<1>1. \A s \in SUBSET D : IsFiniteSet(s) /\ Cardinality(s) \in Nat /\ Cardinality(s) =< Cardinality(D)
  BY FS_Subset, FS_CardinalityType
<1>2. \A s \in SUBSET D : s # {} => /\ Elegido(s) \in s
                                    /\ s \ {Elegido(s)} \in SUBSET D
                                    /\ Cardinality(s \ {Elegido(s)}) = Cardinality(s) - 1
  BY <1>1, FS_RemoveElement DEF Elegido
<1>3. Malos = {}
  <2> SUFFICES ASSUME Malos # {} PROVE FALSE
    OBVIOUS
  <2>1. PICK k \in Malos : \A j \in Malos : k =< j
    <3>1. Malos \in SUBSET Nat
      OBVIOUS
    <3> HIDE DEF Malos
    <3> QED
      BY <3>1, MinimoDeNaturales
  <2>2. CASE k = 0
    <3> DEFINE h == [s \in Chicos(0) |-> 0]
    <3>1. \A s \in Chicos(0) : s = {}
      BY <1>1, FS_EmptySet
    <3>2. \A s \in Chicos(0) : PasoDeSuma(f, h, s) = 0
      BY <3>1 DEF PasoDeSuma
    <3>3. Hasta(0, h)
      BY <3>2
    <3> QED
      BY <2>2, <3>3
  <2>3. CASE k # 0
    <3>1. k - 1 \in Nat /\ k - 1 \notin Malos
      <4>1. k \in Nat /\ k - 1 \in Nat /\ ~(k =< k - 1)
        BY <2>3
      <4> QED
        BY <4>1, <2>1
    <3>2. PICK h : Hasta(k - 1, h)
      BY <3>1
    <3> DEFINE h2 == [s \in Chicos(k) |-> PasoDeSuma(f, h, s)]
    <3>3. ASSUME NEW s \in Chicos(k) PROVE PasoDeSuma(f, h, s) = PasoDeSuma(f, h2, s)
      <4>1. CASE s = {}
        BY <4>1 DEF PasoDeSuma
      <4>2. CASE s # {}
        <5> DEFINE t == s \ {Elegido(s)}
        <5>1. Cardinality(s) \in Nat /\ Cardinality(s) =< k /\ Cardinality(t) = Cardinality(s) - 1
              /\ t \in SUBSET D
          BY <1>1, <1>2, <4>2
        <5>2. t \in Chicos(k - 1) /\ t \in Chicos(k)
          BY <5>1
        <5>3. h[t] = PasoDeSuma(f, h, t)
          BY <3>2, <5>2
        <5>4. h2[t] = PasoDeSuma(f, h, t)
          BY <5>2
        <5> QED
          BY <4>2, <5>3, <5>4 DEF PasoDeSuma
      <4> QED
        BY <4>1, <4>2
    <3>4. Hasta(k, h2)
      BY <3>3
    <3> QED
      BY <3>4
  <2> QED
    BY <2>2, <2>3
<1>4. Cardinality(D) \in Nat
  BY <1>1
<1>5. PICK h : Hasta(Cardinality(D), h)
  BY <1>3, <1>4
<1>6. Chicos(Cardinality(D)) = SUBSET D
  BY <1>1
<1> QED
  BY <1>5, <1>6 DEF EsSuma

\* Two such functions agree where both are defined.
LEMMA SumaUnica ==
  ASSUME NEW f, NEW D, IsFiniteSet(D), NEW E \in SUBSET D,
         NEW g, EsSuma(f, g, D), NEW h, EsSuma(f, h, E)
  PROVE  \A s \in SUBSET E : g[s] = h[s]
<1> DEFINE B == {s \in SUBSET E : g[s] # h[s]}
<1> SUFFICES ASSUME B # {} PROVE FALSE
  OBVIOUS
<1>1. B \in SUBSET (SUBSET D)
  OBVIOUS
<1>2. PICK s \in B : \A x \in s : s \ {x} \notin B
  <2> HIDE DEF B
  <2> QED
    BY <1>1, SubconjuntoMinimo
<1>3. g[s] = PasoDeSuma(f, g, s) /\ h[s] = PasoDeSuma(f, h, s)
  BY <1>2 DEF EsSuma
<1>4. s # {}
  BY <1>2, <1>3 DEF PasoDeSuma
<1>5. Elegido(s) \in s
  BY <1>4 DEF Elegido
<1>6. g[s \ {Elegido(s)}] = h[s \ {Elegido(s)}]
  BY <1>2, <1>5
<1> QED
  BY <1>2, <1>3, <1>6 DEF PasoDeSuma

LEMMA SumaVacia == ASSUME NEW f PROVE SumFunctionOnSet(f, {}) = 0
<1>1. \E g : EsSuma(f, g, {})
  BY HaySuma, FS_EmptySet
<1>2. PICK g : g = (CHOOSE x : EsSuma(f, x, {}))
  OBVIOUS
<1>3. EsSuma(f, g, {})
  BY <1>1, <1>2
<1> QED
  BY <1>2, <1>3, SumaEs DEF EsSuma, PasoDeSuma

LEMMA SumaPorEleccion ==
  ASSUME NEW f, NEW D, IsFiniteSet(D), D # {}
  PROVE  /\ Elegido(D) \in D
         /\ SumFunctionOnSet(f, D)
              = f[Elegido(D)] + SumFunctionOnSet(f, D \ {Elegido(D)})
<1> DEFINE E == D \ {Elegido(D)}
<1>1. Elegido(D) \in D /\ IsFiniteSet(E) /\ E \in SUBSET D
  BY FS_RemoveElement DEF Elegido
<1>2. PICK g : g = (CHOOSE x : EsSuma(f, x, D))
  OBVIOUS
<1>3. PICK h : h = (CHOOSE x : EsSuma(f, x, E))
  OBVIOUS
<1> HIDE DEF E
<1>4. EsSuma(f, g, D)
  BY <1>2, HaySuma
<1>5. EsSuma(f, h, E)
  BY <1>1, <1>3, HaySuma
<1>6. g[E] = h[E]
  BY <1>1, <1>4, <1>5, SumaUnica
<1>7. SumFunctionOnSet(f, D) = g[D] /\ SumFunctionOnSet(f, E) = h[E]
  BY <1>2, <1>3, SumaEs
<1>8. g[D] = f[Elegido(D)] + g[E]
  BY <1>4 DEF EsSuma, PasoDeSuma, E
<1> QED
  BY <1>1, <1>6, <1>7, <1>8 DEF E

\* A sum of integers is one.
LEMMA SumaEntera ==
  ASSUME NEW D, IsFiniteSet(D), NEW f, \A x \in D : f[x] \in Int
  PROVE  SumFunctionOnSet(f, D) \in Int
<1> DEFINE B == {s \in SUBSET D : SumFunctionOnSet(f, s) \notin Int}
<1> SUFFICES ASSUME B # {} PROVE FALSE
  OBVIOUS
<1>1. B \in SUBSET (SUBSET D)
  OBVIOUS
<1>2. PICK s \in B : \A x \in s : s \ {x} \notin B
  <2> HIDE DEF B
  <2> QED
    BY <1>1, SubconjuntoMinimo
<1>3. s \in SUBSET D /\ SumFunctionOnSet(f, s) \notin Int
  BY <1>2
<1>4. s # {}
  <2>1. 0 \in Int
    OBVIOUS
  <2> QED
    BY <1>3, <2>1, SumaVacia
<1>5. IsFiniteSet(s)
  BY <1>3, FS_Subset
<1>6. PICK c \in s : SumFunctionOnSet(f, s) = f[c] + SumFunctionOnSet(f, s \ {c})
  BY <1>4, <1>5, SumaPorEleccion
<1>7. SumFunctionOnSet(f, s \ {c}) \in Int
  <2>1. s \ {c} \in SUBSET D
    BY <1>3
  <2> QED
    BY <2>1, <1>2
<1> QED
  BY <1>3, <1>6, <1>7

\* Any term of a sum can be taken out of it first.
LEMMA SumaQuita ==
  ASSUME NEW D, IsFiniteSet(D), NEW f, \A x \in D : f[x] \in Int
  PROVE  \A x \in D : SumFunctionOnSet(f, D) = f[x] + SumFunctionOnSet(f, D \ {x})
<1> DEFINE Bien(s) == \A x \in s : SumFunctionOnSet(f, s) = f[x] + SumFunctionOnSet(f, s \ {x})
           B == {s \in SUBSET D : ~Bien(s)}
<1> SUFFICES ASSUME B # {} PROVE FALSE
  OBVIOUS
<1>1. B \in SUBSET (SUBSET D)
  OBVIOUS
<1>2. PICK s \in B : \A x \in s : s \ {x} \notin B
  <2> HIDE DEF B
  <2> QED
    BY <1>1, SubconjuntoMinimo
<1>3. s \in SUBSET D /\ ~Bien(s)
  BY <1>2
<1>4. PICK x \in s : SumFunctionOnSet(f, s) # f[x] + SumFunctionOnSet(f, s \ {x})
  BY <1>3
<1>5. IsFiniteSet(s)
  BY <1>3, FS_Subset
<1>6. PICK c \in s : SumFunctionOnSet(f, s) = f[c] + SumFunctionOnSet(f, s \ {c})
  BY <1>4, <1>5, SumaPorEleccion
<1>7. c \in s \ {x} /\ x \in s \ {c}
  BY <1>4, <1>6
<1>8. Bien(s \ {x}) /\ Bien(s \ {c})
  <2>1. s \ {x} \in SUBSET D /\ s \ {c} \in SUBSET D
    BY <1>3
  <2> QED
    BY <2>1, <1>2
<1> DEFINE t == (s \ {c}) \ {x}
<1>9. t = (s \ {x}) \ {c}
  OBVIOUS
<1>10. SumFunctionOnSet(f, s \ {c}) = f[x] + SumFunctionOnSet(f, t)
  BY <1>7, <1>8
<1>11. SumFunctionOnSet(f, s \ {x}) = f[c] + SumFunctionOnSet(f, t)
  BY <1>7, <1>8, <1>9
<1>12. SumFunctionOnSet(f, t) \in Int /\ f[c] \in Int /\ f[x] \in Int
  <2>1. t \in SUBSET D /\ IsFiniteSet(t) /\ \A y \in t : f[y] \in Int
    BY <1>3, FS_Subset
  <2> HIDE DEF t
  <2> QED
    BY <2>1, <1>3, SumaEntera
<1> QED
  BY ONLY <1>4, <1>6, <1>10, <1>11, <1>12

\* The same terms under other names give the same sum.
LEMMA SumaIgual ==
  ASSUME NEW D, IsFiniteSet(D), NEW E, IsFiniteSet(E), NEW b \in [D -> E],
         \A x, y \in D : b[x] = b[y] => x = y, \A z \in E : \E x \in D : b[x] = z,
         NEW f, NEW g, \A x \in D : f[x] \in Int /\ g[b[x]] = f[x]
  PROVE  SumFunctionOnSet(f, D) = SumFunctionOnSet(g, E)
<1> DEFINE Imagen(s) == {b[x] : x \in s}
           B == {s \in SUBSET D : SumFunctionOnSet(f, s) # SumFunctionOnSet(g, Imagen(s))}
<1>0. \A s \in SUBSET D : IsFiniteSet(s) /\ IsFiniteSet(Imagen(s))
  <2>1. \A s \in SUBSET D : Imagen(s) \in SUBSET E
    OBVIOUS
  <2> HIDE DEF Imagen
  <2> QED
    BY <2>1, FS_Subset
<1>a. B = {}
  <2> SUFFICES ASSUME B # {} PROVE FALSE
    OBVIOUS
  <2>1. B \in SUBSET (SUBSET D)
    OBVIOUS
  <2>2. PICK s \in B : \A x \in s : s \ {x} \notin B
    <3> HIDE DEF B
    <3> QED
      BY <2>1, SubconjuntoMinimo
  <2>3. s \in SUBSET D /\ SumFunctionOnSet(f, s) # SumFunctionOnSet(g, Imagen(s))
    BY <2>2
  <2>4. s # {}
    <3>1. Imagen({}) = {}
      OBVIOUS
    <3> QED
      BY <2>3, <3>1, SumaVacia
  <2>5. PICK c \in s : TRUE
    BY <2>4
  <2>6. Imagen(s) \ {b[c]} = Imagen(s \ {c}) /\ b[c] \in Imagen(s)
    BY <2>3, <2>5
  <2>7. s \ {c} \in SUBSET D
    BY <2>3
  <2>8. SumFunctionOnSet(f, s \ {c}) = SumFunctionOnSet(g, Imagen(s \ {c}))
    BY <2>2, <2>5, <2>7
  <2>9. SumFunctionOnSet(f, s) = f[c] + SumFunctionOnSet(f, s \ {c})
    BY <1>0, <2>3, <2>5, SumaQuita
  <2>10. SumFunctionOnSet(g, Imagen(s)) = g[b[c]] + SumFunctionOnSet(g, Imagen(s) \ {b[c]})
    <3>1. \A z \in Imagen(s) : g[z] \in Int
      BY <2>3
    <3>2. IsFiniteSet(Imagen(s))
      BY <1>0, <2>3
    <3> HIDE DEF Imagen
    <3> QED
      BY <3>1, <3>2, <2>6, SumaQuita
  <2> QED
    BY <2>3, <2>5, <2>6, <2>8, <2>9, <2>10
<1>1. Imagen(D) = E
  OBVIOUS
<1> QED
  BY <1>a, <1>1

\* One term changes.
LEMMA SumaCambia ==
  ASSUME NEW D, IsFiniteSet(D), NEW c \in D, NEW f, NEW g,
         \A x \in D : f[x] \in Int /\ g[x] \in Int, \A x \in D \ {c} : g[x] = f[x]
  PROVE  SumFunctionOnSet(g, D) = SumFunctionOnSet(f, D) + g[c] - f[c]
<1> DEFINE E == D \ {c}
           b == [x \in E |-> x]
<1>1. IsFiniteSet(E) /\ \A x \in E : f[x] \in Int /\ g[x] = f[x]
  BY FS_RemoveElement
<1>2. SumFunctionOnSet(f, E) = SumFunctionOnSet(g, E)
  <2>1. b \in [E -> E] /\ \A x \in E : b[x] = x
    OBVIOUS
  <2> HIDE DEF b, E
  <2> QED
    BY <1>1, <2>1, SumaIgual
<1>3. SumFunctionOnSet(f, E) \in Int
  <2> HIDE DEF E
  <2> QED
    BY <1>1, SumaEntera
<1>4. SumFunctionOnSet(f, D) = f[c] + SumFunctionOnSet(f, E)
  BY SumaQuita
<1>5. SumFunctionOnSet(g, D) = g[c] + SumFunctionOnSet(g, E)
  BY SumaQuita
<1>6. f[c] \in Int /\ g[c] \in Int
  OBVIOUS
<1> QED
  BY ONLY <1>2, <1>3, <1>4, <1>5, <1>6

\* Taking out a place takes its term out of the sum.
LEMMA SumaSinLugar ==
  ASSUME NEW n \in Nat, NEW i \in 1..n, NEW f, NEW g, \A j \in 1..n : f[j] \in Int,
         \A j \in 1..(n-1) : g[j] = f[IF j < i THEN j ELSE j + 1]
  PROVE  SumFunctionOnSet(g, 1..(n-1)) = SumFunctionOnSet(f, 1..n) - f[i]
<1> DEFINE D == 1..(n-1)
           E == (1..n) \ {i}
           b == [j \in D |-> IF j < i THEN j ELSE j + 1]
<1>1. IsFiniteSet(D) /\ IsFiniteSet(1..n) /\ IsFiniteSet(E)
  <2>1. 1 \in Int /\ n \in Int /\ n - 1 \in Int
    OBVIOUS
  <2>2. IsFiniteSet(D) /\ IsFiniteSet(1..n)
    BY <2>1, FS_Interval
  <2> QED
    BY <2>2, FS_RemoveElement
<1>2. b \in [D -> E]
  OBVIOUS
<1>3. \A x, y \in D : b[x] = b[y] => x = y
  OBVIOUS
<1>4. \A z \in E : \E x \in D : b[x] = z
  <2> SUFFICES ASSUME NEW z \in E PROVE \E x \in D : b[x] = z
    OBVIOUS
  <2>1. CASE z < i
    <3>1. z \in D /\ b[z] = z
      BY <2>1
    <3> QED
      BY <3>1
  <2>2. CASE ~(z < i)
    <3>1. z - 1 \in D /\ b[z - 1] = z
      BY <2>2
    <3> QED
      BY <3>1
  <2> QED
    BY <2>1, <2>2
<1>5. \A x \in D : g[x] \in Int /\ f[b[x]] = g[x]
  OBVIOUS
<1>6. SumFunctionOnSet(g, D) = SumFunctionOnSet(f, E)
  <2> HIDE DEF D, E, b
  <2> QED
    BY <1>1, <1>2, <1>3, <1>4, <1>5, SumaIgual
<1>7. SumFunctionOnSet(f, 1..n) = f[i] + SumFunctionOnSet(f, E)
  BY <1>1, SumaQuita
<1>8. SumFunctionOnSet(f, E) \in Int /\ f[i] \in Int
  <2>1. \A x \in E : f[x] \in Int
    OBVIOUS
  <2> HIDE DEF E
  <2> QED
    BY <1>1, <2>1, SumaEntera
<1> QED
  BY <1>6, <1>7, <1>8

\* A place at the end adds its term.
LEMMA SumaConLugar ==
  ASSUME NEW n \in Nat, NEW f, NEW g, \A j \in 1..(n+1) : g[j] \in Int,
         \A j \in 1..n : f[j] = g[j]
  PROVE  SumFunctionOnSet(g, 1..(n+1)) = SumFunctionOnSet(f, 1..n) + g[n+1]
<1>1. \A j \in 1..((n+1)-1) : f[j] = g[IF j < n+1 THEN j ELSE j + 1]
  OBVIOUS
<1>2. n + 1 \in Nat /\ n + 1 \in 1..(n+1) /\ (n+1) - 1 = n
  OBVIOUS
<1>3. SumFunctionOnSet(f, 1..((n+1)-1)) = SumFunctionOnSet(g, 1..(n+1)) - g[n+1]
  BY <1>1, <1>2, SumaSinLugar, ZenonT(30)
<1>4. SumFunctionOnSet(g, 1..(n+1)) \in Int /\ g[n+1] \in Int
  <2>1. IsFiniteSet(1..(n+1))
    <3>1. 1 \in Int /\ n + 1 \in Int
      OBVIOUS
    <3> QED
      BY <3>1, FS_Interval
  <2> QED
    BY <1>2, <2>1, SumaEntera
<1> QED
  BY <1>2, <1>3, <1>4

\* The places before the one taken out stay, those behind it come one nearer.
LEMMA QuedanEnOrden ==
  ASSUME NEW S, NEW s \in Seq(S), NEW i \in 1..Len(s)
  PROVE  \A j \in 1..(Len(s)-1) : RemoveAt(s, i)[j] = IF j < i THEN s[j] ELSE s[j+1]
<1> DEFINE antes == SubSeq(s, 1, i-1)
           despues == SubSeq(s, i+1, Len(s))
<1>1. antes \in Seq(S) /\ Len(antes) = i - 1 /\ \A j \in 1..(i-1) : antes[j] = s[j]
  OBVIOUS
<1>2. /\ despues \in Seq(S) /\ Len(despues) = Len(s) - i
      /\ \A j \in 1..(Len(s)-i) : despues[j] = s[i+j]
  OBVIOUS
<1>3. RemoveAt(s, i) = antes \o despues
  BY DEF RemoveAt
<1> HIDE DEF antes, despues
<1>4. \A j \in 1..(Len(antes) + Len(despues)) :
        (antes \o despues)[j] = IF j <= Len(antes) THEN antes[j] ELSE despues[j - Len(antes)]
  BY <1>1, <1>2, ConcatProperties
<1>5. SUFFICES ASSUME NEW j \in 1..(Len(s)-1)
               PROVE  (antes \o despues)[j] = IF j < i THEN s[j] ELSE s[j+1]
  BY <1>3
<1>6. Len(s) \in Nat /\ i \in Nat /\ j \in Nat
  OBVIOUS
<1>7. CASE j < i
  BY <1>1, <1>2, <1>4, <1>6, <1>7
<1>8. CASE ~(j < i)
  <2>1. j - Len(antes) \in 1..(Len(s)-i) /\ i + (j - Len(antes)) = j + 1
    BY <1>1, <1>6, <1>8
  <2>2. j \in 1..(Len(antes) + Len(despues)) /\ ~(j <= Len(antes))
    BY <1>1, <1>2, <1>6, <1>8
  <2>3. (antes \o despues)[j] = despues[j - Len(antes)]
    BY <1>4, <2>2
  <2> QED
    BY <1>2, <1>8, <2>1, <2>3
<1> QED
  BY <1>7, <1>8

\* Terms that are all 0 add up to 0.
LEMMA SumaCeros ==
  ASSUME NEW D, IsFiniteSet(D), NEW f, \A x \in D : f[x] = 0
  PROVE  SumFunctionOnSet(f, D) = 0
<1> DEFINE B == {s \in SUBSET D : SumFunctionOnSet(f, s) # 0}
<1> SUFFICES ASSUME B # {} PROVE FALSE
  OBVIOUS
<1>1. B \in SUBSET (SUBSET D)
  OBVIOUS
<1>2. PICK s \in B : \A x \in s : s \ {x} \notin B
  <2> HIDE DEF B
  <2> QED
    BY <1>1, SubconjuntoMinimo
<1>3. s \in SUBSET D /\ SumFunctionOnSet(f, s) # 0
  BY <1>2
<1>4. s # {} /\ IsFiniteSet(s)
  BY <1>3, SumaVacia, FS_Subset
<1>5. PICK c \in s : SumFunctionOnSet(f, s) = f[c] + SumFunctionOnSet(f, s \ {c})
  BY <1>4, SumaPorEleccion
<1>6. SumFunctionOnSet(f, s \ {c}) = 0
  <2>1. s \ {c} \in SUBSET D
    BY <1>3
  <2> QED
    BY <2>1, <1>2
<1> QED
  BY <1>3, <1>5, <1>6

\* The same terms give the same sum.
LEMMA SumaMismos ==
  ASSUME NEW D, IsFiniteSet(D), NEW f, NEW g, \A x \in D : f[x] \in Int /\ g[x] = f[x]
  PROVE  SumFunctionOnSet(f, D) = SumFunctionOnSet(g, D)
<1> DEFINE b == [x \in D |-> x]
<1>1. b \in [D -> D] /\ \A x \in D : b[x] = x
  OBVIOUS
<1> HIDE DEF b
<1> QED
  BY <1>1, SumaIgual

\* One term more.
LEMMA SumaMas ==
  ASSUME NEW D, IsFiniteSet(D), NEW c, c \notin D, NEW f, NEW g,
         \A x \in D : f[x] \in Int /\ g[x] = f[x], g[c] \in Int
  PROVE  SumFunctionOnSet(g, D \cup {c}) = SumFunctionOnSet(f, D) + g[c]
<1> DEFINE E == D \cup {c}
<1>1. IsFiniteSet(E) /\ c \in E /\ E \ {c} = D /\ \A x \in E : g[x] \in Int
  BY FS_AddElement
<1> HIDE DEF E
<1>2. SumFunctionOnSet(g, E) = g[c] + SumFunctionOnSet(g, E \ {c})
  BY <1>1, SumaQuita
<1>3. SumFunctionOnSet(f, D) = SumFunctionOnSet(g, D)
  BY SumaMismos
<1>4. SumFunctionOnSet(f, D) \in Int
  BY SumaEntera
<1>5. SumFunctionOnSet(g, E) = g[c] + SumFunctionOnSet(f, D)
  BY <1>1, <1>2, <1>3
<1>6. SumFunctionOnSet(g, E) = SumFunctionOnSet(f, D) + g[c]
  BY ONLY <1>4, <1>5, g[c] \in Int
<1> QED
  BY <1>6 DEF E

\* What disjoint sets have adds up to what they have together.
LEMMA SumaDeClases ==
  ASSUME NEW D, IsFiniteSet(D), NEW F, IsFiniteSet(F), NEW k \in [D -> SUBSET F],
         \A x, z \in D : x # z => k[x] \cap k[z] = {},
         NEW f, \A x \in D : f[x] = Cardinality(k[x])
  PROVE  SumFunctionOnSet(f, D) = Cardinality(UNION {k[x] : x \in D})
<1> DEFINE De(s) == UNION {k[x] : x \in s}
           B == {s \in SUBSET D : SumFunctionOnSet(f, s) # Cardinality(De(s))}
<1> SUFFICES ASSUME B # {} PROVE FALSE
  OBVIOUS
<1>1. B \in SUBSET (SUBSET D)
  OBVIOUS
<1>2. PICK s \in B : \A x \in s : s \ {x} \notin B
  <2> HIDE DEF B
  <2> QED
    BY <1>1, SubconjuntoMinimo
<1>3. s \in SUBSET D /\ SumFunctionOnSet(f, s) # Cardinality(De(s))
  BY <1>2
<1>4. s # {}
  <2> SUFFICES ASSUME s = {} PROVE FALSE
    OBVIOUS
  <2>1. De(s) = {}
    OBVIOUS
  <2> QED
    BY <1>3, <2>1, SumaVacia, FS_EmptySet
<1>5. PICK c \in s : SumFunctionOnSet(f, s) = f[c] + SumFunctionOnSet(f, s \ {c})
  BY <1>3, <1>4, FS_Subset, SumaPorEleccion
<1>6. SumFunctionOnSet(f, s \ {c}) = Cardinality(De(s \ {c}))
  <2>1. s \ {c} \in SUBSET D
    BY <1>3
  <2> QED
    BY <2>1, <1>2
<1>7. f[c] = Cardinality(De({c}))
  <2>1. De({c}) = k[c]
    OBVIOUS
  <2> QED
    BY <1>3, <2>1
<1>8. De(s) = De({c}) \cup De(s \ {c}) /\ De({c}) \cap De(s \ {c}) = {}
  <2>1. De({c}) = k[c] /\ c \in D
    BY <1>3
  <2>2. \A x \in s \ {c} : k[c] \cap k[x] = {}
    BY <1>3, <2>1
  <2> QED
    BY <2>1, <2>2
<1>9. \A t \in SUBSET D : IsFiniteSet(De(t)) /\ Cardinality(De(t)) \in Nat
  <2>1. \A t \in SUBSET D : De(t) \in SUBSET F
    OBVIOUS
  <2> HIDE DEF De
  <2> QED
    BY <2>1, FS_Subset, FS_CardinalityType
<1>a. {c} \in SUBSET D /\ s \ {c} \in SUBSET D
  BY <1>3
<1> HIDE DEF De, B
<1>10. Cardinality(De(s)) = Cardinality(De({c})) + Cardinality(De(s \ {c})) - Cardinality({})
  <2>1. IsFiniteSet(De({c})) /\ IsFiniteSet(De(s \ {c}))
    BY <1>9, <1>a
  <2>2. Cardinality(De({c}) \cup De(s \ {c}))
          = Cardinality(De({c})) + Cardinality(De(s \ {c})) - Cardinality(De({c}) \cap De(s \ {c}))
    BY ONLY <2>1, FS_Union
  <2> QED
    BY ONLY <1>8, <2>2
<1>11. Cardinality({}) = 0
  BY FS_EmptySet
<1> QED
  BY <1>3, <1>5, <1>6, <1>7, <1>9, <1>10, <1>11, <1>a

-----------------------------------------------------------------------------
(* Sequences of sequences, one after the other.                            *)

\* What holds of 0, and of each number up to n when it holds of the one before, holds up to n.
LEMMA HastaN ==
  ASSUME NEW n \in Nat, NEW B \in SUBSET (0..n), 0 \in B,
         \A k \in 1..n : k - 1 \in B => k \in B
  PROVE  B = 0..n
<1> DEFINE Malos == (0..n) \ B
<1> SUFFICES ASSUME Malos # {} PROVE FALSE
  OBVIOUS
<1>1. Malos \in SUBSET Nat
  OBVIOUS
<1>2. PICK k \in Malos : \A j \in Malos : k =< j
  <2> HIDE DEF Malos
  <2> QED
    BY <1>1, MinimoDeNaturales
<1>3. k \in 1..n /\ k - 1 \in 0..n /\ ~(k =< k - 1)
  BY <1>2
<1>4. k - 1 \in B
  BY <1>2, <1>3
<1> QED
  BY <1>2, <1>3, <1>4

\* The recursion of FlattenSeq.
Uniendo(s, f) == f = [i \in 1..Len(s) |-> IF i = 1 THEN s[1] ELSE f[i-1] \o s[i]]

LEMMA UnionHasta ==
  ASSUME NEW s, Len(s) \in Nat, NEW n \in Nat, n <= Len(s)
  PROVE  \E f : f = [i \in 1..n |-> IF i = 1 THEN s[1] ELSE f[i-1] \o s[i]]
<1> DEFINE Paso(f, i) == IF i = 1 THEN s[1] ELSE f[i-1] \o s[i]
           Bien(k, f) == f = [i \in 1..k |-> Paso(f, i)]
           Hay(k) == \E f : Bien(k, f)
           B == {k \in 0..n : Hay(k)}
<1>1. Hay(0)
  <2> DEFINE f == [i \in 1..0 |-> s[1]]
  <2>1. f = [i \in 1..0 |-> Paso(f, i)]
    OBVIOUS
  <2>2. Bien(0, f)
    BY <2>1
  <2> HIDE DEF f, Bien
  <2> QED
    BY <2>2
<1>2. ASSUME NEW k \in 1..n, Hay(k - 1) PROVE Hay(k)
  <2>1. PICK f : Bien(k - 1, f)
    BY <1>2
  <2>2. f = [i \in 1..(k-1) |-> Paso(f, i)]
    BY <2>1
  <2> DEFINE g == [i \in 1..k |-> Paso(f, i)]
  <2>3. ASSUME NEW i \in 1..k PROVE Paso(f, i) = Paso(g, i)
    <3>1. CASE i = 1
      BY <3>1
    <3>2. CASE i # 1
      <4>1. i - 1 \in 1..(k-1) /\ i - 1 \in 1..k
        BY <3>2
      <4>2. f[i-1] = Paso(f, i-1) /\ g[i-1] = Paso(f, i-1)
        BY <4>1, <2>2
      <4> QED
        BY <3>2, <4>2
    <3> QED
      BY <3>1, <3>2
  <2>4. Bien(k, g)
    BY <2>3
  <2> HIDE DEF Bien, g
  <2> QED
    BY <2>4
<1> HIDE DEF Hay
<1>3. B = 0..n
  <2>1. B \in SUBSET (0..n) /\ 0 \in B
    BY <1>1
  <2>2. ASSUME NEW k \in 1..n, k - 1 \in B PROVE k \in B
    BY <1>2, <2>2
  <2> HIDE DEF B
  <2> QED
    BY <2>1, <2>2, HastaN
<1>4. Hay(n)
  <2>1. n \in B
    BY <1>3
  <2> QED
    BY <2>1
<1>5. PICK f : Bien(n, f)
  BY <1>4 DEF Hay
<1> QED
  BY <1>5

\* FlattenSeq joins the sequences one by one.
LEMMA AplanarEs ==
  ASSUME NEW S, NEW s \in Seq(Seq(S)), s # <<>>
  PROVE  \E f \in [1..Len(s) -> Seq(S)] :
           /\ f[1] = s[1] /\ FlattenSeq(s) = f[Len(s)]
           /\ \A i \in 2..Len(s) : f[i] = f[i-1] \o s[i]
<1>1. Len(s) \in Nat /\ Len(s) # 0 /\ Len(s) >= 1
  OBVIOUS
<1>2. PICK f : f = (CHOOSE g : Uniendo(s, g))
  OBVIOUS
<1>3. \E g : Uniendo(s, g)
  <2>0. Len(s) <= Len(s)
    BY <1>1
  <2>1. \E f1 : f1 = [i \in 1..Len(s) |-> IF i = 1 THEN s[1] ELSE f1[i-1] \o s[i]]
    BY ONLY <1>1, <2>0, UnionHasta
  <2> QED
    BY <2>1 DEF Uniendo
<1>4. Uniendo(s, f)
  BY <1>2, <1>3
<1>5. FlattenSeq(s) = f[Len(s)]
  <2>1. FlattenSeq(s) = (CHOOSE g : g = [i \in 1..Len(s) |->
                            IF i = 1 THEN s[i] ELSE g[i-1] \o s[i]])[Len(s)]
    BY <1>1 DEF FlattenSeq
  <2>2. \A g : [i \in 1..Len(s) |-> IF i = 1 THEN s[i] ELSE g[i-1] \o s[i]]
               = [i \in 1..Len(s) |-> IF i = 1 THEN s[1] ELSE g[i-1] \o s[i]]
    OBVIOUS
  <2>3. (CHOOSE g : g = [i \in 1..Len(s) |-> IF i = 1 THEN s[i] ELSE g[i-1] \o s[i]])
          = (CHOOSE g : Uniendo(s, g))
    BY <2>2 DEF Uniendo
  <2> QED
    BY <1>2, <2>1, <2>3
<1>6. \A i \in 1..Len(s) : f[i] = IF i = 1 THEN s[1] ELSE f[i-1] \o s[i]
  BY <1>4 DEF Uniendo
<1>7. \A i \in 1..Len(s) : s[i] \in Seq(S)
  OBVIOUS
<1>8. \A i \in 1..Len(s) : f[i] \in Seq(S)
  <2> DEFINE B == {k \in 0..Len(s) : k = 0 \/ f[k] \in Seq(S)}
  <2>1. 0 \in B /\ B \in SUBSET (0..Len(s))
    BY <1>1
  <2>2. ASSUME NEW k \in 1..Len(s), k - 1 \in B PROVE k \in B
    <3>1. CASE k = 1
      BY <3>1, <1>6, <1>7
    <3>2. CASE k # 1
      <4>0. k - 1 # 0 /\ k - 1 \in B
        BY <3>2, <2>2
      <4>1. f[k-1] \in Seq(S)
        BY <4>0
      <4>3. f[k] = f[k-1] \o s[k] /\ s[k] \in Seq(S)
        BY <3>2, <1>6, <1>7
      <4>2. f[k] \in Seq(S)
        BY <4>1, <4>3, ConcatProperties
      <4> QED
        BY <4>2
    <3> QED
      BY <3>1, <3>2
  <2>3. B = 0..Len(s)
    <3> HIDE DEF B
    <3> QED
      BY <1>1, <2>1, <2>2, HastaN
  <2> QED
    BY <2>3
<1>9. DOMAIN f = 1..Len(s)
  BY <1>4 DEF Uniendo
<1>10. f \in [1..Len(s) -> Seq(S)]
  BY <1>4, <1>8 DEF Uniendo
<1>11. 1 \in 1..Len(s) /\ \A i \in 2..Len(s) : i \in 1..Len(s) /\ i # 1
  BY <1>1
<1> QED
  BY <1>5, <1>6, <1>10, <1>11

\* Where each sequence starts in the one that joins them.
LEMMA AplanarLugares ==
  ASSUME NEW S, NEW s \in Seq(Seq(S))
  PROVE  /\ FlattenSeq(s) \in Seq(S)
         /\ \E ini \in [0..Len(s) -> Nat] :
              /\ ini[0] = 0 /\ ini[Len(s)] = Len(FlattenSeq(s))
              /\ \A i \in 1..Len(s) :
                   /\ ini[i] = ini[i-1] + Len(s[i])
                   /\ \A j \in 1..Len(s[i]) :
                        /\ ini[i-1] + j \in 1..Len(FlattenSeq(s))
                        /\ FlattenSeq(s)[ini[i-1] + j] = s[i][j]
<1> DEFINE n == Len(s)
<1>1. n \in Nat
  OBVIOUS
<1>2. CASE s = <<>>
  <2>1. n = 0 /\ FlattenSeq(s) = s
    BY <1>2 DEF FlattenSeq
  <2> DEFINE ini == [k \in 0..0 |-> 0]
  <2>2. ini \in [0..0 -> Nat] /\ ini[0] = 0
    OBVIOUS
  <2>3. s \in Seq(S) /\ \A i \in 1..0 : FALSE
    BY <1>2
  <2> HIDE DEF ini
  <2> QED
    BY <2>1, <2>2, <2>3
<1>3. CASE s # <<>>
  <2>1. PICK f \in [1..n -> Seq(S)] :
           /\ f[1] = s[1] /\ FlattenSeq(s) = f[n]
           /\ \A i \in 2..n : f[i] = f[i-1] \o s[i]
    BY <1>3, AplanarEs
  <2>2. n >= 1 /\ \A i \in 1..n : s[i] \in Seq(S) /\ f[i] \in Seq(S)
    <3>1. n >= 1
      BY <1>3
    <3>2. \A i \in 1..n : s[i] \in Seq(S)
      OBVIOUS
    <3>3. \A i \in 1..n : f[i] \in Seq(S)
      OBVIOUS
    <3> QED
      BY <3>1, <3>2, <3>3
  <2> DEFINE w == FlattenSeq(s)
             ini == [k \in 0..n |-> IF k = 0 THEN 0 ELSE Len(f[k])]
  <2>3. w = f[n] /\ w \in Seq(S)
    BY <2>1, <2>2
  <2>4. ini \in [0..n -> Nat] /\ ini[0] = 0 /\ \A k \in 1..n : ini[k] = Len(f[k])
    <3>1. \A k \in 0..n : k # 0 => k \in 1..n
      OBVIOUS
    <3>2. \A k \in 0..n : (IF k = 0 THEN 0 ELSE Len(f[k])) \in Nat
      BY <2>2, <3>1
    <3> QED
      BY <3>2, <1>1
  <2>5. ASSUME NEW i \in 1..n
        PROVE  /\ Len(f[i]) = ini[i-1] + Len(s[i])
               /\ \A j \in 1..Len(s[i]) : f[i][ini[i-1] + j] = s[i][j]
               /\ i # 1 => \A j \in 1..Len(f[i-1]) : f[i][j] = f[i-1][j]
    <3>1. CASE i = 1
      <4>1. f[i] = s[i] /\ ini[i-1] = 0 /\ s[i] \in Seq(S)
        BY <3>1, <2>1, <2>2, <2>4
      <4>2. Len(s[i]) \in Nat /\ \A j \in 1..Len(s[i]) : 0 + j = j
        BY <4>1
      <4> QED
        BY <3>1, <4>1, <4>2
    <3>2. CASE i # 1
      <4>1. i \in 2..n /\ i - 1 \in 1..n /\ s[i] \in Seq(S) /\ f[i-1] \in Seq(S)
        BY <3>2, <2>2
      <4>2. f[i] = f[i-1] \o s[i] /\ ini[i-1] = Len(f[i-1])
        BY <2>1, <2>4, <4>1
      <4> HIDE DEF ini
      <4>3. PICK a \in Seq(S) : a = f[i-1]
        BY <4>1
      <4>4. PICK b \in Seq(S) : b = s[i]
        BY <4>1
      <4>5. /\ Len(a \o b) = Len(a) + Len(b)
            /\ \A j \in 1..Len(b) : (a \o b)[Len(a) + j] = b[j]
            /\ \A j \in 1..Len(a) : (a \o b)[j] = a[j]
        OBVIOUS
      <4> QED
        BY ONLY <4>2, <4>3, <4>4, <4>5
    <3> QED
      BY <3>1, <3>2
  <2> HIDE DEF ini
  <2>6. \A i \in 1..n : \A k \in i..n : /\ Len(f[i]) <= Len(f[k])
                                       /\ \A j \in 1..Len(f[i]) : f[k][j] = f[i][j]
    <3> SUFFICES ASSUME NEW i \in 1..n
                 PROVE  \A k \in i..n : /\ Len(f[i]) <= Len(f[k])
                                        /\ \A j \in 1..Len(f[i]) : f[k][j] = f[i][j]
      OBVIOUS
    <3> DEFINE Bien(k) == /\ Len(f[i]) <= Len(f[k])
                          /\ \A j \in 1..Len(f[i]) : f[k][j] = f[i][j]
               B == {k \in 0..n : k >= i => Bien(k)}
    <3>1. 0 \in B /\ B \in SUBSET (0..n)
      BY <1>1
    <3>2. ASSUME NEW k \in 1..n, k - 1 \in B PROVE k \in B
      <4>1. CASE k < i
        BY <4>1
      <4>2. CASE k = i
        <5>1. Len(f[i]) <= Len(f[k])
          BY <4>2, <2>2
        <5> QED
          BY <4>2, <5>1
      <4>3. CASE k > i
        <5>1. k - 1 >= i /\ k # 1 /\ k - 1 \in 1..n
          BY <4>3
        <5>2. Bien(k - 1)
          BY <5>1, <3>2
        <5>3. Len(f[k]) = Len(f[k-1]) + Len(s[k]) /\ \A j \in 1..Len(f[k-1]) : f[k][j] = f[k-1][j]
          BY <2>4, <2>5, <5>1
        <5>4. Len(f[k]) \in Nat /\ Len(f[k-1]) \in Nat /\ Len(s[k]) \in Nat /\ Len(f[i]) \in Nat
          BY <2>2, <5>1
        <5>5. \A j \in 1..Len(f[i]) : j \in 1..Len(f[k-1])
          BY <5>2, <5>4
        <5>6. Len(f[i]) <= Len(f[k])
          <6>1. Len(f[i]) <= Len(f[k-1])
            BY <5>2
          <6>2. Len(f[k]) = Len(f[k-1]) + Len(s[k])
            BY <5>3
          <6>3. \A x, y, z, u \in Nat : u <= y /\ x = y + z => u <= x
            OBVIOUS
          <6> QED
            BY ONLY <6>1, <6>2, <6>3, <5>4
        <5>7. \A j \in 1..Len(f[i]) : f[k][j] = f[i][j]
          BY <5>2, <5>3, <5>5
        <5> QED
          BY <5>6, <5>7
      <4> QED
        BY <4>1, <4>2, <4>3
    <3>3. B = 0..n
      <4> HIDE DEF B
      <4> QED
        BY <1>1, <3>1, <3>2, HastaN
    <3>4. \A k \in i..n : k \in 0..n /\ k >= i
      OBVIOUS
    <3> QED
      BY <3>3, <3>4
  <2>7. ASSUME NEW i \in 1..n
        PROVE  /\ ini[i] = ini[i-1] + Len(s[i])
               /\ \A j \in 1..Len(s[i]) : ini[i-1] + j \in 1..Len(w) /\ w[ini[i-1] + j] = s[i][j]
    <3>1. ini[i] = Len(f[i]) /\ Len(f[i]) = ini[i-1] + Len(s[i])
      BY <2>4, <2>5
    <3>2. n \in i..n
      BY <1>1
    <3>3. Len(f[i]) <= Len(w) /\ \A j \in 1..Len(f[i]) : w[j] = f[i][j]
      BY <2>3, <2>6, <3>2
    <3>4. i - 1 \in 0..n /\ ini[i-1] \in Nat /\ Len(s[i]) \in Nat /\ Len(w) \in Nat
      BY <2>2, <2>3, <2>4
    <3>5. ASSUME NEW j \in 1..Len(s[i])
          PROVE  ini[i-1] + j \in 1..Len(w) /\ w[ini[i-1] + j] = s[i][j]
      <4>1. ini[i-1] + j \in 1..Len(f[i]) /\ ini[i-1] + j \in 1..Len(w)
        BY <3>1, <3>3, <3>4
      <4>2. f[i][ini[i-1] + j] = s[i][j]
        BY <2>5
      <4> QED
        BY <3>3, <4>1, <4>2
    <3> QED
      BY <3>1, <3>5
  <2>8. ini[n] = Len(w)
    <3>1. n \in 1..n
      BY <2>2
    <3> QED
      BY <2>3, <2>4, <3>1
  <2> HIDE DEF w
  <2> QED
    BY <2>3, <2>4, <2>7, <2>8 DEF w
<1> QED
  BY <1>2, <1>3

\* A sum over places, with one place more.
LEMMA SumaUltimo ==
  ASSUME NEW n \in Nat, NEW f, \A i \in 1..(n+1) : f[i] \in Int
  PROVE  SumFunctionOnSet(f, 1..(n+1)) = SumFunctionOnSet(f, 1..n) + f[n+1]
<1> DEFINE D == 1..n
<1>1. IsFiniteSet(D) /\ n + 1 \notin D /\ D \cup {n+1} = 1..(n+1)
  <2>1. IsFiniteSet(D)
    BY FS_Interval
  <2> QED
    BY <2>1
<1>2. (\A x \in D : f[x] \in Int) /\ f[n+1] \in Int
  OBVIOUS
<1> HIDE DEF D
<1>3. SumFunctionOnSet(f, D \cup {n+1}) = SumFunctionOnSet(f, D) + f[n+1]
  <2>1. \A x \in D : f[x] \in Int /\ f[x] = f[x]
    BY <1>2
  <2> QED
    BY ONLY <1>1, <1>2, <2>1, SumaMas
<1> QED
  BY <1>1, <1>3 DEF D

\* A sum over places is that of the first ones and that of the rest.
LEMMA SumaPartida ==
  ASSUME NEW n \in Nat, NEW m \in Nat, NEW f, \A i \in 1..(n+m) : f[i] \in Int,
         NEW g, \A i \in 1..m : g[i] = f[n+i]
  PROVE  SumFunctionOnSet(f, 1..(n+m)) = SumFunctionOnSet(f, 1..n) + SumFunctionOnSet(g, 1..m)
<1> DEFINE Sf(k) == SumFunctionOnSet(f, 1..k)
           Sg(k) == SumFunctionOnSet(g, 1..k)
           B == {k \in 0..m : Sf(n+k) = Sf(n) + Sg(k)}
<1>1. \A k \in 0..m : Sf(k) \in Int /\ Sg(k) \in Int /\ Sf(n) \in Int
  <2>1. ASSUME NEW k \in 0..m PROVE Sg(k) \in Int
    <3>1. IsFiniteSet(1..k) /\ \A i \in 1..k : g[i] \in Int
      <4>1. IsFiniteSet(1..k)
        BY FS_Interval
      <4>2. ASSUME NEW i \in 1..k PROVE g[i] \in Int
        <5>1. i \in 1..m /\ n + i \in 1..(n+m)
          OBVIOUS
        <5> QED
          BY <5>1
      <4> QED
        BY <4>1, <4>2
    <3> QED
      BY <3>1, SumaEntera
  <2>2. ASSUME NEW k \in 0..(n+m) PROVE Sf(k) \in Int
    <3>1. IsFiniteSet(1..k) /\ \A i \in 1..k : f[i] \in Int
      <4>1. IsFiniteSet(1..k)
        BY FS_Interval
      <4>2. \A i \in 1..k : i \in 1..(n+m)
        OBVIOUS
      <4> QED
        BY <4>1, <4>2
    <3> QED
      BY <3>1, SumaEntera
  <2>3. n \in 0..(n+m) /\ \A k \in 0..m : k \in 0..(n+m)
    OBVIOUS
  <2> HIDE DEF Sf, Sg
  <2> QED
    BY <2>1, <2>2, <2>3
<1>2. 0 \in B
  <2>1. Sg(0) = 0
    <3>1. 1..0 = {}
      OBVIOUS
    <3> QED
      BY <3>1, SumaVacia
  <2>2. n + 0 = n /\ 0 \in 0..m
    OBVIOUS
  <2> HIDE DEF Sf, Sg
  <2>3. Sf(n) \in Int
    BY <1>1, <2>2
  <2> QED
    BY <2>1, <2>2, <2>3
<1>3. ASSUME NEW k \in 1..m, k - 1 \in B PROVE k \in B
  <2>1. Sf(n+k) = Sf(n+(k-1)) + f[n+k]
    <3>1. n + (k-1) \in Nat /\ (n + (k-1)) + 1 = n + k /\ \A i \in 1..(n+k) : i \in 1..(n+m)
      OBVIOUS
    <3>2. \A i \in 1..(n+k) : f[i] \in Int
      BY <3>1
    <3> QED
      BY <3>1, <3>2, SumaUltimo
  <2>2. Sg(k) = Sg(k-1) + f[n+k]
    <3>1. k - 1 \in Nat /\ (k - 1) + 1 = k /\ \A i \in 1..k : i \in 1..m /\ n + i \in 1..(n+m)
      OBVIOUS
    <3>2. (\A i \in 1..k : g[i] \in Int) /\ g[k] = f[n+k]
      BY <3>1
    <3> QED
      BY <3>1, <3>2, SumaUltimo
  <2>3. Sf(n+(k-1)) = Sf(n) + Sg(k-1)
    BY <1>3
  <2>4. Sf(n) \in Int /\ Sg(k-1) \in Int /\ f[n+k] \in Int
    <3>1. k - 1 \in 0..m /\ n + k \in 1..(n+m)
      OBVIOUS
    <3> HIDE DEF Sf, Sg
    <3> QED
      BY <3>1, <1>1
  <2> HIDE DEF Sf, Sg
  <2>5. Sf(n+k) = Sf(n) + Sg(k)
    BY ONLY <2>1, <2>2, <2>3, <2>4
  <2> QED
    BY <2>5
<1>4. B = 0..m
  <2>1. B \in SUBSET (0..m)
    OBVIOUS
  <2> HIDE DEF B
  <2> QED
    BY <1>2, <1>3, <2>1, HastaN
<1>5. m \in B
  BY <1>4
<1> QED
  BY <1>5

\* As many terms as n, all the same.
LEMMA SumaConstante ==
  ASSUME NEW n \in Nat, NEW c \in Int, NEW f, \A i \in 1..n : f[i] = c
  PROVE  SumFunctionOnSet(f, 1..n) = n * c
<1> DEFINE Sf(k) == SumFunctionOnSet(f, 1..k)
           B == {k \in 0..n : Sf(k) = k * c}
<1>1. 0 \in B
  <2>1. 1..0 = {} /\ 0 * c = 0
    OBVIOUS
  <2> QED
    BY <2>1, SumaVacia
<1>2. ASSUME NEW k \in 1..n, k - 1 \in B PROVE k \in B
  <2>1. Sf(k) = Sf(k-1) + f[k]
    <3>1. k - 1 \in Nat /\ (k - 1) + 1 = k /\ \A i \in 1..k : i \in 1..n
      OBVIOUS
    <3>2. \A i \in 1..k : f[i] \in Int
      BY <3>1
    <3> QED
      BY <3>1, <3>2, SumaUltimo
  <2>2. Sf(k-1) = (k-1) * c /\ f[k] = c
    BY <1>2
  <2>3. (k-1) * c + c = k * c
    OBVIOUS
  <2> HIDE DEF Sf
  <2> QED
    BY <2>1, <2>2, <2>3
<1>3. B = 0..n
  <2>1. B \in SUBSET (0..n)
    OBVIOUS
  <2> HIDE DEF B
  <2> QED
    BY <1>1, <1>2, <2>1, HastaN
<1>4. n \in B
  BY <1>3
<1> QED
  BY <1>4

\* The places of two sequences put together.
LEMMA Pegar ==
  ASSUME NEW S, NEW a \in Seq(S), NEW b \in Seq(S)
  PROVE  /\ a \o b \in Seq(S) /\ Len(a \o b) = Len(a) + Len(b)
         /\ \A i \in 1..Len(a) : (a \o b)[i] = a[i]
         /\ \A i \in 1..Len(b) : (a \o b)[Len(a) + i] = b[i]
OBVIOUS

\* Pairs joined.
LEMMA AplanarPares ==
  ASSUME NEW S, NEW s \in Seq(Seq(S)), \A i \in 1..Len(s) : Len(s[i]) = 2
  PROVE  /\ FlattenSeq(s) \in Seq(S) /\ Len(FlattenSeq(s)) = 2 * Len(s)
         /\ \A i \in 1..Len(s) : /\ FlattenSeq(s)[2 * i - 1] = s[i][1]
                                 /\ FlattenSeq(s)[2 * i] = s[i][2]
<1> DEFINE n == Len(s)
           w == FlattenSeq(s)
<1>1. n \in Nat
  OBVIOUS
<1>2. PICK ini \in [0..n -> Nat] :
        /\ ini[0] = 0 /\ ini[n] = Len(w)
        /\ \A i \in 1..n :
             /\ ini[i] = ini[i-1] + Len(s[i])
             /\ \A j \in 1..Len(s[i]) : /\ ini[i-1] + j \in 1..Len(w)
                                        /\ w[ini[i-1] + j] = s[i][j]
  BY AplanarLugares
<1>3. w \in Seq(S)
  BY AplanarLugares
<1> HIDE DEF w
<1> DEFINE B == {k \in 0..n : ini[k] = 2 * k}
<1>4. B = 0..n
  <2>1. B \in SUBSET (0..n) /\ 0 \in B
    BY <1>1, <1>2
  <2>2. ASSUME NEW k \in 1..n, k - 1 \in B PROVE k \in B
    <3>1. ini[k] = ini[k-1] + 2 /\ ini[k-1] = 2 * (k-1)
      BY <1>2, <2>2
    <3>2. ini[k] = 2 * k
      BY <3>1
    <3> QED
      BY <3>2
  <2> HIDE DEF B
  <2> QED
    BY <1>1, <2>1, <2>2, HastaN
<1>5. ASSUME NEW i \in 1..n PROVE w[2 * i - 1] = s[i][1] /\ w[2 * i] = s[i][2]
  <2>1. i - 1 \in 0..n
    OBVIOUS
  <2>2. ini[i-1] = 2 * (i-1)
    BY <1>4, <2>1
  <2>3. ini[i-1] + 1 = 2 * i - 1 /\ ini[i-1] + 2 = 2 * i
    BY <2>2
  <2>4. 1 \in 1..Len(s[i]) /\ 2 \in 1..Len(s[i])
    <3>1. Len(s[i]) = 2
      OBVIOUS
    <3> QED
      BY ONLY <3>1
  <2> QED
    BY <1>2, <2>3, <2>4
<1>6. ini[n] = 2 * n
  <2>1. n \in 0..n
    BY <1>1
  <2> QED
    BY <1>4, <2>1
<1> QED
  BY <1>2, <1>3, <1>5, <1>6 DEF w
=============================================================================
