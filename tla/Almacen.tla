------------------------------- MODULE Almacen -------------------------------
(***************************************************************************)
(* What files promise, without blocks or a bitmap: a file is a row of      *)
(* bytes; what is read at a position is what was written there last, and   *)
(* whatever happens to the other files leaves it alone.                    *)
(*                                                                         *)
(* Of a position in doubt nothing is promised.  A write puts in doubt, of  *)
(* its own file only, positions past the block of its cursor.              *)
(***************************************************************************)
EXTENDS Integers, Sequences

CONSTANTS Rutas, TamBloque, Cursores, Datos, SinValor

VARIABLES contenido,     \* of the files that exist, byte by byte
          dudosas,       \* positions in doubt
          respuesta

varsAlmacen == <<contenido, dudosas, respuesta>>

Hay == DOMAIN contenido
Firme(r, p) == p \in DOMAIN contenido[r] \ (dudosas[r] \cup dudosas'[r])

\* What was written stays; what never was may get any value.
Conserva(r, salvo) ==
  /\ DOMAIN contenido[r] \subseteq DOMAIN contenido'[r]
  /\ \A p \in DOMAIN contenido[r] \ salvo :
       Firme(r, p) /\ contenido[r][p] # SinValor => contenido'[r][p] = contenido[r][p]

Intacto(r) ==
  /\ DOMAIN contenido'[r] = DOMAIN contenido[r]
  /\ dudosas'[r] \subseteq dudosas[r]
  /\ Conserva(r, {})

LosDemas(r) == \A q \in Hay \ {r} : Intacto(q)

InitAlmacen == contenido = <<>> /\ dudosas = <<>> /\ respuesta = [tipo |-> "nada"]

Crear(r) ==
  /\ respuesta' = [tipo |-> "hecho"]
  /\ r \notin Hay
  /\ DOMAIN contenido' = Hay \cup {r}
  /\ DOMAIN contenido'[r] = 0..(TamBloque - 1)
  /\ LosDemas(r)

Borrar(r) ==
  /\ respuesta' = [tipo |-> "hecho"]
  /\ r \in Hay
  /\ DOMAIN contenido' = Hay \ {r}
  /\ LosDemas(r)

Guardar(r, cursor, datos) ==
  LET escritas == cursor..(cursor + Len(datos) - 1) IN
  /\ respuesta' = [tipo |-> "hecho"]
  /\ r \in Hay /\ DOMAIN contenido' = Hay
  /\ escritas \subseteq DOMAIN contenido'[r]
  /\ \A p \in escritas \ dudosas'[r] : contenido'[r][p] = datos[p - cursor + 1]
  /\ Conserva(r, escritas)
  /\ \A p \in dudosas'[r] \ dudosas[r] : p \div TamBloque > cursor \div TamBloque
  /\ LosDemas(r)

\* A cursor past the first block of the file reads elsewhere.
Leer(r) ==
  /\ respuesta'.tipo = "datos" /\ respuesta'.ruta = r
  /\ r \in Hay /\ UNCHANGED <<contenido, dudosas>>
  /\ respuesta'.cursor < TamBloque =>
       \A i \in DOMAIN respuesta'.datos :
         LET p == respuesta'.cursor + i - 1 IN
         /\ p \in DOMAIN contenido[r]
         /\ Firme(r, p) /\ contenido[r][p] # SinValor => respuesta'.datos[i] = contenido[r][p]

Rechazar ==
  /\ respuesta' = [tipo |-> "error"]
  /\ UNCHANGED <<contenido, dudosas>>

Reiniciar ==
  /\ respuesta' = [tipo |-> "nada"]
  /\ DOMAIN contenido' = Hay
  /\ \A r \in Hay : Intacto(r)

NextAlmacen ==
  \/ \E r \in Rutas : Crear(r) \/ Borrar(r) \/ Leer(r)
  \/ \E r \in Rutas, c \in Cursores, d \in Datos : Guardar(r, c, d)
  \/ Rechazar \/ Reiniciar

SpecAlmacen == InitAlmacen /\ [][NextAlmacen]_varsAlmacen
=============================================================================
