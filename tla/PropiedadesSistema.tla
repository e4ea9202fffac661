------------------------- MODULE PropiedadesSistema -------------------------
(***************************************************************************)
(* What the blocks, the metadata and the bitmap of the FileSystem must     *)
(* keep, and the mapping to files of bytes.                                *)
(***************************************************************************)
EXTENDS SistemaArchivos

Contenidos == UNION {[1..n -> Bytes \cup {Cero}] : n \in 0..TamBloque}

\* Every variable keeps its type; a block file never grows past the size of a block.
TiposSistema ==
  /\ DOMAIN archivos \subseteq RutasFS
  /\ \A r \in DOMAIN archivos : archivos[r] \in Seq(NumerosDeBloque) \ {<<>>}
  /\ bitmap \subseteq NumerosDeBloque
  /\ bloques \in [NumerosDeBloque -> Contenidos]
  /\ sinCerrar \in Seq([bloque : NumerosDeBloque, datos : Contenidos])
  /\ respuesta.tipo \in {"nada", "hecho", "error", "datos"}
  /\ falloFS \in {"ninguno", "sinBloque", "tamanioNegativo"}

\* The bitmap says of a block that it is taken if and only if it is in a file.
BitmapFiel == bitmap = UNION {ToSet(archivos[r]) : r \in DOMAIN archivos}

\* No block is in two files, also when a request finds fewer new blocks than it lists.
UnDuenio ==
  \A r, q \in DOMAIN archivos : r # q => ToSet(archivos[r]) \cap ToSet(archivos[q]) = {}

\* In one file a block repeats only where one request listed it again and again, never
\* at its start.
RepetidosJuntos ==
  \A r \in DOMAIN archivos : \A i, j \in DOMAIN archivos[r] :
    i < j /\ archivos[r][i] = archivos[r][j] =>
      i > 1 /\ \A k \in i..j : archivos[r][k] = archivos[r][i]

IInvSistema == TiposSistema /\ BitmapFiel /\ UnDuenio /\ RepetidosJuntos

-----------------------------------------------------------------------------
\* A block is in doubt while a stream has not written it, and when the file has it twice.
EnDuda(r, n) ==
  \/ \E s \in ToSet(sinCerrar) : s.bloque = archivos[r][n]
  \/ \E k \in DOMAIN archivos[r] \ {n} : archivos[r][k] = archivos[r][n]

PosicionesDe(r) == 0..(Len(archivos[r]) * TamBloque - 1)

ContenidoDe(r) == [p \in PosicionesDe(r) |-> Byte(r, BloqueDe(p), p % TamBloque)]
DudosasDe(r)   == {p \in PosicionesDe(r) : EnDuda(r, BloqueDe(p) + 1)}

Almacenado == INSTANCE Almacen WITH
  Rutas     <- RutasFS,
  contenido <- [r \in DOMAIN archivos |-> ContenidoDe(r)],
  dudosas   <- [r \in DOMAIN archivos |-> DudosasDe(r)],
  SinValor  <- Basura

\* The FileSystem implements files of bytes: requests and deletions of other files,
\* blocks that pass from one file to another, streams written late and restarts change
\* nothing in a position that is not in doubt, and a refused request changes nothing.
ImplementaAlmacen == Almacenado!SpecAlmacen
=============================================================================
