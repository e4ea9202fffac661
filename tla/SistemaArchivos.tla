--------------------------- MODULE SistemaArchivos ---------------------------
(***************************************************************************)
(* The FileSystem process (FS/src): files of bytes in blocks of one size,  *)
(* a metadata file with the blocks of each file, a bitmap.  One thread     *)
(* serves one socket, that of the Kernel, so a step is a whole request.    *)
(* Blocks, the metadata and the bitmap (a shared mapping) outlive the      *)
(* process.                                                                *)
(*                                                                         *)
(* What a request writes to the blocks a file has already, past that of    *)
(* the cursor, stays in a stream that nobody closes: it reaches the block  *)
(* when the process ends, if it does.                                      *)
(***************************************************************************)
EXTENDS Integers, Sequences, FiniteSets, SequencesExt

CONSTANTS
  RutasFS,
  TamBloque,       \* config_tamanioBloques
  CantBloques,     \* config_cantidadBloques
  Bytes,
  Cero,            \* what the hole has that a seek past the end leaves
  Basura,          \* memory without a value
  Cursores,        \* positions that programs read and write at
  Tamanios,        \* sizes that they read
  Datos,           \* what they write
  MaxSinCerrar     \* bound: streams left open

ASSUME SistemaAssumption ==
  /\ TamBloque \in Nat \ {0} /\ CantBloques \in Nat
  /\ Cursores \subseteq Nat /\ Tamanios \subseteq Nat \ {0}
  /\ Datos \subseteq Seq(Bytes) \ {<<>>} /\ MaxSinCerrar \in Nat
  /\ Cero # Basura /\ Cero \notin Bytes /\ Basura \notin Bytes

VARIABLES
  archivos,      \* the metadata files: the blocks of each file, by its path
  bitmap,        \* the blocks that are taken
  bloques,       \* what each block file has, at most TamBloque bytes
  sinCerrar,     \* the streams left open, with what they have not written
  respuesta,     \* what the Kernel was answered
  falloFS          \* why the process fell

varsFS == <<archivos, bitmap, bloques, sinCerrar, respuesta, falloFS>>

NumerosDeBloque == 0..(CantBloques - 1)
Nada    == [tipo |-> "nada"]
Hecho   == [tipo |-> "hecho"]
Error   == [tipo |-> "error"]
Existe(r) == r \in DOMAIN archivos

-----------------------------------------------------------------------------
(* Blocks and positions.  Positions count from 0, as in the code.          *)

\* The block of the position, among those of its file, and where the next starts.
BloqueDe(cursor) == cursor \div TamBloque
FinDeBloque(cursor) == (BloqueDe(cursor) + 1) * TamBloque

\* fseek and fwrite on a block.
Escrito(bloque, desde, datos) ==
  IF datos = <<>> THEN bloque
  ELSE [i \in 1..Max({Len(bloque), desde + Len(datos)}) |->
          IF i \in (desde + 1)..(desde + Len(datos)) THEN datos[i - desde]
          ELSE IF i <= Len(bloque) THEN bloque[i] ELSE Cero]

\* At most n bytes from the position desde of the buffer.
Trozo(datos, desde, n) == SubSeq(datos, desde + 1, Min({desde + n, Len(datos)}))

Desocupados == NumerosDeBloque \ bitmap

PrimerDesocupado == Min(Desocupados)

\* The search that looks for n free blocks stops at this one.
UltimoDe(n) == CHOOSE b \in Desocupados : Cardinality({k \in Desocupados : k <= b}) = n

-----------------------------------------------------------------------------
InitFS ==
  /\ archivos = <<>>
  /\ bitmap = {}
  /\ bloques = [b \in NumerosDeBloque |-> <<>>]
  /\ sinCerrar = <<>>
  /\ respuesta = Nada
  /\ falloFS = "ninguno"

Responder(valor) == respuesta' = valor
CaerFS(motivo) ==
  /\ falloFS' = motivo
  /\ UNCHANGED <<archivos, bitmap, bloques, sinCerrar, respuesta>>

\* What the Kernel is told of a file that does not exist, or does not find room.
Rechazar ==
  /\ Responder(Error)
  /\ UNCHANGED <<archivos, bitmap, bloques, sinCerrar, falloFS>>

-----------------------------------------------------------------------------
\* The Kernel asks for a file that validarArchivo did not find.  The block keeps what
\* it had.
crearArchivo(r) ==
  /\ ~Existe(r)
  /\ \/ /\ Desocupados = {}
        /\ Rechazar
     \/ /\ Desocupados # {}
        /\ bitmap' = bitmap \cup {PrimerDesocupado}
        /\ archivos' = [q \in DOMAIN archivos \cup {r} |->
                          IF q = r THEN <<PrimerDesocupado>> ELSE archivos[q]]
        /\ Responder(Hecho)
        /\ UNCHANGED <<bloques, sinCerrar, falloFS>>

SueltaElPrimero(r) == {archivos[r][1]}
Suelta(r)          == ToSet(archivos[r])

borrarArchivo(r) ==
  \/ ~Existe(r) /\ Rechazar
  \/ /\ Existe(r)
     /\ archivos' = [q \in DOMAIN archivos \ {r} |-> archivos[q]]
     /\ bitmap' = bitmap \ Suelta(r)
     /\ Responder(Hecho)
     /\ UNCHANGED <<bloques, sinCerrar, falloFS>>

-----------------------------------------------------------------------------
(* obtenerDatosArchivo.  The first piece ends where the FIRST block of the *)
(* file would, so what is read is right if the cursor is in it.            *)

DelPrimero(cursor, size) == Min({size, TamBloque - cursor})

\* Counted from the start of the file.
BloquesALeer(cursor, size) == (size + cursor + TamBloque - 1) \div TamBloque

Byte(r, n, desde) ==
  LET b == bloques[archivos[r][n + 1]] IN IF desde < Len(b) THEN b[desde + 1] ELSE Basura

Leido(r, cursor, size) ==
  LET d == BloqueDe(cursor)
      primeros == DelPrimero(cursor, size)
  IN [i \in 1..size |->
        IF i <= primeros THEN Byte(r, d, cursor + i - 1)
        ELSE LET j == i - primeros - 1
             IN Byte(r, d + 1 + j \div TamBloque, j % TamBloque)]

obtenerDatos(r, cursor, size) ==
  \/ ~Existe(r) /\ Rechazar
  \/ /\ Existe(r)
     /\ BloqueDe(cursor) + BloquesALeer(cursor, size) > Len(archivos[r])
     /\ CaerFS("sinBloque")
  \/ /\ Existe(r)
     /\ BloqueDe(cursor) + BloquesALeer(cursor, size) <= Len(archivos[r])
     /\ \/ cursor > TamBloque /\ CaerFS("tamanioNegativo")
        \/ /\ cursor <= TamBloque
           /\ Responder([tipo |-> "datos", ruta |-> r, cursor |-> cursor,
                         datos |-> Leido(r, cursor, size)])
           /\ UNCHANGED <<archivos, bitmap, bloques, sinCerrar, falloFS>>

-----------------------------------------------------------------------------
(* guardarDatosArchivo                                                     *)

\* The position goes on to the block of the cursor even if the file does not.
FueraDelArchivo(r, cursor) == BloqueDe(cursor) >= Len(archivos[r])

EntraEnElBloque(cursor, datos) == cursor + Len(datos) < FinDeBloque(cursor)

TieneBloquesSinCursor(r, cursor, datos) ==
  Len(archivos[r]) * TamBloque > Len(datos)
TieneBloquesSuficientes(r, cursor, datos) ==
  Len(archivos[r]) * TamBloque > cursor + Len(datos)

\* How many blocks to look for, from the bytes that do not fit in that of the cursor.
CuantosMas(falta) == IF falta > TamBloque THEN falta \div TamBloque + 1 ELSE 1

DatosEnElBloque(cursor, datos) == Trozo(datos, 0, FinDeBloque(cursor) - cursor)

EnElBloque(r, cursor, datos) ==
  [bloques EXCEPT ![archivos[r][BloqueDe(cursor) + 1]] =
     Escrito(@, cursor % TamBloque, DatosEnElBloque(cursor, datos))]

\* The blocks of the file past that of the cursor: their streams stay open, those that
\* have bytes to write.
Posteriores(r, cursor) == Len(archivos[r]) - BloqueDe(cursor) - 1

CuantosStreams(r, cursor, datos) ==
  Min({Posteriores(r, cursor),
       (cursor + Len(datos) - FinDeBloque(cursor) + TamBloque - 1) \div TamBloque})

Streams(r, cursor, datos) ==
  [s \in 1..CuantosStreams(r, cursor, datos) |->
     [bloque |-> archivos[r][BloqueDe(cursor) + 1 + s],
      datos  |-> Trozo(datos, FinDeBloque(cursor) - cursor + (s - 1) * TamBloque, TamBloque)]]

\* The new blocks are all the last that the search found, since the list has the
\* address of its counter: each round truncates it and writes the next piece, or the
\* last one again.
EnElNuevo(r, cursor, datos, cuantos) ==
  LET escritos == FinDeBloque(cursor) - cursor + Posteriores(r, cursor) * TamBloque
      restan == Len(datos) - escritos
      rondas == IF restan <= 0 THEN 0 ELSE Min({cuantos - 1, (restan - 1) \div TamBloque})
  IN Trozo(datos, escritos + rondas * TamBloque, TamBloque)

Extender(r, cursor, datos, cuantos) ==
  /\ bloques' = [EnElBloque(r, cursor, datos) EXCEPT
                   ![UltimoDe(cuantos)] = EnElNuevo(r, cursor, datos, cuantos)]
  /\ bitmap' = bitmap \cup {UltimoDe(cuantos)}
  /\ archivos' = [archivos EXCEPT ![r] = @ \o [s \in 1..cuantos |-> UltimoDe(cuantos)]]

EnVarios(r, cursor, datos) ==
  LET cuantos == CuantosMas(cursor + Len(datos) - FinDeBloque(cursor)) IN
  \/ /\ ~TieneBloquesSuficientes(r, cursor, datos)
     /\ Cardinality(Desocupados) < cuantos
     /\ Rechazar
  \/ /\ Len(sinCerrar \o Streams(r, cursor, datos)) <= MaxSinCerrar
     /\ sinCerrar' = sinCerrar \o Streams(r, cursor, datos)
     /\ \/ /\ TieneBloquesSuficientes(r, cursor, datos)
           /\ bloques' = EnElBloque(r, cursor, datos)
           /\ UNCHANGED <<archivos, bitmap>>
        \/ /\ ~TieneBloquesSuficientes(r, cursor, datos)
           /\ Cardinality(Desocupados) >= cuantos
           /\ Extender(r, cursor, datos, cuantos)
     /\ Responder(Hecho)
     /\ UNCHANGED falloFS

guardarDatos(r, cursor, datos) ==
  \/ ~Existe(r) /\ Rechazar
  \/ Existe(r) /\ FueraDelArchivo(r, cursor) /\ CaerFS("sinBloque")
  \/ /\ Existe(r) /\ ~FueraDelArchivo(r, cursor)
     /\ \/ /\ EntraEnElBloque(cursor, datos)
           /\ bloques' = EnElBloque(r, cursor, datos)
           /\ Responder(Hecho)
           /\ UNCHANGED <<archivos, bitmap, sinCerrar, falloFS>>
        \/ ~EntraEnElBloque(cursor, datos) /\ EnVarios(r, cursor, datos)

-----------------------------------------------------------------------------
\* The last stream that was opened is written first: of each byte stays the one of the
\* first stream that reaches it.
Volcado(b) ==
  LET propios   == {k \in DOMAIN sinCerrar : sinCerrar[k].bloque = b}
      Llegan(i) == {k \in propios : i <= Len(sinCerrar[k].datos)}
  IN [i \in 1..Max({Len(bloques[b])} \cup {Len(sinCerrar[k].datos) : k \in propios}) |->
        IF Llegan(i) = {} THEN bloques[b][i] ELSE sinCerrar[Min(Llegan(i))].datos[i]]

Volcados == [b \in NumerosDeBloque |-> Volcado(b)]

\* The order X and the next start.  After X the process still reads the size of a
\* path from the socket it closed: it may fall before the streams are written.
Apagar ==
  /\ \/ bloques' = Volcados
     \/ UNCHANGED bloques
  /\ sinCerrar' = <<>>
  /\ Responder(Nada)
  /\ UNCHANGED <<archivos, bitmap, falloFS>>

\* validarArchivo changes nothing.
connectionHandler ==
  /\ falloFS = "ninguno"
  /\ \/ \E r \in RutasFS : crearArchivo(r) \/ borrarArchivo(r)
     \/ \E r \in RutasFS, c \in Cursores, n \in Tamanios : obtenerDatos(r, c, n)
     \/ \E r \in RutasFS, c \in Cursores, d \in Datos : guardarDatos(r, c, d)
     \/ Apagar

NextFS == connectionHandler
SpecFS == InitFS /\ [][NextFS]_varsFS
=============================================================================
