------------------------------ MODULE MCSistema ------------------------------
(***************************************************************************)
(* Instances of the FileSystem for TLC.                                    *)
(***************************************************************************)
EXTENDS PropiedadesSistema, TLC

CONSTANTS ruta1, ruta2, byte1, byte2

DosRutas == {ruta1, ruta2}
DosBytes == {byte1, byte2}
Textos   == {<<byte1>>, <<byte2, byte1>>, <<byte1, byte2, byte1, byte2>>}
\* No step depends on the answer to the one before.
Vista    == <<archivos, bitmap, bloques, sinCerrar, falloFS>>
Simetria == Permutations(DosRutas)
=============================================================================
