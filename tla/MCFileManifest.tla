--------------------------- MODULE MCFileManifest ---------------------------
(***************************************************************************)
(* Model-checking instances of FileManifest.                               *)
(***************************************************************************)
EXTENDS FileManifest

CONSTANTS Other, v1, v2

\* The clients in Other run another version of Noms.
MCNomsVersion == [p \in Client |-> IF p \in Other THEN v2 ELSE v1]
=============================================================================
