----------------------------- MODULE MCTableSet -----------------------------
(***************************************************************************)
(* Model-checking instances of TableSet.                                   *)
(***************************************************************************)
EXTENDS TableSet

CONSTANT c1

\* Every other chunk refers to c1.
MCReach == [c \in Chunk |-> {c, c1}]

\* One unit of data per chunk.
MCSize == [c \in Chunk |-> 1]
=============================================================================
