-------------------------- MODULE MCNomsBlockStore --------------------------
(***************************************************************************)
(* Model-checking instances of NomsBlockStore.                             *)
(***************************************************************************)
EXTENDS NomsBlockStore, TLC

CONSTANT c1

\* Every other chunk refers to c1, so a commit of one needs both.
MCReach == [c \in Chunk |-> {c, c1}]

\* One unit of data per chunk.
MCSize == [c \in Chunk |-> 1]

Symmetry == Permutations(Process)
=============================================================================
