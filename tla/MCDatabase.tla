----------------------------- MODULE MCDatabase -----------------------------
(***************************************************************************)
(* Model-checking instances of Database.                                   *)
(***************************************************************************)
EXTENDS Database

CONSTANT Tall

\* The values in Tall are written as chunks of their own, two levels of them.
MCChunkHeight == [v \in Value |-> IF v \in Tall THEN 2 ELSE 0]
=============================================================================
