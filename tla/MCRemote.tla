------------------------------ MODULE MCRemote ------------------------------
EXTENDS HTTPBatchStore, TLC

CONSTANTS w, r

\* Chunk 2 refers to chunk 1.
MCRefs == [h \in Hash |-> IF h = 1 THEN {} ELSE {h - 1}]
MCMaxCalls == w :> 3 @@ r :> 1
MCOps == w :> {"WriteValue", "Flush", "Pull", "UpdateRoot"} @@ r :> {"Get", "Has", "Flush"}
=============================================================================
