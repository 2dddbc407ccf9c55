------------------------------- MODULE MCPull -------------------------------
(* Graphs of chunks for Pull: two or three commits, in a line or in a fork, over   *)
(* values that are written in chunks of their own, some of them shared.           *)
EXTENDS Pull

Graph(refs, commits, parents) ==
    [refs |-> refs, commits |-> commits,
     parents |-> [h \in Hash |-> IF h \in commits THEN parents[h] ELSE {}]]

\* 1, 2: chunks of values; 3, 4, 5: commits.
MCGraphs ==
    {Graph(<<{}, {1}, {1}, {3, 2}, {4, 1}>>, {3, 4, 5}, <<{}, {}, {}, {3}, {4}>>),
     Graph(<<{}, {}, {1}, {3, 2}, {3, 1}>>, {3, 4, 5}, <<{}, {}, {}, {3}, {3}>>),
     Graph(<<{}, {1}, {2}, {2}, {3, 4}>>, {3, 4, 5}, <<{}, {}, {}, {}, {3, 4}>>),
     Graph(<<{}, {1}, {2, 1}, {}, {4, 3}>>, {4, 5}, <<{}, {}, {}, {}, {4}>>)}
=============================================================================
