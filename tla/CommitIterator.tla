--------------------------- MODULE CommitIterator ---------------------------
(* The iterator behind noms log: a walk over the commit graph with one branch for *)
(* every line of history, the highest commit first.  parents[c] are the parents   *)
(* of commit c, in the order their refs have in the commit's set; chunks[c] is the *)
(* height that its value gives its ref.  A branch is the commit at its tip.      *)
EXTENDS SeqFold, SequencesExt

Height(parents, chunks) ==
    LET h[c \in DOMAIN parents] ==
          1 + Foldl(LAMBDA m, p : IF h[p] > m THEN h[p] ELSE m, chunks[c], parents[c])
    IN  h

(* The columns of the highest commit: the first one found and its duplicates. *)
HighestBranchIndexes(bl, height) ==
    LET Step(s, i) ==
          CASE height[bl[i]] > s.max -> [max |-> height[bl[i]], cr |-> bl[i], cols |-> <<i>>]
            [] height[bl[i]] = s.max /\ bl[i] = s.cr -> [s EXCEPT !.cols = Append(@, i)]
            [] OTHER -> s
    IN  Foldl(Step, [max |-> 0, cr |-> 0, cols |-> <<>>], [i \in 1 .. Len(bl) |-> i]).cols

Splice(bl, start, deleteCount, branches) ==
    SubSeq(bl, 1, start - 1) \o branches \o SubSeq(bl, start + deleteCount, Len(bl))

(* From the last index to the first, so that the earlier ones stay right. *)
(* mutant: from the first to the last *)
RemoveBranchesForwards(bl, indexes) ==
    Foldl(LAMBDA l, i : Splice(l, i, 1, <<>>), bl, indexes)
RemoveBranches(bl, indexes) ==
    Foldl(LAMBDA l, i : Splice(l, i, 1, <<>>), bl, Reverse(indexes))

(* CommitIterator.Next: the node to print and the branches left. *)
NextNode(branches, parents, height) ==
    LET indexes == HighestBranchIndexes(branches, height)
        col == indexes[1]
        merged == RemoveBranches(branches, Tail(indexes))
        split == Splice(merged, col, 1, parents[branches[col]])
    IN  [cr |-> branches[col], col |-> col,
         startingColCount |-> Len(branches), endingColCount |-> Len(split),
         newCols |-> {col + cnt : cnt \in 1 .. Len(parents[branches[col]]) - 1},
         foldedCols |-> HighestBranchIndexes(split, height),
         lastCommit |-> split = <<>>, branches |-> split]

(* The nodes that noms log prints from a commit on. *)
RECURSIVE LogFrom(_, _, _)
LogFrom(branches, parents, height) ==
    IF branches = <<>> THEN <<>>
    ELSE LET node == NextNode(branches, parents, height)
         IN  <<node>> \o LogFrom(node.branches, parents, height)

Log(commit, parents, chunks) == LogFrom(<<commit>>, parents, Height(parents, chunks))

-----------------------------------------------------------------------------
RECURSIVE AncestorsOf(_, _)
AncestorsOf(c, parents) == {c} \cup UNION {AncestorsOf(p, parents) : p \in ToSet(parents[c])}

(* The log has every commit of the history exactly once, none after one of its     *)
(* ancestors, and the branches that fold together are at the same commit.        *)
LogIsTheHistory(commit, parents, chunks) ==
    LET log == Log(commit, parents, chunks)
    IN  /\ Len(log) = Cardinality(AncestorsOf(commit, parents))
        /\ {log[i].cr : i \in DOMAIN log} = AncestorsOf(commit, parents)
        /\ \A i, j \in DOMAIN log : i < j => log[i].cr \notin AncestorsOf(log[j].cr, parents)
        /\ \A i \in DOMAIN log : i < Len(log) =>
             {k \in DOMAIN log[i].branches : log[i].branches[k] = log[i + 1].cr}
             = ToSet(log[i].foldedCols)
=============================================================================
