---------------------------- MODULE SequenceDiff ----------------------------
(* The diff of two collections: edit distance over a node's children             *)
(* (go/types/edit_distance.go), the splices between two lists                    *)
(* (indexed_sequence_diff.go), and the changed keys between two sets or maps,    *)
(* which two algorithms compute in two goroutines while a third one merges their *)
(* streams (ordered_sequences_diff.go).                                          *)
EXTENDS ProllyTree, FiniteSets

Smaller(a, b) == IF a < b THEN a ELSE b

(* ValueChanged *)
Change(type, key) == [type |-> type, key |-> key]

(* emptySequence, which is no metaSequence whatever it stands for *)
emptySequence == Node(0, <<>>)

(* getCompositeChildSequence: the children of length tuples as one sequence. *)
getCompositeChildSequence(seq, start, length) ==
    IF length = 0 THEN emptySequence
    ELSE Node(seq.level - 1,
              Foldl(LAMBDA items, mt : items \o mt.child.items, <<>>,
                    SubSeq(seq.items, start + 1, start + length)))

-----------------------------------------------------------------------------
(* edit_distance.go.  eq[i, j]: item i of the previous sequence is item j of the *)
(* current one.                                                                  *)

sharedPrefix(eq, searchLength) ==
    CHOOSE k \in 0 .. searchLength :
        /\ k = searchLength \/ ~eq[k, k]
        /\ \A i \in 0 .. k - 1 : eq[i, i]

sharedSuffix(eq, previousLength, currentLength, searchLength) ==
    LET same(i) == eq[previousLength - 1 - i, currentLength - 1 - i]
    IN  CHOOSE k \in 0 .. searchLength :
            /\ k = searchLength \/ ~same(k)
            /\ \A i \in 0 .. k - 1 : same(i)

(* The matrix, a row per previous item; its cells count from 1. *)
calcEditDistances(eq, start, previousLen, currentLen) ==
    LET Row(rows, i) ==
            LET above == rows[Len(rows)]
                Cell(row, j) ==
                    Append(row, IF eq[start + i - 1, start + j - 1] THEN above[j]
                                ELSE Smaller(above[j + 1], row[j]) + 1)
            IN  Append(rows, Foldl(Cell, <<i>>, [j \in 1 .. currentLen |-> j]))
    IN  Foldl(Row, << [j \in 1 .. currentLen + 1 |-> j - 1] >>, [i \in 1 .. previousLen |-> i])

(* The walk back from the last cell; "previous" neighbours decide. *)
RECURSIVE Operations(_, _, _, _, _)
Operations(dist, i, j, current, edits) ==
    IF i = 0 /\ j = 0 THEN edits
    ELSE IF i = 0 THEN Operations(dist, i, j - 1, current, <<"INSERTED">> \o edits)
    ELSE IF j = 0 THEN Operations(dist, i - 1, j, current, <<"REMOVED">> \o edits)
    ELSE LET northWest == dist[i][j]
             west == dist[i][j + 1]
             north == dist[i + 1][j]
             least == Smaller(northWest, Smaller(west, north))
         IN  CASE least = northWest ->
                    Operations(dist, i - 1, j - 1, northWest,
                        <<IF northWest = current THEN "UNCHANGED" ELSE "UPDATED">> \o edits)
               [] least # northWest /\ least = west ->
                    Operations(dist, i - 1, j, west, <<"REMOVED">> \o edits)
               [] OTHER -> Operations(dist, i, j - 1, north, <<"INSERTED">> \o edits)

operationsFromEditDistances(dist) ==
    LET i == Len(dist) - 1
        j == Len(dist[1]) - 1
    IN  Operations(dist, i, j, dist[i + 1][j + 1], <<>>)

(* SPLICE_UNASSIGNED is -1. *)
NewSplice(at, removed, added, from) ==
    [at |-> at, removed |-> removed, added |-> added, from |-> from]

addSplice(splices, s) == Append(splices, [s EXCEPT !.from = IF @ = -1 THEN 0 ELSE @])

(* One operation of calcSplices' loop. *)
ApplyOperation(st, op) ==
    LET open == IF st.open = <<>> THEN NewSplice(st.index, 0, 0, -1) ELSE st.open[1]
        from == IF open.from = -1 THEN st.previousIndex ELSE open.from
    IN  CASE op = "UNCHANGED" ->
                [splices |-> IF st.open = <<>> THEN st.splices ELSE addSplice(st.splices, open),
                 open |-> <<>>, index |-> st.index + 1, previousIndex |-> st.previousIndex + 1]
          [] op = "UPDATED" ->
                [st EXCEPT !.open = << [open EXCEPT !.removed = @ + 1, !.added = @ + 1,
                                                    !.from = from] >>,
                           !.index = @ + 1, !.previousIndex = @ + 1]
          [] op = "INSERTED" ->
                [st EXCEPT !.open = << [open EXCEPT !.added = @ + 1, !.from = from] >>,
                           !.previousIndex = @ + 1]
          [] op = "REMOVED" ->
                [st EXCEPT !.open = << [open EXCEPT !.removed = @ + 1] >>, !.index = @ + 1]

calcSplices(previousLength, currentLength, maxSpliceMatrixSize, eq) ==
    LET least == Smaller(previousLength, currentLength)
        start == sharedPrefix(eq, least)
        suffix == sharedSuffix(eq, previousLength, currentLength, least - start)
        previousLen == previousLength - suffix - start
        currentLen == currentLength - suffix - start
        ops == operationsFromEditDistances(
                   calcEditDistances(eq, start, previousLen, currentLen))
        end == Foldl(ApplyOperation, [splices |-> <<>>, open |-> <<>>, index |-> start,
                                      previousIndex |-> start], ops)
    IN  CASE previousLen = 0 /\ currentLen = 0 -> <<>>
          [] previousLen > 0 /\ currentLen = 0 -> << NewSplice(start, previousLen, 0, 0) >>
          [] previousLen = 0 /\ currentLen > 0 -> << NewSplice(start, 0, currentLen, start) >>
          [] previousLen > 0 /\ currentLen > 0 ->
                IF previousLen * currentLen > maxSpliceMatrixSize
                THEN << NewSplice(0, previousLen, currentLen, 0) >>
                ELSE IF end.open = <<>> THEN end.splices
                ELSE addSplice(end.splices, end.open[1])

-----------------------------------------------------------------------------
(* Lists *)

(* Leaves before tuple idx of a meta sequence *)
LeavesBefore(seq, idx) == IF idx > 0 THEN cumulativeNumberOfLeaves(seq, idx - 1) ELSE 0

(* Which items are equal, from index 0. *)
EqualItems(last, current) ==
    [i \in 0 .. seqLen(last) - 1, j \in 0 .. seqLen(current) - 1 |-> compareFn(last, i, current, j)]

(* A leaf's splice, or one that only removes or only adds whole subtrees, is      *)
(* reported in leaf coordinates; another meta splice is diffed one level down.   *)
RECURSIVE indexedSequenceDiff(_, _, _, _, _)
indexedSequenceDiff(last, lastOffset, current, currentOffset, max) ==
    LET Child(seq) == getCompositeChildSequence(seq, 0, seqLen(seq))
        Report(s) ==
            IF ~isMetaSequence(last)
            THEN << [s EXCEPT !.at = @ + lastOffset,
                              !.from = IF s.added > 0 THEN @ + currentOffset ELSE @] >>
            ELSE LET lastAt == LeavesBefore(last, s.at)
                     currentAt == LeavesBefore(current, s.from)
                     added == LeavesBefore(current, s.from + s.added) - currentAt
                 IN  IF s.removed = 0 \/ s.added = 0
                     THEN << NewSplice(lastOffset + lastAt,
                                       LeavesBefore(last, s.at + s.removed) - lastAt, added,
                                       IF added > 0 THEN currentOffset + currentAt ELSE s.from) >>
                     ELSE indexedSequenceDiff(
                              getCompositeChildSequence(last, s.at, s.removed), lastOffset + lastAt,
                              getCompositeChildSequence(current, s.from, s.added),
                              currentOffset + currentAt, max)
    IN  IF last.level > current.level
        THEN indexedSequenceDiff(Child(last), lastOffset, current, currentOffset, max)
        ELSE IF current.level > last.level
        THEN indexedSequenceDiff(last, lastOffset, Child(current), currentOffset, max)
        ELSE Foldl(LAMBDA sent, s : sent \o Report(s), <<>>,
                   calcSplices(seqLen(last), seqLen(current), max, EqualItems(last, current)))

(* List.DiffWithLimit *)
DiffWithLimit(last, current, max) ==
    CASE SameTree(last, current) -> <<>>
      [] seqLen(current) = 0 /\ seqLen(last) > 0 -> << NewSplice(0, numLeaves(last), 0, 0) >>
      [] seqLen(last) = 0 /\ seqLen(current) > 0 -> << NewSplice(0, 0, numLeaves(current), 0) >>
      [] OTHER -> indexedSequenceDiff(last, 0, current, 0, max)
=============================================================================
