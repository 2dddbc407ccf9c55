------------------------------- MODULE Patch -------------------------------
(* go/diff: the differences between two values as paths into them (diff.go), the *)
(* order of a patch (patch.go) and its application (apply_patch.go).             *)
EXTENDS Path

CONSTANTS MaxMatrixSize      \* DEFAULT_MAX_SPLICE_MATRIX_SIZE

shouldDescend(v1, v2) ==
    /\ ~IsPrimitiveKind(KindOf(v1)) /\ KindOf(v1) # "ref" /\ KindOf(v1) = KindOf(v2)

Difference(path, type, old, new, key) ==
    [path |-> path, type |-> type, old |-> old, new |-> new, key |-> key]

(* The path part diffMaps, diffSets and diffStructs give a key. *)
PathPart(v, k) ==
    IF KindOf(v) = "struct" THEN FieldPath(k)
    ELSE IF ValueCanBePathIndex(k) THEN IndexPath(k) ELSE HashIndexPath(HashOf(k))

RECURSIVE diff(_, _, _)

diffOrdered(p, v1, v2) ==
    LET Of(change) ==
            LET k == change.key
                p1 == Append(p, PathPart(v1, k))
                c1 == GetOf(v1, k)
                c2 == GetOf(v2, k)
            IN  CASE change.type = "added" -> << Difference(p1, "added", nil, c2, k) >>
                  [] change.type = "removed" -> << Difference(p1, "removed", c1, nil, -1) >>
                  [] change.type = "modified" ->
                        IF shouldDescend(c1, c2) THEN diff(p1, c1, c2)
                        ELSE << Difference(p1, "modified", c1, c2, -1) >>
    IN  Foldl(LAMBDA sent, change : sent \o Of(change), <<>>, ChangesOf(v2, v1))

(* A splice with as many additions as removals modifies elements; another one      *)
(* removes and adds.                                                             *)
diffLists(p, v1, v2) ==
    LET Element(type, s, i) ==
            LET old == v1.list[s.at + i + 1]
                new == v2.list[s.from + i + 1]
                oldPath == Append(p, IndexPath(s.at + i))
                newPath == Append(p, IndexPath(s.from + i))
            IN  CASE type = "modified" ->
                        IF shouldDescend(old, new) THEN diff(oldPath, old, new)
                        ELSE << Difference(oldPath, "modified", old, new, -1) >>
                  [] type = "removed" -> << Difference(oldPath, "removed", old, nil, -1) >>
                  [] type = "added" -> << Difference(newPath, "added", nil, new, -1) >>
        Each(type, s, n) ==
            Foldl(LAMBDA sent, i : sent \o Element(type, s, i), <<>>, [i \in 1 .. n |-> i - 1])
        Of(s) == IF s.removed = s.added THEN Each("modified", s, s.removed)
                 ELSE Each("removed", s, s.removed) \o Each("added", s, s.added)
    IN  Foldl(LAMBDA sent, s : sent \o Of(s), <<>>, ListDiff(v2, v1, MaxMatrixSize))

diff(p, v1, v2) == IF KindOf(v1) = "list" THEN diffLists(p, v1, v2) ELSE diffOrdered(p, v1, v2)

Diff(v1, v2) ==
    IF v1 = v2 THEN <<>>
    ELSE IF shouldDescend(v1, v2) THEN diff(<<>>, v1, v2)
    ELSE << Difference(<<>>, "modified", v1, v2, -1) >>

-----------------------------------------------------------------------------
(* patch.go: fields before indices before hashes, and at one path removals before *)
(* modifications before additions.                                               *)

PartRank(part) == IF Has(part, "field") THEN 0 ELSE IF Has(part, "index") THEN 1 ELSE 2
PartKey(part) == IF Has(part, "field") THEN part.field
                 ELSE IF Has(part, "index") THEN part.index ELSE part.hash

pathPartLess(p, q) ==
    \/ PartRank(p) < PartRank(q)
    \/ PartRank(p) = PartRank(q) /\ PartKey(p) < PartKey(q)

pathIsLess(p, q) ==
    LET shorter == Smaller(Len(p), Len(q)) IN
    \/ \E i \in 1 .. shorter : pathPartLess(p[i], q[i]) /\ \A j \in 1 .. i - 1 : p[j] = q[j]
    \/ Len(p) < Len(q) /\ \A j \in 1 .. shorter : p[j] = q[j]

TypeRank == [removed |-> 0, modified |-> 1, added |-> 2]

PatchLess(d, e) == IF d.path = e.path THEN TypeRank[d.type] < TypeRank[e.type]
                   ELSE pathIsLess(d.path, e.path)

-----------------------------------------------------------------------------
(* apply_patch.go.  The stack's top is its last element; listPath, addCnt and     *)
(* rmCnt are the counters adjustIndexOffset keeps, <<>> standing for nil.         *)


newestValue(elem) == IF elem.new # nil THEN elem.new ELSE elem.old

StackElem(path, part, type, old, new, key) ==
    [path |-> path, part |-> part, type |-> type, old |-> old, new |-> new, key |-> key]

(* adjustIndexOffset: counters of one list, reset when the parent path changes. *)
Counters(stack, path) ==
    IF stack.listPath = <<Front(path)>> THEN stack
    ELSE [stack EXCEPT !.listPath = <<Front(path)>>, !.addCnt = 0, !.rmCnt = 0]

Counted(stack, top) ==
    [Counters(stack, top.path) EXCEPT
        !.addCnt = IF top.type = "added" THEN @ + 1 ELSE @,
        !.rmCnt = IF top.type = "removed" THEN @ + 1 ELSE @]

UpdateList(stack, top, el) ==
    LET c == Counters(stack, top.path)
        offset == IF top.type = "removed" THEN c.addCnt - c.rmCnt ELSE 0
        realIdx == top.part.index + offset
    IN  CASE top.type = "added" ->
                ListSplice(el, Smaller(realIdx, Len(el.list)), 0, <<top.new>>)
          [] top.type = "removed" -> ListSplice(el, realIdx, 1, <<>>)
          [] top.type = "modified" -> ListSplice(el, realIdx, 1, <<top.new>>)

UpdateSet(top, el) ==
    LET removed == IF top.old # nil THEN Without(el, top.old.num) ELSE el
    IN  IF top.new # nil THEN With(removed, top.new.num, top.new) ELSE removed

UpdateKey(top, el, k) ==
    IF top.type = "removed" THEN Without(el, k) ELSE With(el, k, top.new)

(* updateNode: top folded into its parent. *)
updateNode(stack, top, parent) ==
    CASE Has(top.part, "field") -> UpdateKey(top, parent, top.part.field)
      [] Has(top.part, "index") ->
            IF KindOf(parent) = "list" THEN UpdateList(stack, top, parent)
            ELSE IF KindOf(parent) = "set" THEN UpdateSet(top, parent)
            ELSE UpdateKey(top, parent, top.part.index)
      [] Has(top.part, "hash") ->
            IF KindOf(parent) = "set" THEN UpdateSet(top, parent)
            ELSE UpdateKey(top, parent,
                    IF top.type = "added" THEN top.key
                    ELSE ResolveHash([top.part EXCEPT !.intoKey = TRUE], parent).num)

(* pop; a panic stays on the stack. *)
PopInto(stack, top, rest, parent) ==
    LET counted == IF Has(top.part, "index") /\ KindOf(parent) = "list"
                   THEN Counted(stack, top) ELSE stack
        Into(new) == Append(Front(rest), [Last(rest) EXCEPT !.new = new])
    IN  IF parent = Panic THEN [stack EXCEPT !.vals = Into(Panic)]
        ELSE [counted EXCEPT !.vals = Into(updateNode(stack, top, parent))]
pop(stack) ==
    PopInto(stack, Last(stack.vals), Front(stack.vals), newestValue(Last(Front(stack.vals))))

RECURSIVE PopTo(_, _)
PopTo(stack, n) == IF Len(stack.vals) > n THEN PopTo(pop(stack), n) ELSE stack

commonPrefixCount(p1, p2) ==
    CHOOSE n \in 0 .. Smaller(Len(p1), Len(p2)) :
        /\ \A i \in 1 .. n : p1[i] = p2[i]
        /\ n = Len(p1) \/ n = Len(p2) \/ p1[n + 1] # p2[n + 1]

(* The parts of the path that are not on the stack yet. *)
PushTail(stack, dif, idx) ==
    Foldl(LAMBDA st, i :
            LET parent == newestValue(Last(st.vals))
                at == IF parent = Panic THEN Panic ELSE ResolvePart(dif.path[i], parent)
                leaf == i = Len(dif.path)
            IN  [st EXCEPT !.vals = Append(@,
                    StackElem(dif.path, dif.path[i], "modified", IF leaf THEN dif.old ELSE at,
                              IF leaf THEN at ELSE nil, dif.key))],
          stack, [j \in 1 .. Len(dif.path) - idx |-> idx + j])

(* The difference itself goes to the top of the stack. *)
SetTop(stack, dif) ==
    [stack EXCEPT !.vals[Len(stack.vals)] = [@ EXCEPT !.new = dif.new, !.type = dif.type]]

ApplyDifference(st, dif) ==
    LET p == dif.path
        same == p # <<>> /\ p = st.lastPath
        popped == IF same THEN pop(st.stack) ELSE st.stack
        From(idx) == PushTail(PopTo(popped, idx + 1), dif, idx)
    IN  [lastPath |-> p,
         stack |-> SetTop(From(IF same THEN Len(p) - 1 ELSE commonPrefixCount(st.lastPath, p)), dif)]

(* Apply: the new value of the root, which the code leaves nil when the patch is   *)
(* empty.                                                                        *)
Apply(root, patch) ==
    LET start == [lastPath |-> <<>>,
                  stack |-> [vals |-> << StackElem(<<>>, TypeAnnotation, "modified", root, nil, -1) >>,
                             listPath |-> <<>>, addCnt |-> 0, rmCnt |-> 0]]
        end == Foldl(ApplyDifference, start, SortSeq(patch, PatchLess))
    IN  PopTo(end.stack, 1).vals[1].new
=============================================================================
