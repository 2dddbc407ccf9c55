------------------------------- MODULE Merge -------------------------------
(* The three-way merge of go/merge: two candidates against their common parent.  *)
(* Both diffs are walked in key order (maps, sets, structs) or in index order    *)
(* (lists), and what only one side changed is applied to the parent.             *)
EXTENDS Values

CONSTANTS MaxSpliceMatrix     \* DEFAULT_MAX_SPLICE_MATRIX_SIZE

Conflict == [conflict |-> 0]

unmergeable(a, b) ==
    \/ a = nil \/ b = nil
    \/ KindOf(a) # KindOf(b) \/ IsPrimitiveKind(KindOf(a)) \/ IsPrimitiveKind(KindOf(b))

(* The ResolveFuncs None, Ours and Theirs. *)
Resolution(resolve, aType, bType, aValue, bValue) ==
    CASE resolve = "None" -> Conflict
      [] resolve = "Ours" -> [type |-> aType, value |-> aValue]
      [] resolve = "Theirs" -> [type |-> bType, value |-> bValue]

(* The parent to merge into, nil where the kinds do not fit: listAssert and       *)
(* mapAssert, and setAssert and structAssert, which also wants the candidates'   *)
(* struct names to be equal (not the parent's).                                  *)
SequenceParent(a, b, parent) ==
    IF KindOf(a) # KindOf(b) THEN nil
    ELSE IF parent # nil THEN IF KindOf(parent) = KindOf(a) THEN parent ELSE nil
    ELSE IF KindOf(a) = "list" THEN [list |-> <<>>] ELSE [map |-> <<>>]

SetOrStructParent(a, b, parent) ==
    IF KindOf(a) # KindOf(b) THEN nil
    ELSE IF KindOf(a) = "struct" /\ a.struct.name # b.struct.name THEN nil
    ELSE IF parent # nil THEN IF KindOf(parent) = KindOf(a) THEN parent ELSE nil
    ELSE IF KindOf(a) = "set" THEN [set |-> {}]
    ELSE [struct |-> [name |-> a.struct.name, fields |-> <<>>]]

-----------------------------------------------------------------------------
(* Lists *)

InvalidSplice == NewSplice(-1, -1, -1, -1)
HeadOrInvalid(splices) == IF splices = <<>> THEN InvalidSplice ELSE Head(splices)

(* The invalid splice stands at SPLICE_UNASSIGNED, after every index. *)
Before(s1, s2) == s1 # InvalidSplice /\ (s2 = InvalidSplice \/ s1.at < s2.at)

overlap(s1, s2) ==
    /\ s1 # InvalidSplice /\ s2 # InvalidSplice
    /\ LET earlier == IF s2.at < s1.at THEN s2 ELSE s1
           later == IF s2.at < s1.at THEN s1 ELSE s2
       IN  s1.at = s2.at \/ earlier.at + earlier.removed > later.at

Inserted(source, s) == SubSeq(source.list, s.from + 1, s.from + s.added)

canMerge(a, b, aSplice, bSplice) ==
    aSplice = bSplice /\ Inserted(a, aSplice) = Inserted(b, bSplice)


applySplice(source, target, offset, s) ==
    ListSplice(target, s.at + offset, s.removed, Inserted(source, s))

RECURSIVE MergeSplices(_, _, _, _, _, _)
MergeSplices(a, b, merged, offset, as, bs) ==
    LET aSplice == HeadOrInvalid(as)
        bSplice == HeadOrInvalid(bs)
        first == IF Before(aSplice, bSplice) THEN aSplice ELSE bSplice
        source == IF Before(aSplice, bSplice) THEN a ELSE b
        next == applySplice(source, merged, offset, first)
        moved == offset + first.added - first.removed
    IN  CASE as = <<>> /\ bs = <<>> -> merged
          [] overlap(aSplice, bSplice) ->
                IF canMerge(a, b, aSplice, bSplice)
                THEN MergeSplices(a, b, applySplice(a, merged, offset, aSplice),
                                  offset + aSplice.added - aSplice.removed, Tail(as), Tail(bs))
                ELSE Conflict
          [] OTHER -> IF Before(aSplice, bSplice)
                      THEN MergeSplices(a, b, next, moved, Tail(as), bs)
                      ELSE MergeSplices(a, b, next, moved, as, Tail(bs))

threeWayListMerge(a, b, parent) ==
    MergeSplices(a, b, parent, 0, ListDiff(a, parent, MaxSpliceMatrix),
                 ListDiff(b, parent, MaxSpliceMatrix))

-----------------------------------------------------------------------------
(* Maps, sets and structs *)

(* The apply functions of the three candidates. *)
applyChange(target, change, newVal) ==
    IF change.type = "removed" THEN Without(target, change.key)
                               ELSE With(target, change.key, newVal)

RECURSIVE threeWay(_, _, _, _)

(* mergeChanges: both sides changed one key. *)
mergeChanges(aChange, bChange, a, b, parent, resolve) ==
    LET key == aChange.key
        aValue == GetOf(a, key)
        bValue == GetOf(b, key)
        resolved == Resolution(resolve, aChange.type, bChange.type, aValue, bValue)
        below == threeWay(aValue, bValue, GetOf(parent, key), resolve)
    IN  CASE aChange.type # bChange.type -> resolved
          [] aChange.type = bChange.type /\ (aChange.type = "removed" \/ aValue = bValue) ->
                [type |-> aChange.type, value |-> aValue]
          [] OTHER -> IF unmergeable(aValue, bValue) THEN resolved
                      ELSE IF below = Conflict THEN Conflict
                      ELSE [type |-> aChange.type, value |-> below]

(* The loop of threeWayOrderedSequenceMerge. *)
RECURSIVE MergeLoop(_, _, _, _, _, _, _)
MergeLoop(a, b, parent, resolve, merged, as, bs) ==
    LET aFirst == as # <<>> /\ (bs = <<>> \/ Head(as).key < Head(bs).key)
        bFirst == bs # <<>> /\ (as = <<>> \/ Head(bs).key < Head(as).key)
        both == mergeChanges(Head(as), Head(bs), a, b, parent, resolve)
    IN  CASE as = <<>> /\ bs = <<>> -> merged
          [] aFirst -> MergeLoop(a, b, parent, resolve,
                          applyChange(merged, Head(as), GetOf(a, Head(as).key)), Tail(as), bs)
          [] bFirst -> MergeLoop(a, b, parent, resolve,
                          applyChange(merged, Head(bs), GetOf(b, Head(bs).key)), as, Tail(bs))
          [] OTHER -> IF both = Conflict THEN Conflict
                      ELSE MergeLoop(a, b, parent, resolve,
                              applyChange(merged, Change(both.type, Head(as).key), both.value),
                              Tail(as), Tail(bs))

threeWayOrderedSequenceMerge(a, b, parent, resolve) ==
    MergeLoop(a, b, parent, resolve, parent, ChangesOf(a, parent), ChangesOf(b, parent))

(* refAssert: the targets are merged and the result written. *)
MergeRefs(a, b, parent, resolve) ==
    LET pValue == IF parent = nil THEN nil ELSE parent.ref
        merged == threeWay(a.ref, b.ref, pValue, resolve)
    IN  IF merged = Conflict THEN Conflict ELSE [ref |-> merged]

threeWay(a, b, parent, resolve) ==
    LET into == IF KindOf(a) \in {"list", "map"} THEN SequenceParent(a, b, parent)
                ELSE SetOrStructParent(a, b, parent)
    IN  CASE IsPrimitiveKind(KindOf(a)) -> Conflict
          [] KindOf(a) = "ref" ->
                IF KindOf(b) = "ref" /\ KindOf(parent) \in {"ref", "nil"}
                THEN MergeRefs(a, b, parent, resolve) ELSE Conflict
          [] OTHER -> IF into = nil THEN Conflict
                      ELSE IF KindOf(a) = "list" THEN threeWayListMerge(a, b, into)
                      ELSE threeWayOrderedSequenceMerge(a, b, into, resolve)

ThreeWay(a, b, parent, resolve) ==
    IF a = nil /\ b = nil THEN parent
    ELSE IF unmergeable(a, b) THEN Conflict
    ELSE threeWay(a, b, parent, resolve)

-----------------------------------------------------------------------------
(* m has, at every key, what the side that changed the parent has there; a key     *)
(* both changed has their common value or, below it, a merge again.              *)
RECURSIVE Combines(_, _, _, _)
Combines(m, a, b, parent) ==
    \/ a = parent /\ m = b
    \/ b = parent /\ m = a
    \/ a = b /\ m = a
    \/ /\ KindOf(m) \in {"map", "set", "struct"} /\ parent # nil
       /\ KindOf(a) = KindOf(m) /\ KindOf(b) = KindOf(m)
       /\ \A k \in DOMAIN Entries(m) \cup DOMAIN Entries(a) \cup DOMAIN Entries(b) :
             Combines(GetOf(m, k), GetOf(a, k), GetOf(b, k), GetOf(parent, k))
    \/ KindOf(m) = "ref" /\ Combines(m.ref, a.ref, b.ref, IF parent = nil THEN nil ELSE parent.ref)
    \/ KindOf(m) = "list" /\ a # parent /\ b # parent
    \/ KindOf(m) \in {"map", "set", "struct"} /\ parent = nil
       /\ \A k \in DOMAIN Entries(m) \cup DOMAIN Entries(a) \cup DOMAIN Entries(b) :
             Combines(GetOf(m, k), GetOf(a, k), GetOf(b, k), nil)
=============================================================================
