------------------------------- MODULE Values -------------------------------
(* Noms values as the merge, the patches and the paths see them: numbers, and    *)
(* the compound values made of them.  A value is a record whose only field names *)
(* its kind; the keys of maps, the elements of sets and the field names of       *)
(* structs are integers in their order.  A key of CompositeKeys stands for a     *)
(* value that is no primitive, which a path names by its hash.  Collections here *)
(* are short enough to be one chunk.                                             *)
EXTENDS SequenceDiff, SequencesExt

CONSTANTS CompositeKeys

nil == [nil |-> 0]
Num(n) == [num |-> n]
KindOf(v) == CHOOSE k \in DOMAIN v : TRUE

IsPrimitiveKind(kind) == kind = "num"
ValueCanBePathIndex(k) == k \notin CompositeKeys
HashOf(k) == 100 - k

(* A map, a set or a struct as a function from its keys. *)
Entries(v) ==
    CASE KindOf(v) = "map" -> v.map
      [] KindOf(v) = "struct" -> v.struct.fields
      [] KindOf(v) = "set" -> [k \in v.set |-> Num(k)]

GetOf(v, k) == IF k \in DOMAIN Entries(v) THEN Entries(v)[k] ELSE nil

(* Map.Diff, Set.Diff and Struct.Diff, from last to v: the keys in order.  A       *)
(* struct's name is not part of its diff.                                        *)
ChangesOf(v, last) ==
    LET f == Entries(v)
        g == Entries(last)
        keys == {k \in DOMAIN f \cup DOMAIN g : GetOf(v, k) # GetOf(last, k)}
        ks == SetToSortSeq(keys, <)
    IN  [i \in 1 .. Len(ks) |->
            Change(CASE ks[i] \notin DOMAIN g -> "added"
                     [] ks[i] \notin DOMAIN f -> "removed"
                     [] OTHER -> "modified", ks[i])]

(* List.Diff *)
ListDiff(v, last, max) ==
    calcSplices(Len(last.list), Len(v.list), max,
                [i \in 0 .. Len(last.list) - 1, j \in 0 .. Len(v.list) - 1 |->
                    last.list[i + 1] = v.list[j + 1]])

(* Map.Set and Struct.Set, Map.Remove and Struct.Delete, Set.Insert and           *)
(* Set.Remove: the value with or without a key.                                  *)
With(v, k, new) ==
    CASE KindOf(v) = "map" ->
            [map |-> [i \in DOMAIN v.map \cup {k} |-> IF i = k THEN new ELSE v.map[i]]]
      [] KindOf(v) = "struct" ->
            [struct |-> [v.struct EXCEPT !.fields =
                [i \in DOMAIN @ \cup {k} |-> IF i = k THEN new ELSE @[i]]]]
      [] KindOf(v) = "set" -> [set |-> v.set \cup {k}]

Without(v, k) ==
    CASE KindOf(v) = "map" -> [map |-> [i \in DOMAIN v.map \ {k} |-> v.map[i]]]
      [] KindOf(v) = "struct" ->
            [struct |-> [v.struct EXCEPT !.fields = [i \in DOMAIN @ \ {k} |-> @[i]]]]
      [] KindOf(v) = "set" -> [set |-> v.set \ {k}]

(* List.Splice, Insert, RemoveAt and Set; an index out of range panics. *)
ListSplice(v, at, removed, items) ==
    IF at + removed > Len(v.list) \/ at < 0 THEN Panic
    ELSE [list |-> SubSeq(v.list, 1, at) \o items
                   \o SubSeq(v.list, at + removed + 1, Len(v.list))]
=============================================================================
