------------------------------ MODULE Updater ------------------------------
(* samples/go/downloader: a graph whose RemoteResources have been replaced by      *)
(* LocalResources (updater.go, treewalker.go), and the same for the next version  *)
(* of the graph, from what changed.  The goroutines of Update are in Downloader.  *)
EXTENDS Patch

RemoteResource(url) == [struct |-> [name |-> "RemoteResource", fields |-> 1 :> url]]
LocalResource(url) == [struct |-> [name |-> "LocalResource", fields |-> (1 :> url) @@ (2 :> Num(1))]]

shouldUpdate(v) == KindOf(v) = "struct" /\ v.struct.name = "RemoteResource"
updateCb(dif) == [dif EXCEPT !.new = LocalResource(dif.old.struct.fields[1])]

RECURSIVE processVal(_, _, _)

(* A ref is followed once, and its target has the path of the ref. *)
processRef(walk, p, target) ==
    IF target \in walk.visited THEN walk
    ELSE processVal([walk EXCEPT !.visited = @ \cup {target}], p, target)

(* Keys and elements are no resources here, and are passed over. *)
processChildren(walk, p, v) ==
    CASE KindOf(v) = "list" ->
            Foldl(LAMBDA w, i : processVal(w, Append(p, IndexPath(i - 1)), v.list[i]),
                  walk, [i \in 1 .. Len(v.list) |-> i])
      [] KindOf(v) \in {"map", "struct"} ->
            Foldl(LAMBDA w, k : processVal(w, Append(p, PathPart(v, k)), Entries(v)[k]),
                  walk, SetToSortSeq(DOMAIN Entries(v), <))
      [] OTHER -> walk

(* Nothing below a value that the callback takes is looked at. *)
processVal(walk, p, v) ==
    CASE KindOf(v) = "ref" -> processRef(walk, p, v.ref)
      [] shouldUpdate(v) -> [walk EXCEPT !.found = Append(@, Difference(p, "modified", v, nil, -1))]
      [] OTHER -> processChildren(walk, p, v)

TreeWalk(root) == processVal([found |-> <<>>, visited |-> {}], <<>>, root).found

Update(root) ==
    LET found == TreeWalk(root)
    IN  IF found = <<>> THEN root
        ELSE Apply(root, [i \in 1 .. Len(found) |-> updateCb(found[i])])

(* The difference with its value transformed; the key of an addition is not kept. *)
Updated(dif) ==
    Difference(dif.path, dif.type, IF dif.new = nil THEN Update(dif.old) ELSE nil,
               Update(dif.new), -1)

IncrementalUpdate(inRoot, lastInRoot, lastOutRoot) ==
    LET patch == Diff(lastInRoot, inRoot)
    IN  Apply(lastOutRoot, [i \in 1 .. Len(patch) |-> Updated(patch[i])])

(* Reference: the graph with every RemoteResource replaced where it is. *)
RECURSIVE Replaced(_)
Replaced(v) ==
    CASE shouldUpdate(v) -> LocalResource(v.struct.fields[1])
      [] KindOf(v) = "ref" /\ shouldUpdate(v.ref) -> Replaced(v.ref)
      [] KindOf(v) = "list" -> [list |-> [i \in DOMAIN v.list |-> Replaced(v.list[i])]]
      [] KindOf(v) = "map" -> [map |-> [k \in DOMAIN v.map |-> Replaced(v.map[k])]]
      [] KindOf(v) = "struct" /\ ~shouldUpdate(v) ->
            [struct |-> [v.struct EXCEPT !.fields = [k \in DOMAIN @ |-> Replaced(@[k])]]]
      [] OTHER -> v
=============================================================================
