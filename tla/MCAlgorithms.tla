---------------------------- MODULE MCAlgorithms ----------------------------
(* The algorithms over enumerated inputs: a behaviour chooses one, and an        *)
(* invariant compares what the algorithm makes of it with what it promises.  The *)
(* type cache keeps its state from call to call, and its calls are steps.        *)
EXTENDS Merge, Updater

CONSTANT MaxTypes

VARIABLES test, heap, trie, made

Table == INSTANCE TableFile
Query == INSTANCE Nomdex
Commits == INSTANCE CommitIterator
Types == INSTANCE TypeCache

MapsOf(keys, vals) == {[map |-> f] : f \in UNION {[S -> vals] : S \in SUBSET keys}}
SetsOf(keys) == {[set |-> S] : S \in SUBSET keys}
StructsOf(names, fields, vals) ==
    {[struct |-> [name |-> n, fields |-> f]] :
        n \in names, f \in UNION {[S -> vals] : S \in SUBSET fields}}
ListsOf(vals, n) == {[list |-> l] : l \in UNION {[1 .. m -> vals] : m \in 0 .. n}}
RefsOf(vals) == {[ref |-> v] : v \in vals}

Nums == {Num(0), Num(1)}
Small == Nums \cup MapsOf({1}, Nums) \cup RefsOf({Num(0)} \cup MapsOf({1}, Nums))
Deep == MapsOf({1}, Small \cup MapsOf({1}, Small))
Families == {MapsOf({1}, Small) \cup {Num(0)}, MapsOf({1, 2}, Nums), SetsOf({1, 2, 3}),
             StructsOf({"A", "B"}, {1, 2}, {Num(0)}), RefsOf(Small)}

Parents == {nil} \cup {[list |-> l] : l \in {<<>>, <<Num(0), Num(1)>>, <<Num(0), Num(1), Num(2)>>}}
Lists == ListsOf({Num(0), Num(1), Num(2)}, 3)

MergeTests ==
    UNION {{[op |-> "merge", a |-> a, b |-> b, parent |-> p] : a, b \in F, p \in F \cup {nil}} : F \in Families}
    \cup {[op |-> "merge", a |-> a, b |-> b, parent |-> p] : a, b \in Lists, p \in Parents}

CompositeMaps == MapsOf({1, 2, 8, 9}, {Num(0), [list |-> <<Num(0)>>]})
PatchTests ==
    {[op |-> "patch", a |-> a, b |-> b] : a, b \in Deep}
    \cup {[op |-> "patch", a |-> a, b |-> b] : a, b \in CompositeMaps}
    \cup {[op |-> "patch", a |-> a, b |-> b] : a, b \in StructsOf({"A"}, {1, 2}, Small)}
    \cup {[op |-> "patch", a |-> a, b |-> b] : a, b \in MapsOf({1}, SetsOf({1, 2, 8, 9}))}

(* Versions of a graph with one resource, which may be held by several values. *)
Resource == RemoteResource(Num(0))
Held == {Num(0), Resource, [list |-> <<Resource, Num(1)>>]} \cup MapsOf({1}, {Num(0), Resource})
UpdateTests ==
    {[op |-> "update", a |-> a, b |-> b] : a, b \in MapsOf({1, 2}, Held)}
    \cup {[op |-> "update", a |-> a, b |-> b] : a, b \in StructsOf({"A"}, {1, 2}, Held \ ListsOf({Resource, Num(1)}, 2))}
    \cup {[op |-> "update", a |-> a, b |-> b] :
            a, b \in MapsOf({1}, Held \cup RefsOf({Num(0), Resource}) \cup SetsOf({1, 2})) \cup {Num(0)}}

Chars == {"x", "quote", "backslash", "]"}
Parts == {FieldPath(1), FieldPath(2), TypeAnnotation, AtAnnotation(0), AtAnnotation(-1),
          [AtAnnotation(1) EXCEPT !.intoKey = TRUE],
          IndexPath(1), [IndexPath(2) EXCEPT !.intoKey = TRUE],
          HashIndexPath(91), [HashIndexPath(92) EXCEPT !.intoKey = TRUE]}
         \cup {StringPath(s) : s \in UNION {[1 .. n -> Chars] : n \in 0 .. 2}}
ListDiffTests == {[op |-> "listdiff", a |-> a, b |-> b] : a, b \in Lists}
PathTests == {[op |-> "path", path |-> p] : p \in UNION {[1 .. n -> Parts] : n \in 1 .. 2}}

MCFieldNames == [a |-> 1, b |-> 2]
MCNumberNames == ("0" :> 0) @@ ("1" :> 1) @@ ("2" :> 2) @@ ("-1" :> -1)
MCHashNames == [h1 |-> 91, h2 |-> 92]

(* Tables of up to three chunks, two of which may share a prefix, in every order   *)
(* that an unstable sort of the prefixes may leave; requests come sorted by prefix. *)
Addrs == {<<1, 1>>, <<1, 2>>, <<2, 1>>, <<3, 1>>}
Distinct(s) == \A i, j \in DOMAIN s : i # j => s[i].a # s[j].a
Tables == {c \in UNION {[1 .. n -> [a : Addrs, len : {1, 9}]] : n \in 1 .. 3} : Distinct(c)}
Requests ==
    {r \in UNION {[1 .. n -> [a : Addrs, found : BOOLEAN]] : n \in 2 .. 3} :
        /\ Distinct(r)
        /\ \A i \in 2 .. Len(r) : ~r[i].found /\ Table!Prefix(r[i - 1].a) <= Table!Prefix(r[i].a)}
ReadSizes == {[blockSize |-> 4, maxReadSize |-> 40, ampThresh |-> 0],
              [blockSize |-> 2, maxReadSize |-> 20, ampThresh |-> 1],
              [blockSize |-> 0, maxReadSize |-> 30, ampThresh |-> 3]}
TableTest ==
    \E c \in Tables, r \in Requests, t \in ReadSizes : \E o \in Table!SortedPrefixes(c) :
        test' = [op |-> "table", chunks |-> c, order |-> o, reqs |-> r, t |-> t]

(* Queries of two and three comparisons with different numbers. *)
NumberOrders == {<<-1, 0, 1>>, <<-1, 1, 0>>, <<0, -1, 1>>, <<0, 1, -1>>, <<1, 0, -1>>, <<1, -1, 0>>}
Comparisons(indexes, v) == {Query!compExpr(idx, op, v) : idx \in indexes, op \in Query!compOps}
Joined(xs, ys) == {Query!logExpr(op, x, y) : op \in Query!boolOps, x \in xs, y \in ys}
FindTest ==
    \E v \in NumberOrders :
        LET x == Comparisons({"a"}, v[1])
            y == Comparisons({"a"}, v[2])
            z == Comparisons({"a", "b"}, v[3])
        IN  \E q \in Joined(z, x) \cup Joined(Joined(x, y), z) \cup Joined(z, Joined(x, y)) :
               test' = [op |-> "find", query |-> q]

(* Commit graphs of five commits with up to two parents, any of them with a value   *)
(* that is two chunks high.                                                      *)
ParentsIn(n) == {<<>>} \cup {<<i>> : i \in 1 .. n} \cup {s \in (1 .. n) \X (1 .. n) : s[1] < s[2]}
CommitTest ==
    \E b \in ParentsIn(1), c \in ParentsIn(2), d \in ParentsIn(3), e \in ParentsIn(4) :
        \E h \in [1 .. 5 -> {0, 2}] :
            test' = [op |-> "commits", parents |-> <<<<>>, b, c, d, e>>, chunks |-> h]

Graph == INSTANCE Database WITH
    Client <- {}, Dataset <- {}, Value <- (1 .. 5) \X {0, 2}, ChunkHeight <- [v \in (1 .. 5) \X {0, 2} |-> v[2]],
    None <- 0, Ops <- {}, MaxParents <- 2, MaxCalls <- 0,
    nbs <- test, root <- test, seen <- test, handle <- test, known <- test, call <- test,
    calls <- test, done <- test

vars == <<test, heap, trie, made>>

(* The first step from an initial state chooses an input of one kind. *)
Init ==
    \/ /\ test \in [op : {"start"}, of : {"merge", "patch", "update", "listdiff", "path", "table", "find", "commits"}]
       /\ heap = <<>> /\ trie = <<>> /\ made = <<>>
    \/ test = [op |-> "types"] /\ Types!TypeInit

Starts(kind) == test = [op |-> "start", of |-> kind]
Next ==
    \/ Starts("merge") /\ test' \in MergeTests /\ UNCHANGED <<heap, trie, made>>
    \/ Starts("patch") /\ test' \in PatchTests /\ UNCHANGED <<heap, trie, made>>
    \/ Starts("update") /\ test' \in UpdateTests /\ UNCHANGED <<heap, trie, made>>
    \/ Starts("listdiff") /\ test' \in ListDiffTests /\ UNCHANGED <<heap, trie, made>>
    \/ Starts("path") /\ test' \in PathTests /\ UNCHANGED <<heap, trie, made>>
    \/ Starts("table") /\ TableTest /\ UNCHANGED <<heap, trie, made>>
    \/ Starts("find") /\ FindTest /\ UNCHANGED <<heap, trie, made>>
    \/ Starts("commits") /\ CommitTest /\ UNCHANGED <<heap, trie, made>>
    \/ test.op = "types" /\ Types!TypeNext /\ UNCHANGED test
Spec == Init /\ [][Next]_vars

-----------------------------------------------------------------------------

(* The path of a removed or modified value leads to it in the old graph, and the   *)
(* path of an added one to it in the new graph, in everything but sets.          *)
PathsLead(patch, old, new) ==
    \A i \in 1 .. Len(patch) :
        LET dif == patch[i] IN
        dif.path # <<>> /\ KindOf(Resolve(Front(dif.path), old)) # "set"
           => IF dif.type = "added" THEN Resolve(dif.path, new) = dif.new
              ELSE Resolve(dif.path, old) = dif.old


(* A path printed and parsed again is the same path, whatever a quoted key holds   *)
(* of quotes, backslashes and brackets.                                          *)
PathRoundTrips == test.op = "path" => ParsePath(PathString(test.path)) = test.path

(* tableReader finds in a file what tableWriter was given, alone and many at a     *)
(* time, however reads are joined.                                               *)
TableReads ==
    test.op = "table" => Table!TableReads(test.chunks, test.order, test.reqs, test.t)


(* noms log prints the history of a commit: every ancestor once, none after one of *)
(* its own ancestors, branches folded where they meet.                           *)
LogIsTheHistory ==
    test.op = "commits" => Commits!LogIsTheHistory(5, test.parents, test.chunks)

(* "FindCommonAncestor returns the most recent common ancestor of c1 and c2, if    *)
(* one exists" (commit.go), for merges and heights raised by values as well.     *)
MostRecentAncestor ==
    test.op = "commits" =>
        LET commit[c \in 1 .. 5] ==
              Graph!NewCommit(<<c, test.chunks[c]>>, {commit[p] : p \in ToSet(test.parents[c])})
        IN  \A c1, c2 \in {commit[c] : c \in 1 .. 5} :
               Graph!FindCommonAncestor(c1, c2) = Graph!MostRecentCommon(c1, c2)

(* The types of a cache that resolves structs and sorts unions in place: no call   *)
(* changes a type that an earlier one returned; an encoded type passes the        *)
(* validation of a decoder and is encoded the same way again; isSubtype is right   *)
(* about required types without cycles and never refuses a subtype of one with    *)
(* cycles.                                                                       *)
TypesSound ==
    test.op = "types" => Types!TypesUnchanged /\ Types!TypesDecode /\ Types!SubtypesRight
=============================================================================
