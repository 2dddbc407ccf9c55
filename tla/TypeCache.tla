------------------------------ MODULE TypeCache ------------------------------
(* The cache of types: types are nodes of a heap that point to one another, a     *)
(* struct that contains itself is a cycle of pointers, and a trie finds the node  *)
(* that an earlier call made from the same parts.  While a type is built, Cycle   *)
(* types stand for the pointers to come.                                         *)
(*                                                                             *)
(* A node has a kind, the types of its elements or fields, a struct's name and    *)
(* field names, a cycle's level and, once computed, its order id.  An encoding    *)
(* is a sequence of numbers, a hash is the encoding itself, and the order of      *)
(* hashes is the lexicographic one.                                              *)
EXTENDS SeqFold, Integers, SequencesExt

CONSTANTS MaxTypes      \* calls of the type constructors

VARIABLES heap,         \* pointer |-> node
          trie,         \* parts of a type |-> pointer
          made          \* what calls returned: pointer and its encoding then

tvars == <<heap, trie, made>>

Code == [Number |-> 1, Value |-> 2, List |-> 3, Union |-> 4, Struct |-> 5, Cycle |-> 0,
         A |-> 7, B |-> 8, f |-> 9, g |-> 10]
Primitives == {"Number", "Value"}

NoOID == <<>>
Node(kind, name, names, elems, level) ==
    [kind |-> kind, name |-> name, names |-> names, elems |-> elems, level |-> level,
     oid |-> NoOID]
Compound(kind, ts) == Node(kind, "", <<>>, ts, 0)
StructNode(name, names, ts) == Node("Struct", name, names, ts, 0)
CycleNode(level) == Node("Cycle", "", <<>>, <<>>, level)

indexOfType(t, tl) == IF t \in ToSet(tl) THEN CHOOSE i \in DOMAIN tl : tl[i] = t ELSE 0
Indexes(seq) == [i \in DOMAIN seq |-> i]

LexLess(a, b) ==
    \/ Len(a) < Len(b) /\ SubSeq(b, 1, Len(a)) = a
    \/ \E i \in 1 .. Len(a) : /\ i <= Len(b) /\ a[i] < b[i]
                              /\ SubSeq(a, 1, i - 1) = SubSeq(b, 1, i - 1)

-----------------------------------------------------------------------------
(* valueEncoder.writeType: a pointer back to an enclosing struct is written as a   *)
(* cycle.                                                                        *)
RECURSIVE writeType(_, _, _)
writeType(h, t, parents) ==
    LET n == h[t]
        inner == IF n.kind = "Struct" THEN Append(parents, t) ELSE parents
        Part(i) == (IF n.kind = "Struct" THEN <<Code[n.names[i]]>> ELSE <<>>)
                   \o writeType(h, n.elems[i], inner)
        parts == FlattenSeq([i \in DOMAIN n.elems |-> Part(i)])
        seen == indexOfType(t, parents)
    IN  CASE n.kind = "Cycle" -> <<Code["Cycle"], n.level>>
          [] n.kind = "Struct" ->
               IF seen # 0 THEN <<Code["Cycle"], Len(parents) - seen>>
               ELSE <<Code["Struct"], Code[n.name], Len(n.elems)>> \o parts
          [] n.kind = "Union" -> <<Code["Union"], Len(n.elems)>> \o parts
          [] OTHER -> <<Code[n.kind]>> \o parts

Encode(h, t) == writeType(h, t, <<>>)

RECURSIVE hasUnresolvedCycle(_, _, _)
hasUnresolvedCycle(h, t, visited) ==
    /\ t \notin visited
    /\ \/ h[t].kind = "Cycle"
       \/ \E i \in DOMAIN h[t].elems : hasUnresolvedCycle(h, h[t].elems[i], visited \cup {t})
HasUnresolvedCycle(h, t) == hasUnresolvedCycle(h, t, {})

-----------------------------------------------------------------------------
(* Order ids.  The encoding of a union does not depend on the order of its types;  *)
(* on the way, its types that are no enclosing struct get their order ids.  ok is *)
(* FALSE when the code panics.                                                   *)
checkForUnresolvedCycles(h, t, root, parents) ==
    LET ok[x \in DOMAIN h, ps \in SUBSET DOMAIN h] ==
          CASE h[x].kind = "Cycle" -> FALSE
            [] h[x].kind = "Struct" ->
                 x \in ps \/ \A i \in DOMAIN h[x].elems : ok[h[x].elems[i], ps \cup {x}]
            [] OTHER -> x = root \/ \A i \in DOMAIN h[x].elems : ok[h[x].elems[i], ps]
    IN  ok[t, ToSet(parents)]

RECURSIVE encodeForOID(_, _, _, _, _)
encodeForOID(h, t, allow, root, parents) ==
    LET n == h[t]
        Result(h2, e, ok) == [h |-> h2, e |-> e, ok |-> ok]
        inner == IF n.kind = "Struct" THEN Append(parents, t) ELSE parents
        Part(acc, i) ==
            LET r == encodeForOID(acc.h, n.elems[i], allow, root, inner)
                label == IF n.kind = "Struct" THEN <<Code[n.names[i]]>> ELSE <<>>
            IN  Result(r.h, acc.e \o label \o r.e, acc.ok /\ r.ok)
        Parts(e) == Foldl(Part, Result(h, e, TRUE), Indexes(n.elems))
        Member(acc, x) ==
            IF acc.h[x].oid # NoOID
            THEN Result(acc.h, acc.e \cup {acc.h[x].oid},
                        acc.ok /\ checkForUnresolvedCycles(acc.h, x, root, parents))
            ELSE LET r == encodeForOID(acc.h, x, allow, root, parents)
                 IN  Result(IF x \in ToSet(parents) THEN r.h ELSE [r.h EXCEPT ![x].oid = r.e],
                            acc.e \cup {r.e}, acc.ok /\ r.ok)
        members == Foldl(Member, Result(h, {}, TRUE), n.elems)
        seen == indexOfType(t, parents)
    IN  CASE n.kind = "Cycle" -> Result(h, <<Code["Cycle"], n.level>>, allow)
          [] n.kind \in Primitives -> Result(h, <<Code[n.kind]>>, TRUE)
          [] n.kind = "List" -> Parts(<<Code["List"], Len(n.elems)>>)
          [] n.kind = "Union" ->
               IF t = root THEN Result(h, <<Code["Union"]>>, TRUE)
               ELSE Result(members.h, <<Code["Union"], Len(n.elems)>>
                                      \o FlattenSeq(SortBy(members.e, LexLess)), members.ok)
          [] n.kind = "Struct" ->
               IF seen # 0 THEN Result(h, <<Code["Cycle"], Len(parents) - seen>>, TRUE)
               ELSE Parts(<<Code["Struct"], Code[n.name]>>)

generateOID(acc, t, allow) ==
    IF acc.h[t].oid # NoOID THEN acc
    ELSE LET r == encodeForOID(acc.h, t, allow, t, <<>>)
         IN  [h |-> [r.h EXCEPT ![t].oid = r.e], ok |-> acc.ok /\ r.ok]

(* walkType: the types below t in the order of the walk, with the structs around    *)
(* each.                                                                         *)
RECURSIVE walkType(_, _, _)
walkType(h, t, parents) ==
    LET inner == IF h[t].kind = "Struct" THEN Append(parents, t) ELSE parents
    IN  IF h[t].kind = "Struct" /\ t \in ToSet(parents) THEN <<>>
        ELSE <<[t |-> t, parents |-> parents]>>
             \o FlattenSeq([i \in DOMAIN h[t].elems |-> walkType(h, h[t].elems[i], inner)])

(* (mutant: a union keeps the order it had before its cycles were resolved) *)
sortUnionsNot(h, walk) == h
sortUnions(h, walk) ==
    LET Less(a, b) == LexLess(h[a].oid, h[b].oid)
        Sorted(acc, w) ==
            IF acc[w.t].kind # "Union" THEN acc
            ELSE [acc EXCEPT ![w.t].elems = SortSeq(@, Less)]
    IN  Foldl(Sorted, h, walk)

validateTypes(h, walk) ==
    \A k \in DOMAIN walk :
       LET elems == h[walk[k].t].elems IN
       h[walk[k].t].kind = "Union" =>
          /\ Len(elems) # 1
          /\ \A i \in 2 .. Len(elems) : LexLess(h[elems[i - 1]].oid, h[elems[i]].oid)

(* The check of a struct's types, after their walk and with their order ids. *)
WithOIDs(h, walk) == Foldl(LAMBDA acc, w : generateOID(acc, w.t, FALSE), [h |-> h, ok |-> TRUE], walk)
Unrolled(h, walk) ==
    \E k \in DOMAIN walk : \E p \in ToSet(walk[k].parents) :
        h[walk[k].t].kind = "Struct" /\ h[walk[k].t].oid = h[p].oid
CheckWalked(h, walk, ok, checkKind) ==
    IF checkKind = "Normalize" THEN [h |-> IF ok THEN sortUnions(h, walk) ELSE h, ok |-> ok]
    ELSE [h |-> h, ok |-> ok /\ validateTypes(h, walk)]
CheckOIDs(oids, walk, checkKind) ==
    CheckWalked(oids.h, walk, oids.ok /\ ~Unrolled(oids.h, walk), checkKind)
CheckWalk(h, walk, checkKind) == CheckOIDs(WithOIDs(h, walk), walk, checkKind)
checkStructType(h, t, checkKind) ==
    IF checkKind = "NoValidate" THEN [h |-> h, ok |-> TRUE]
    ELSE CheckWalk(h, walkType(h, t, <<>>), checkKind)

-----------------------------------------------------------------------------
(* The type with the pointers to enclosing structs replaced by Cycle types: what    *)
(* changes is copied, what does not is shared.                                    *)
RECURSIVE toUnresolvedType(_, _, _, _)
CycleResolves(cycle, level) == cycle <= level
toUnresolvedType(h, t, level, parents) ==
    LET n == h[t]
        isStruct == n.kind = "Struct"
        seen == indexOfType(t, parents)
        inner == IF isStruct THEN Append(parents, t) ELSE parents
        Part(acc, e) ==
            LET r == toUnresolvedType(acc.h, e, IF isStruct THEN level + 1 ELSE level, inner)
            IN  [h |-> r.h, ts |-> Append(acc.ts, r.t), changed |-> acc.changed \/ r.changed]
        parts == Foldl(Part, [h |-> h, ts |-> <<>>, changed |-> FALSE], n.elems)
        New(h2, node) == [h |-> Append(h2, node), t |-> Len(h2) + 1, changed |-> TRUE]
    IN  IF seen # 0 THEN New(h, CycleNode(Len(parents) - seen))
        ELSE IF n.kind = "Cycle" THEN [h |-> h, t |-> t, changed |-> CycleResolves(n.level, level)]
        ELSE IF ~parts.changed THEN [h |-> parts.h, t |-> t, changed |-> FALSE]
        ELSE New(parts.h, [n EXCEPT !.elems = parts.ts, !.oid = NoOID])

(* Cycle types replaced, in place, by pointers to the enclosing structs. *)
RECURSIVE resolveStructCycles(_, _, _)
resolveStructCycles(h, t, parents) ==
    LET n == h[t]
        inner == IF n.kind = "Struct" THEN Append(parents, t) ELSE parents
        Part(acc, i) ==
            LET r == resolveStructCycles(acc, n.elems[i], inner)
            IN  [r.h EXCEPT ![t].elems[i] = r.t]
    IN  IF n.kind = "Cycle" /\ n.level < Len(parents)
        THEN [h |-> h, t |-> parents[Len(parents) - n.level]]
        ELSE [h |-> Foldl(Part, h, Indexes(n.elems)), t |-> t]

-----------------------------------------------------------------------------
(* The constructors.  A cache is [h, trie]; a call returns the cache and the type,  *)
(* or pointer 0 when it panics.                                                  *)
Returned(h, tr, t) == [h |-> h, trie |-> tr, t |-> t]

(* getCompoundType and getCycleType: the node the trie has, or a new one. *)
Interned(c, key, node) ==
    IF key \in DOMAIN c.trie THEN Returned(c.h, c.trie, c.trie[key])
    ELSE Returned(Append(c.h, node), c.trie @@ (key :> Len(c.h) + 1), Len(c.h) + 1)
getCompoundType(c, kind, ts) == Interned(c, <<kind, "", <<>>, ts, 0>>, Compound(kind, ts))
getCycleType(c, level) == Interned(c, <<"Cycle", "", <<>>, <<>>, level>>, CycleNode(level))

(* A struct whose cycles have been resolved, in the trie once it passes the check. *)
Checked(r, tr, key, t) ==
    IF r.ok THEN Returned(r.h, tr @@ (key :> t), t) ELSE Returned(r.h, tr, 0)
CheckResolved(h, tr, key, t, checkKind) ==
    Checked(IF HasUnresolvedCycle(h, t) THEN [h |-> h, ok |-> TRUE]
            ELSE checkStructType(h, t, checkKind), tr, key, t)
Resolve(un, tr, key, checkKind) ==
    CheckResolved(resolveStructCycles(un.h, un.t, <<>>).h, tr, key, un.t, checkKind)

(* The new node is left in the trie as it is when it has no cycles to resolve. *)
makeStruct(h, t, tr, key, checkKind) ==
    IF ~HasUnresolvedCycle(h, t) THEN Returned(h, tr @@ (key :> t), t)
    ELSE Resolve(toUnresolvedType(h, t, -1, <<>>), tr, key, checkKind)
makeStructTypeQuickly(c, name, names, ts, checkKind) ==
    LET key == <<"Struct", name, names, ts, 0>>
    IN  IF key \in DOMAIN c.trie THEN Returned(c.h, c.trie, c.trie[key])
        ELSE makeStruct(Append(c.h, StructNode(name, names, ts)), Len(c.h) + 1, c.trie, key, checkKind)

(* The types of nested unions, without the ones whose hash was seen. *)
RECURSIVE flattenUnionTypes(_, _)
flattenUnionTypes(h, ts) ==
    LET flat == FlattenSeq([i \in DOMAIN ts |->
            IF h[ts[i]].kind = "Union" THEN flattenUnionTypes(h, h[ts[i]].elems) ELSE <<ts[i]>>])
        First(i) == \A j \in 1 .. i - 1 : Encode(h, flat[j]) # Encode(h, flat[i])
    IN  [k \in 1 .. Cardinality({i \in DOMAIN flat : First(i)}) |->
            flat[SortBy({i \in DOMAIN flat : First(i)}, <)[k]]]

SortedUnion(c, oids, ts) ==
    LET Less(a, b) == LexLess(oids.h[a].oid, oids.h[b].oid)
    IN  IF ~oids.ok THEN Returned(oids.h, c.trie, 0)
        ELSE getCompoundType([c EXCEPT !.h = oids.h], "Union", SortSeq(ts, Less))
UnionOf(c, ts) ==
    IF Len(ts) = 1 THEN Returned(c.h, c.trie, ts[1])
    ELSE SortedUnion(c, Foldl(LAMBDA acc, t : generateOID(acc, t, TRUE), [h |-> c.h, ok |-> TRUE], ts), ts)
makeUnionType(c, elems) == UnionOf(c, flattenUnionTypes(c.h, elems))

(* valueDecoder: the type at a position of an encoding, the cache with it and the   *)
(* position after it.                                                            *)
NameOf(n) == CHOOSE s \in DOMAIN Code : Code[s] = n
Read(r, next) == [c |-> [h |-> r.h, trie |-> r.trie], t |-> r.t, next |-> next]

RECURSIVE readTypeInner(_, _, _)
(* n types, each behind the name of its field when label is 1. *)
readParts(c, e, from, n, label) ==
    LET Part(acc, k) ==
          LET r == readTypeInner(acc.c, e, acc.next + label)
          IN  [c |-> r.c, ts |-> Append(acc.ts, r.t), next |-> r.next,
               names |-> Append(acc.names, NameOf(e[acc.next]))]
    IN  Foldl(Part, [c |-> c, ts |-> <<>>, next |-> from, names |-> <<>>], [k \in 1 .. n |-> k])

(* A struct is looked up with the types of its fields before it is made. *)
readFields(p, name) ==
    Read(makeStructTypeQuickly(p.c, name, p.names, p.ts, "NoValidate"), p.next)
readStructType(c, e, i) == readFields(readParts(c, e, i + 2, e[i + 1], 1), NameOf(e[i]))

(* The types of a union stay in the order they are read. *)
readCompound(p, kind) == Read(getCompoundType(p.c, kind, p.ts), p.next)
readUnionType(c, e, i) == readCompound(readParts(c, e, i + 1, e[i], 0), "Union")

readTypeInner(c, e, i) ==
    LET kind == NameOf(e[i])
    IN  CASE kind \in Primitives -> [c |-> c, t |-> Code[kind], next |-> i + 1]
          [] kind = "Cycle" -> Read(getCycleType(c, e[i + 1]), i + 2)
          [] kind = "List" -> readCompound(readParts(c, e, i + 1, 1, 0), kind)
          [] kind = "Union" -> readUnionType(c, e, i + 1)
          [] kind = "Struct" -> readStructType(c, e, i + 1)

(* A type read with validation: pointer 0 when the validation panics. *)
Validated(r, checked) == Returned(checked.h, r.c.trie, IF checked.ok THEN r.t ELSE 0)
ReadAndValidate(r) == Validated(r, checkStructType(r.c.h, r.t, "Validate"))
readType(c, e) == ReadAndValidate(readTypeInner(c, e, 1))

-----------------------------------------------------------------------------
(* isSubtype: parents are the required structs whose comparison is under way. *)
RECURSIVE isSubtype(_, _, _, _)
compoundSubtype(h, req, con, parents) ==
    IF h[con].kind = "Union"
    THEN \A i \in DOMAIN h[con].elems : isSubtype(h, req, h[con].elems[i], parents)
    ELSE isSubtype(h, req, con, parents)

(* Names are sorted: a field is looked for after the one that matched before it. *)
HasFields(h, req, con, parents) ==
    \A i \in DOMAIN h[req].names : \E j \in DOMAIN h[con].names :
        /\ h[con].names[j] = h[req].names[i]
        /\ isSubtype(h, h[req].elems[i], h[con].elems[j], parents)

isSubtype(h, req, con, parents) ==
    LET r == h[req]
        o == h[con]
    IN  \/ Encode(h, req) = Encode(h, con)
        \/ r.kind = "Union" /\ o.kind = "Union"
           /\ \A i \in DOMAIN o.elems : isSubtype(h, req, o.elems[i], parents)
        \/ r.kind = "Union" /\ o.kind # "Union"
           /\ \E i \in DOMAIN r.elems : isSubtype(h, r.elems[i], con, parents)
        \/ r.kind = "List" /\ o.kind = "List"
           /\ compoundSubtype(h, r.elems[1], o.elems[1], parents)
        \/ r.kind = "Value" /\ o.kind # "Value"
        \/ /\ r.kind = "Struct" /\ o.kind = "Struct" /\ r.name \in {"", o.name}
           /\ req \in ToSet(parents) \/ HasFields(h, req, con, Append(parents, req))

-----------------------------------------------------------------------------
TypeInit ==
    /\ heap = <<Compound("Number", <<>>), Compound("Value", <<>>), CycleNode(0), CycleNode(1)>>
    /\ trie = (<<"Cycle", "", <<>>, <<>>, 0>> :> 3) @@ (<<"Cycle", "", <<>>, <<>>, 1>> :> 4)
    /\ made = <<>>

Cache == [h |-> heap, trie |-> trie]
Live == (1 .. 4 \cup {made[k].t : k \in DOMAIN made}) \ {0}

(* A call under the cache's lock. *)
Make(returned) ==
    /\ Len(made) < MaxTypes
    /\ \E r \in {returned} :
         /\ heap' = r.h
         /\ trie' = r.trie
         /\ made' = Append(made, [t |-> r.t, enc |-> IF r.t = 0 THEN <<>> ELSE Encode(r.h, r.t)])

MakeListType(t) == Make(getCompoundType(Cache, "List", <<t>>))
MakeUnionType(t, u) == Make(makeUnionType(Cache, <<t, u>>))
MakeStructType(name, names, ts) ==
    Make(makeStructTypeQuickly(Cache, name, names, ts, "Normalize"))
DecodeType(t) == Make(readType(Cache, Encode(heap, t)))

TypeNext ==
    \/ \E t \in Live :
         \/ MakeListType(t)
         \/ MakeStructType("A", <<"f">>, <<t>>)
         \/ DecodeType(t)
         \/ MakeStructType("B", <<"f", "g">>, <<Code["Number"], t>>)
         \/ \E u \in Live : MakeUnionType(t, u)

TypeSpec == TypeInit /\ [][TypeNext]_tvars

-----------------------------------------------------------------------------
Resolved == {t \in Live : ~HasUnresolvedCycle(heap, t)}

(* No call changes a type that an earlier one returned, although structs are       *)
(* resolved and unions sorted in place.                                          *)
TypesUnchanged ==
    \A k \in DOMAIN made : made[k].t # 0 => Encode(heap, made[k].t) = made[k].enc

(* An encoded type passes the validation of a decoder and has the same encoding    *)
(* again, whatever the cache holds.                                              *)
TypesDecode ==
    \A t \in Resolved :
       \E r \in {readType(Cache, Encode(heap, t))} :
          r.t # 0 /\ Encode(r.h, r.t) = Encode(heap, t)

(* Equal types, where a union is the set of its types: the pairs being compared are *)
(* assumed equal.                                                                *)
RECURSIVE SameType(_, _, _)
SameType(a, b, assumed) ==
    LET x == heap[a]
        y == heap[b]
        Eq(c, d) == SameType(c, d, assumed \cup {<<a, b>>})
    IN  \/ a = b \/ <<a, b>> \in assumed
        \/ /\ <<x.kind, x.name, x.names, x.level>> = <<y.kind, y.name, y.names, y.level>>
           /\ Len(x.elems) = Len(y.elems)
           /\ IF x.kind = "Union"
              THEN /\ \A i \in DOMAIN x.elems : \E j \in DOMAIN y.elems : Eq(x.elems[i], y.elems[j])
                   /\ \A j \in DOMAIN y.elems : \E i \in DOMAIN x.elems : Eq(x.elems[i], y.elems[j])
              ELSE \A i \in DOMAIN x.elems : Eq(x.elems[i], y.elems[i])

(* The values of con are values of req: the pairs being compared are assumed right. *)
RECURSIVE SubtypeOf(_, _, _)
SubtypeOf(req, con, assumed) ==
    LET r == heap[req]
        o == heap[con]
        Sub(a, b) == SubtypeOf(a, b, assumed \cup {<<req, con>>})
    IN  \/ <<req, con>> \in assumed
        \/ r.kind = "Value"
        \/ o.kind = "Union" /\ \A i \in DOMAIN o.elems : Sub(req, o.elems[i])
        \/ r.kind = "Union" /\ o.kind # "Union" /\ \E i \in DOMAIN r.elems : Sub(r.elems[i], con)
        \/ r.kind = o.kind /\ r.kind = "Number"
        \/ r.kind = "List" /\ o.kind = "List" /\ Sub(r.elems[1], o.elems[1])
        \/ /\ r.kind = "Struct" /\ o.kind = "Struct" /\ r.name = o.name
           /\ \A i \in DOMAIN r.names : \E j \in DOMAIN o.names :
                o.names[j] = r.names[i] /\ Sub(r.elems[i], o.elems[j])

IsCyclic(t) ==
    \E w \in ToSet(walkType(heap, t, <<>>)) :
        ToSet(heap[w.t].elems) \cap (ToSet(w.parents) \cup {w.t}) # {}

(* The types values have: a union is only ever the type of a collection's elements. *)
OfValues == {t \in Resolved : heap[t].kind # "Union" /\
    \A w \in ToSet(walkType(heap, t, <<>>)) : heap[w.t].kind = "Struct" =>
       \A e \in ToSet(heap[w.t].elems) : heap[e].kind # "Union"}

(* isSubtype, asked about the type of a value, is right about required types       *)
(* without cycles and never refuses a subtype of one with cycles.                *)
SubtypesRight ==
    \A req \in Resolved, con \in OfValues :
       /\ SubtypeOf(req, con, {}) => isSubtype(heap, req, con, <<>>)
       /\ isSubtype(heap, req, con, <<>>) => IsCyclic(req) \/ SubtypeOf(req, con, {})

(* "We may still find that the type is not a subtype but that will be handled at a *)
(* higher level in the callstack" (assert_type.go:64): the answer for a cyclic     *)
(* type is right as well.                                                        *)
SubtypeSound ==
    \A req \in Resolved, con \in OfValues : isSubtype(heap, req, con, <<>>) => SubtypeOf(req, con, {})

(* "We explicitly disallow this sort of redundantly expressed type"                *)
(* (type_cache.go:222): no struct contains its own copy, so equivalent types have  *)
(* a single encoding.                                                            *)
OneEncoding ==
    \A a, b \in Resolved : SameType(a, b, {}) => Encode(heap, a) = Encode(heap, b)
=============================================================================
