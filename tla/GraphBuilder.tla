---------------------------- MODULE GraphBuilder ----------------------------
(***************************************************************************)
(* types.GraphBuilder: nested maps whose leaves are maps, sets and lists,  *)
(* built from operations that goroutines store in a LevelDB (opcache.go)   *)
(* whose comparer (opcache_compare.go) returns them in the order in which  *)
(* Build can append them to sequenceChunkers, one for each open node.      *)
(*                                                                         *)
(* A key is a record of its kind and a number; keys of the first           *)
(* OrderedKinds kinds are ordered by value, the others by their hash.      *)
(***************************************************************************)
EXTENDS Integers, Sequences, SequencesExt, SeqFold

CONSTANTS
  GOp,           \* operations that callers may ask for
  Builder,       \* goroutines
  MaxGraphOps,   \* bound: operations in all
  RootKind       \* rootKind of NewGraphBuilder

OrderedKinds == 0 .. 2
isKindOrderedByValue(kind) == kind \in OrderedKinds
Digest(key) == 100 * (9 - key.n) + key.kind    \* Hash(), unlike the values' order

----------------------------------------------------------------------------
\* encodeForGraph of a key: the value, or the digest.
encodeGraphKey(key) ==
  [kind |-> key.kind, enc |-> IF isKindOrderedByValue(key.kind) THEN key.n ELSE Digest(key)]

\* insertLdbOp: the keys of the graph and the last one (the map's key, the set's
\* value or the list's index); the value holds what the digests hide, and val.
insertLdbOp(allKeys, kind, val) ==
  [kind |-> kind,
   keys |-> [i \in 1 .. Len(allKeys) |-> encodeGraphKey(allKeys[i])],
   vals |-> Append(SelectSeq(allKeys, LAMBDA k : ~isKindOrderedByValue(k.kind)), val)]

Index(i) == [kind |-> 1, n |-> i]

ldbOp(op, idx) ==
  CASE op.kind = "map" -> insertLdbOp(Append(op.keys, op.key), "map", op.val)
    [] op.kind = "set" -> insertLdbOp(Append(op.keys, op.key), "set", op.key)
    [] op.kind = "list" -> insertLdbOp(Append(op.keys, Index(idx)), "list", op.val)

\* Mutant: kinds are compared even when both keys are digests.
compareEncodedKeyByKind(a, b) ==
  IF a.kind # b.kind THEN a.kind - b.kind ELSE a.enc - b.enc

compareEncodedKey(a, b) ==
  IF ~isKindOrderedByValue(a.kind) /\ ~isKindOrderedByValue(b.kind) THEN a.enc - b.enc
  ELSE IF a.kind # b.kind THEN a.kind - b.kind
  ELSE a.enc - b.enc

\* compareEncodedKeys: key by key, a prefix first.
compareEncodedKeys(a, b) ==
  LET min == IF Len(a) < Len(b) THEN Len(a) ELSE Len(b)
      differ == {i \in 1 .. min : compareEncodedKey(a[i], b[i]) # 0}
  IN  IF differ = {} THEN Len(a) - Len(b)
      ELSE LET i == CHOOSE i \in differ : \A j \in differ : i <= j
           IN  compareEncodedKey(a[i], b[i])

\* ldb.Put: an equal key is overwritten.
ldbPut(ldb, entry) ==
  {e \in ldb : compareEncodedKeys(e.keys, entry.keys) # 0} \cup {entry}

\* GraphOp: the digests give way to the keys in the value, in order.
GraphOp(entry) ==
  LET hashed(n) == Cardinality({j \in 1 .. n : ~isKindOrderedByValue(entry.keys[j].kind)})
      keys == [i \in 1 .. Len(entry.keys) |->
                 IF isKindOrderedByValue(entry.keys[i].kind)
                 THEN [kind |-> entry.keys[i].kind, n |-> entry.keys[i].enc]
                 ELSE entry.vals[hashed(i)]]
  IN  [keys |-> Front(keys), kind |-> entry.kind,
       item |-> CASE entry.kind = "map" -> <<Last(keys), Last(entry.vals)>>
                  [] entry.kind = "set" -> Last(keys)
                  [] entry.kind = "list" -> Last(entry.vals)]

----------------------------------------------------------------------------
Panicked == <<>>     \* no stack has no element
Elem(key, kind) == [key |-> key, kind |-> kind, items |-> <<>>]
done(elem) == [kind |-> elem.kind, items |-> elem.items]

lastIdx(stack) == Len(stack) - 1
Top(stack) == stack[Len(stack)]

\* commonPrefixCount: the first key that differs from the stack's, not counting ROOT.
commonPrefixCount(stack, keys) ==
  LET min == IF Len(keys) < lastIdx(stack) THEN Len(keys) ELSE lastIdx(stack)
      differ == {i \in 1 .. min : stack[i + 1].key # keys[i]}
  IN  IF differ # {} THEN (CHOOSE i \in differ : \A j \in differ : i <= j) - 1
      ELSE IF Len(keys) = lastIdx(stack) THEN -1 ELSE min

\* popKeyFromStack: the finished collection is an entry of its parent.
popKeyFromStack(stack) ==
  LET elem == Top(stack)
  IN  [Front(stack) EXCEPT ![Len(stack) - 1].items = Append(@, <<elem.key, done(elem)>>)]

appendItemToCurrentTopOfStack(stack, op) ==
  IF Top(stack).kind # op.kind THEN Panicked
  ELSE [stack EXCEPT ![Len(stack)].items = Append(@, op.item)]

\* Pushes the keys that are missing; the last one's collection has the op's kind.
pushKeys(stack, op) ==
  LET push(s, i) == Append(s, Elem(op.keys[i], IF i < Len(op.keys) THEN "map" ELSE op.kind))
  IN  Foldl(push, stack, [i \in 1 .. Len(op.keys) - lastIdx(stack) |-> lastIdx(stack) + i])

\* An iteration of Build's loop over the operations.
buildStep(stack, op) ==
  IF stack = Panicked THEN Panicked
  ELSE LET idx == commonPrefixCount(stack, op.keys)
           popped == IF idx = -1 THEN stack ELSE Iterate(popKeyFromStack, stack, lastIdx(stack) - idx)
       IN  appendItemToCurrentTopOfStack(pushKeys(popped, op), op)

Build(ldb) ==
  LET less(a, b) == compareEncodedKeys(a.keys, b.keys) < 0
      entries == SortBy(ldb, less)
      stack == Foldl(buildStep, <<Elem("ROOT", RootKind)>>,
                     [i \in 1 .. Len(entries) |-> GraphOp(entries[i])])
  IN  IF stack = Panicked THEN [kind |-> "panic", items |-> <<>>]
      ELSE done(Iterate(popKeyFromStack, stack, lastIdx(stack))[1])

----------------------------------------------------------------------------
VARIABLES
  opcache,   \* the store's entries of this graph
  listIdx,
  gcall,     \* gcall[t]: the operation that goroutine t is storing
  asked,     \* the operations in the order in which they take effect
  built      \* what Build returned, or Building

gvars == <<opcache, listIdx, gcall, asked, built>>
NoOp == [kind |-> "none"]
Building == [kind |-> "building", items |-> <<>>]

GraphInit ==
  /\ opcache = {} /\ listIdx = 0
  /\ gcall = [t \in Builder |-> NoOp]
  /\ asked = <<>>
  /\ built = Building

Storing == {t \in Builder : gcall[t] # NoOp}

\* The callers' duty: a path does not go through an item, and a node has one kind.
Compatible(o, p) ==
  /\ o.keys = p.keys => o.kind = p.kind
  /\ Len(o.keys) < Len(p.keys) /\ SubSeq(p.keys, 1, Len(o.keys)) = o.keys
       => o.kind = "map" /\ o.key # p.keys[Len(o.keys) + 1]
Agrees(op) ==
  LET others == ToSet(asked) \cup {gcall[t].op : t \in Storing}
  IN  /\ op.keys = <<>> => op.kind = RootKind
      /\ \A o \in others : Compatible(o, op) /\ Compatible(op, o)

\* GraphMapSet, GraphSetInsert and GraphListAppend, up to the atomic increment.
CallGraphOp(t, op) ==
  /\ built = Building /\ gcall[t] = NoOp
  /\ Len(asked) + Cardinality(Storing) < MaxGraphOps
  /\ Agrees(op)
  /\ listIdx' = IF op.kind = "list" THEN listIdx + 1 ELSE listIdx
  /\ asked' = IF op.kind = "list" THEN Append(asked, op) ELSE asked
  /\ gcall' = [gcall EXCEPT ![t] = [kind |-> "op", op |-> op, idx |-> listIdx']]
  /\ UNCHANGED <<opcache, built>>

StoreGraphOp(t) ==
  /\ gcall[t] # NoOp
  /\ opcache' = ldbPut(opcache, ldbOp(gcall[t].op, gcall[t].idx))
  /\ asked' = IF gcall[t].op.kind = "list" THEN asked ELSE Append(asked, gcall[t].op)
  /\ gcall' = [gcall EXCEPT ![t] = NoOp]
  /\ UNCHANGED <<listIdx, built>>

CallBuild ==
  /\ built = Building /\ Storing = {}
  /\ built' = Build(opcache)
  /\ UNCHANGED <<opcache, listIdx, gcall, asked>>

GraphNext ==
  \/ \E t \in Builder : StoreGraphOp(t) \/ \E op \in GOp : CallGraphOp(t, op)
  \/ CallBuild

GraphSpec == GraphInit /\ [][GraphNext]_gvars

----------------------------------------------------------------------------
\* Value.Less of two keys.
KeyLess(a, b) ==
  IF isKindOrderedByValue(a.kind) \/ isKindOrderedByValue(b.kind)
  THEN a.kind < b.kind \/ (a.kind = b.kind /\ a.n < b.n)
  ELSE Digest(a) < Digest(b)

\* The collection at a path, from the operations in order: later ones win, the keys
\* of a map and the values of a set are in order, a list in the order of the calls.
RECURSIVE GraphAt(_, _)
GraphAt(ops, path) ==
  LET here == SelectSeq(ops, LAMBDA o : o.keys = path)
      below == {o \in ToSet(ops) : Len(o.keys) > Len(path) /\ SubSeq(o.keys, 1, Len(path)) = path}
      children == {o.keys[Len(path) + 1] : o \in below}
      kind == IF here # <<>> THEN here[1].kind ELSE IF path = <<>> THEN RootKind ELSE "map"
      own == {o.key : o \in ToSet(here)}
      lastSet(k) == LET same == SelectSeq(here, LAMBDA o : o.key = k) IN same[Len(same)].val
      keys == SortBy(own \cup children, KeyLess)
  IN  [kind |-> kind,
       items |-> CASE kind = "list" -> [i \in 1 .. Len(here) |-> here[i].val]
                   [] kind = "set" -> keys
                   [] kind = "map" ->
                        [i \in 1 .. Len(keys) |->
                           <<keys[i], IF keys[i] \in own THEN lastSet(keys[i])
                                      ELSE GraphAt(ops, Append(path, keys[i]))>>]]

\* Whatever the order in which goroutines store the operations, Build returns the graph
\* they describe, its maps and sets sorted as the collections require: every node is
\* complete when it is added to its parent, and no node is opened twice.
BuildIsTheGraph == built # Building => built = GraphAt(asked, <<>>)
=============================================================================
