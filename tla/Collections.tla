---------------------------- MODULE Collections ----------------------------
(* List, Blob, Map and Set (go/types/list.go, blob.go, map.go, set.go) over the   *)
(* prolly tree: a program that keeps one collection, edits it with every         *)
(* operation of its kind, and reads it through a BlobReader or through the set    *)
(* iterators.  The variable val is the plain sequence of items the collection     *)
(* stands for; coll is the tree the code builds by editing.                      *)
EXTENDS ProllyTree, FiniteSets

CONSTANTS
    ListItems,  \* the encodings of the values put into a List
    Bytes,      \* the bytes put into a Blob
    Keys,       \* the keys of Maps and Sets
    Vals,       \* the values of a Map
    MaxLen      \* bound: the items of a List or a Blob

VARIABLES
    kind,   \* the kind of the collection
    coll,   \* its tree
    val,    \* the items it stands for
    rd,     \* the BlobReader: <<>>, or its state
    iter    \* the set iterator: <<>>, or its state

vars == <<kind, coll, val, rd, iter>>

Nil == -1
SetItems(S) ==
    LET n == Cardinality(S)
        nth(i) == CHOOSE x \in S : Cardinality({y \in S : y < x}) = i - 1
    IN  [i \in 1 .. n |-> <<nth(i)>>]
EntryKey(e) == e[1]

-----------------------------------------------------------------------------
(* Pure operations. *)

(* buildMapData, buildSetData: a stable sort by key, then the last of each run of *)
(* equal keys.                                                                   *)
InsertStable(sorted, e) ==
    LET n == CHOOSE i \in 0 .. Len(sorted) :
                /\ \A j \in 1 .. i : EntryKey(sorted[j]) <= EntryKey(e)
                /\ i < Len(sorted) => EntryKey(sorted[i + 1]) > EntryKey(e)
    IN  SubSeq(sorted, 1, n) \o <<e>> \o SubSeq(sorted, n + 1, Len(sorted))

buildMapData(kvs) ==
    LET sorted == Foldl(InsertStable, <<>>, kvs)
        step(acc, e) == IF acc # <<>> /\ EntryKey(acc[Len(acc)]) = EntryKey(e)
                        THEN [acc EXCEPT ![Len(acc)] = e] ELSE Append(acc, e)
    IN  Foldl(step, <<>>, sorted)

buildSetData(vs) ==
    LET sorted == Foldl(InsertStable, <<>>, vs)
        step(acc, e) == IF acc # <<>> /\ acc[Len(acc)] = e THEN acc ELSE Append(acc, e)
    IN  Foldl(step, <<>>, sorted)

(* getCursorAtValue: where key k is, or would be inserted. *)
getCursorAtValue(seq, k) ==
    LET cur == newCursorAtValue(seq, k, TRUE)
    IN  [cur |-> cur, found |-> curValid(cur) /\ EntryKey(curItem(cur)) = k]

mapSet(seq, e) ==
    LET c == getCursorAtValue(seq, EntryKey(e))
    IN  spliceAt("Map", c.cur, IF c.found THEN 1 ELSE 0, <<e>>)

mapRemove(seq, k) ==
    LET c == getCursorAtValue(seq, k)
    IN  IF c.found THEN spliceAt("Map", c.cur, 1, <<>>) ELSE seq

setInsert(seq, v) ==
    LET c == getCursorAtValue(seq, EntryKey(v))
    IN  IF c.found THEN seq ELSE spliceAt("Set", c.cur, 0, <<v>>)

setRemove(seq, v) ==
    LET c == getCursorAtValue(seq, EntryKey(v))
    IN  IF c.found THEN spliceAt("Set", c.cur, 1, <<>>) ELSE seq

(* List.Splice and Blob.Splice (Set, Append, Insert, Remove and RemoveAt call it). *)
listSplice(k, seq, idx, deleteCount, items) ==
    IF deleteCount = 0 /\ items = <<>> THEN seq
    ELSE spliceAt(k, newCursorAtIndex(seq, idx), deleteCount, items)

(* MaybeGet, Get and Has *)
maybeGet(seq, k) ==
    LET cur == newCursorAtValue(seq, k, FALSE)
    IN  IF curValid(cur) /\ EntryKey(curItem(cur)) = k THEN curItem(cur) ELSE <<>>

(* List.Get, Map.At, Set.At *)
itemAt(seq, idx) == curItem(newCursorAtIndex(seq, idx))

(* firstOrLast: nothing for an empty collection, except that Last counts back    *)
(* from the end of an empty leaf, which newSequenceCursor refuses with a panic.  *)
firstOrLast(seq, last) ==
    IF seqLen(seq) = 0 THEN IF last THEN <<Nil>> ELSE <<>>
    ELSE curItem(CursorAtEnd(<<>>, seq, last))

(* readBlob: the leaf chunks are cut outside the chunker and their tuples handed  *)
(* to its parent, in order (orderedparallel).                                    *)
readBlob(bytes) ==
    LET pushIf(b, s) ==
            IF b THEN [s EXCEPT !.ch = chAppend("Blob", @, newMetaTuple("Blob", Node(0, s.buf))),
                                !.buf = <<>>]
            ELSE s
        hashed(s, b, rv) == pushIf(rv.crossed, [s EXCEPT !.win = rv.win, !.buf = Append(@, b)])
        addByte(s, b) == hashed(s, b, HashItem(s.win, 0, b))
        end(read) == pushIf(read.buf # <<>>, read).ch
    IN  chDone("Blob", <<NewLevel(<<>>, 0)>> \o
            (IF bytes = <<>> THEN <<>>
             ELSE end(Foldl(addByte, [buf |-> <<>>, win |-> <<>>,
                                      ch |-> newSequenceChunker("Blob", <<>>, 1)], bytes))))

(* readBlobsP: the blobs of several readers, concatenated in order. *)
readBlobsP(rs) ==
    IF rs = <<>> THEN Node(0, <<>>)
    ELSE LET Joined(blobs) == Foldl(LAMBDA b, r : concat("Blob", b, r), Head(blobs), Tail(blobs))
         IN  Joined([i \in DOMAIN rs |-> readBlob(rs[i])])

-----------------------------------------------------------------------------
(* Set iterators.  A setIterator is the set's tree and a cursor, <<>> for nil.   *)

compareValue(v1, v2) ==
    CASE v1 = v2 -> 0
      [] v2 = Nil -> -1
      [] v1 = Nil -> 1
      [] OTHER -> IF v1 < v2 THEN -1 ELSE 1

siValue(cur) == IF curValid(cur) THEN EntryKey(curItem(cur)) ELSE Nil

siNext(si) ==
    LET cur == IF si.cur = <<>> THEN CursorAtEnd(<<>>, si.seq, FALSE)
                                ELSE curAdvance(si.cur).cur
    IN  [i |-> [si EXCEPT !.cur = cur], v |-> siValue(cur)]

siSkipTo(si, v) ==
    LET first == si.cur = <<>>
        cur == IF first THEN getCursorAtValue(si.seq, v).cur ELSE si.cur
        again == getCursorAtValue(si.seq, v).cur
    IN  CASE first \/ ~curValid(cur) ->
               [i |-> [si EXCEPT !.cur = cur], v |-> siValue(cur)]
          [] compareValue(v, siValue(cur)) <= 0 -> siNext(si)
          [] OTHER -> [i |-> [si EXCEPT !.cur = again], v |-> siValue(again)]

(* iterState: an iterator and the value it is at. *)
stNext(st) == IF st.v = Nil THEN st ELSE siNext(st.i)
stSkipTo(st, v) == IF st.v = Nil \/ v = Nil THEN [st EXCEPT !.v = Nil] ELSE siSkipTo(st.i, v)

(* UnionIterator: Next returns the smaller value; SkipTo first moves the sides    *)
(* that are behind, and is Next when none is.                                    *)
unionNext(it) ==
    LET c == compareValue(it.a.v, it.b.v) IN
    [it EXCEPT !.a = IF c <= 0 THEN stNext(@) ELSE @,
               !.b = IF c >= 0 THEN stNext(@) ELSE @,
               !.ret = IF c < 0 THEN it.a.v ELSE it.b.v]

unionSkipTo(it, v) ==
    unionNext([it EXCEPT !.a = IF compareValue(it.a.v, v) < 0 THEN stSkipTo(@, v) ELSE @,
                         !.b = IF compareValue(it.b.v, v) < 0 THEN stSkipTo(@, v) ELSE @])

(* IntersectionIterator: the side behind skips to the other until they agree. *)
RECURSIVE interNext(_)
interNext(it) ==
    LET c == compareValue(it.a.v, it.b.v) IN
    CASE c < 0 -> interNext([it EXCEPT !.a = stSkipTo(@, it.b.v)])
      [] c > 0 -> interNext([it EXCEPT !.b = stSkipTo(@, it.a.v)])
      [] OTHER -> [it EXCEPT !.a = stNext(@), !.b = stNext(@), !.ret = it.a.v]

interSkipTo(it, v) ==
    interNext([it EXCEPT !.a = IF compareValue(v, it.a.v) >= 0 THEN stSkipTo(@, v) ELSE @,
                         !.b = IF compareValue(v, it.b.v) >= 0 THEN stSkipTo(@, v) ELSE @])

(* NewUnionIterator, NewIntersectionIterator: both sides are moved to their first *)
(* value.  prev is the value returned before, Top once nil was; want is the       *)
(* argument of the last SkipTo; elems is the set the iterator runs over.         *)
Top == 1000
NewIterator(op, other) ==
    [op |-> op, ret |-> Nil, prev |-> Nil, want |-> Nil, calls |-> 0, skipped |-> FALSE,
     elems |-> LET mine == {EntryKey(val[i]) : i \in DOMAIN val}
               IN  IF op = "union" THEN mine \cup other ELSE mine \cap other,
     a |-> siNext([seq |-> coll, cur |-> <<>>]),
     b |-> siNext([seq |-> Build("Set", SetItems(other)), cur |-> <<>>])]

-----------------------------------------------------------------------------
(* BlobReader.  data is <<>> and open FALSE where the code's currentReader is    *)
(* nil.                                                                          *)

NewReader == [pos |-> 0, cur |-> newCursorAtIndex(coll, 0), open |-> FALSE,
              data |-> <<>>, off |-> 0, eof |-> FALSE]

(* updateReader: a reader over the chunk the cursor stands in. *)
updateReader(r) ==
    IF r.open THEN r
    ELSE [r EXCEPT !.open = TRUE, !.data = Head(r.cur).seq.items, !.off = CurIdx(r.cur)]

blobRead(r0, n) ==
    LET r == updateReader(r0)
        left == Len(r.data) - r.off
        eof == left <= 0
        k == IF eof THEN 0 ELSE IF n < left THEN n ELSE left
        cur == Iterate(LAMBDA c : curAdvance(c).cur, r.cur, k)
        more == curValid(cur)
    IN  [r EXCEPT !.pos = @ + k, !.cur = cur, !.off = @ + k,
                  !.open = ~(eof /\ more), !.eof = eof /\ ~more]

blobSeek(r, abs) ==
    [r EXCEPT !.pos = abs, !.cur = newCursorAtIndex(coll, abs),
              !.open = FALSE, !.eof = FALSE]

-----------------------------------------------------------------------------
Init ==
    /\ kind \in {"List", "Blob", "Map", "Set"}
    /\ coll = Build(kind, <<>>)
    /\ val = <<>>
    /\ rd = <<>>
    /\ iter = <<>>

Elements == IF kind = "List" THEN ListItems ELSE {<<b>> : b \in Bytes}
UpTo(n, S) == UNION {[1 .. k -> S] : k \in 0 .. n}
Editing(k) == kind \in k /\ rd = <<>> /\ iter = <<>> /\ UNCHANGED <<kind, rd, iter>>

Splice ==
    /\ Editing({"List", "Blob"})
    /\ \E idx \in 0 .. Len(val), items \in UpTo(1, Elements) :
       \E deleteCount \in 0 .. Len(val) - idx :
          /\ Len(val) - deleteCount + Len(items) <= MaxLen
          /\ coll' = listSplice(kind, coll, idx, deleteCount, items)
          /\ val' = SubSeq(val, 1, idx) \o items \o SubSeq(val, idx + deleteCount + 1, Len(val))

(* l.Concat(other), or other.Concat(l). *)
Concat ==
    /\ Editing({"List", "Blob"})
    /\ \E other \in UpTo(2, Elements), front \in BOOLEAN :
          /\ Len(val) + Len(other) <= MaxLen
          /\ \E o \in {Build(kind, other)} :
                coll' = IF front THEN concat(kind, o, coll) ELSE concat(kind, coll, o)
          /\ val' = IF front THEN other \o val ELSE val \o other

(* NewBlob over two readers. *)
NewBlob ==
    /\ Editing({"Blob"})
    /\ val = <<>>
    /\ \E all \in [1 .. MaxLen -> Elements], cut \in 0 .. MaxLen :
          /\ coll' = readBlobsP(<<SubSeq(all, 1, cut), SubSeq(all, cut + 1, MaxLen)>>)
          /\ val' = all

Entries == {<<k, v>> : k \in Keys, v \in Vals}
Drop(k) == SelectSeq(val, LAMBDA e : EntryKey(e) # k)
Put(e) == InsertStable(Drop(EntryKey(e)), e)

NewMap ==
    /\ Editing({"Map"})
    /\ val = <<>>
    /\ \E kvs \in UpTo(3, Entries) :
          /\ coll' = Build("Map", buildMapData(kvs))
          /\ val' = LET set == {kvs[i][1] : i \in DOMAIN kvs}
                        last(k) == CHOOSE i \in DOMAIN kvs : /\ kvs[i][1] = k
                                                           /\ \A j \in DOMAIN kvs :
                                                                kvs[j][1] = k => j <= i
                    IN  [i \in 1 .. Cardinality(set) |-> kvs[last(SetItems(set)[i][1])]]

SetM ==
    /\ Editing({"Map"})
    /\ \E e \in Entries : coll' = mapSet(coll, e) /\ val' = Put(e)

MapRemove ==
    /\ Editing({"Map"})
    /\ \E k \in Keys : coll' = mapRemove(coll, k) /\ val' = Drop(k)

NewSet ==
    /\ Editing({"Set"})
    /\ val = <<>>
    /\ \E vs \in UpTo(3, {<<k>> : k \in Keys}) :
          /\ coll' = Build("Set", buildSetData(vs))
          /\ val' = SetItems({vs[i][1] : i \in DOMAIN vs})

SetInsert ==
    /\ Editing({"Set"})
    /\ \E k \in Keys : coll' = setInsert(coll, <<k>>) /\ val' = Put(<<k>>)

SetRemove ==
    /\ Editing({"Set"})
    /\ \E k \in Keys : coll' = setRemove(coll, <<k>>) /\ val' = Drop(k)

Reader ==
    /\ kind = "Blob" /\ rd = <<>> /\ val # <<>>
    /\ rd' = NewReader
    /\ UNCHANGED <<kind, coll, val, iter>>

Read ==
    /\ rd # <<>>
    /\ \E n \in 1 .. 2 : rd' = blobRead(rd, n)
    /\ UNCHANGED <<kind, coll, val, iter>>

(* Seek with whence 0, 1 or 2: a negative position is an error and changes nothing. *)
Seek ==
    /\ rd # <<>>
    /\ \E from \in {0, rd.pos, numLeaves(coll)}, offset \in -1 .. 2 :
          /\ from + offset >= 0 /\ from + offset <= MaxLen + 1
          /\ rd' = blobSeek(rd, from + offset)
    /\ UNCHANGED <<kind, coll, val, iter>>

Iterator ==
    /\ kind = "Set" /\ iter = <<>>
    /\ \E op \in {"union", "inter"}, other \in SUBSET Keys : iter' = NewIterator(op, other)
    /\ UNCHANGED <<kind, coll, val, rd>>

Called(it, want) ==
    [it EXCEPT !.prev = IF iter.calls = 0 THEN Nil ELSE IF iter.ret = Nil THEN Top ELSE iter.ret,
               !.want = want, !.calls = 1]

IterNext ==
    /\ iter # <<>>
    /\ iter' = Called(IF iter.op = "union" THEN unionNext(iter) ELSE interNext(iter), Nil)
    /\ UNCHANGED <<kind, coll, val, rd>>

IterSkipTo ==
    /\ iter # <<>>
    /\ \E v \in Keys :
          iter' = [Called(IF iter.op = "union" THEN unionSkipTo(iter, v)
                                              ELSE interSkipTo(iter, v), v)
                   EXCEPT !.skipped = TRUE]
    /\ UNCHANGED <<kind, coll, val, rd>>

Next ==
    \/ Splice \/ Concat \/ NewBlob
    \/ NewMap \/ SetM \/ MapRemove
    \/ NewSet \/ SetInsert \/ SetRemove
    \/ Reader \/ Read \/ Seek
    \/ Iterator \/ IterNext \/ IterSkipTo

Spec == Init /\ [][Next]_vars

-----------------------------------------------------------------------------
(* Properties. *)

(* However a collection came about, its tree is the one a fresh chunker builds   *)
(* from its items: the boundaries that resume, finalizeCursor, Skip and concat   *)
(* keep or move are those of the rolling hash alone, so equal collections have   *)
(* equal hashes.                                                                 *)
Canonical == SameTree(coll, Build(kind, val))

(* What Get, At, First, Last and Has find in the tree, at every index and for     *)
(* every key.                                                                    *)
LookupsAgree ==
    /\ numLeaves(coll) = Len(val)
    /\ \A i \in 0 .. Len(val) : itemsFrom(newCursorAtIndex(coll, i)) = SubSeq(val, i + 1, Len(val))
    /\ \A i \in 1 .. Len(val) : itemAt(coll, i - 1) = val[i]
    /\ ~Indexed(kind) =>
          /\ \A k \in Keys : maybeGet(coll, k) = LET e == SelectSeq(val, LAMBDA x : EntryKey(x) = k)
                                                IN  IF e = <<>> THEN <<>> ELSE e[1]
          /\ \A k \in Keys : LET cur == newCursorAtValue(coll, k, FALSE)
                             IN  curValid(cur) => itemsFrom(cur) = SelectSeq(val, LAMBDA x : EntryKey(x) >= k)
          /\ val # <<>> => /\ firstOrLast(coll, FALSE) = val[1]
                           /\ firstOrLast(coll, TRUE) = val[Len(val)]

(* A BlobReader's two positions never part: the bytes left in the chunk it reads  *)
(* from are those of the blob at pos, and it reports EOF only at the end, also   *)
(* after the Read that exhausts a chunk and after Seek.                          *)
ReaderInStep ==
    rd # <<>> =>
        /\ itemsFrom(rd.cur) = SubSeq(val, rd.pos + 1, Len(val))
        /\ rd.open => LET rest == SubSeq(rd.data, rd.off + 1, Len(rd.data))
                      IN  rest = SubSeq(val, rd.pos + 1, rd.pos + Len(rest))
        /\ rd.eof => rd.pos >= Len(val)

(* The least value an iterator may return next: after the last one returned, and  *)
(* not before the argument of SkipTo.                                            *)
Due(it) ==
    LET left == {x \in it.elems : x > it.prev /\ x >= it.want}
    IN  IF left = {} THEN Nil ELSE CHOOSE x \in left : \A y \in left : x <= y

(* Union and intersection iterators return the elements in order, each once, none *)
(* left out; SkipTo on a union skips exactly the smaller ones.                   *)
IteratorsInOrder ==
    iter # <<>> /\ iter.calls > 0 /\ (iter.op = "union" \/ ~iter.skipped)
        => iter.ret = Due(iter)

(* However a collection is read, one finds what it stands for: by lookups, by the  *)
(* iterators of two sets, and through a BlobReader, across chunk boundaries.     *)
ReadsAgree == LookupsAgree /\ ReaderInStep /\ IteratorsInOrder

(* SkipTo on an intersection too "advances to and returns the next value in the   *)
(* iterator >= v".                                                               *)
IntersectionSkipsToNext ==
    iter # <<>> /\ iter.calls > 0 => iter.ret = Due(iter)
=============================================================================
