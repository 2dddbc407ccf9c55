----------------------------- MODULE ProllyTree -----------------------------
(* Noms collections are "prolly trees": a sequence of items cut into chunks      *)
(* where a rolling hash over the items' bytes matches a pattern, the chunks'     *)
(* meta tuples cut again, and so on up to one root.  This module translates the  *)
(* cursor (go/types/sequence_cursor.go), the chunker (sequence_chunker.go), the  *)
(* meta sequences and the searches that place a cursor.                          *)
(*                                                                               *)
(* An item is the sequence of bytes of its encoding; in a Set or a Map its first *)
(* byte is its key.  A node at level 0 holds items, a node at level n > 0 holds  *)
(* meta tuples.  A content hash is the node itself (no collisions), and Digest   *)
(* is what the chunker sees of it.  Indices are from 0, as in the code.          *)
EXTENDS Integers, SeqFold

CONSTANTS
    Window,          \* rollingValueHasher.window, in bytes
    Pattern,         \* a window is a boundary when its sum is Pattern - 1 mod Pattern
    BoundaryLevels   \* bound: nodes of this level or above never end on a boundary

ASSUME ChunkingConfig ==
    Window \in Nat \ {0} /\ Pattern \in Nat \ {0, 1} /\ BoundaryLevels \in Nat

Indexed(kind) == kind \in {"List", "Blob"}

(* A panic of the code, as the result of an operation. *)
Panic == [level |-> -1, items |-> <<>>]

Node(level, items) == [level |-> level, items |-> items]
isMetaSequence(seq) == seq.level > 0
seqLen(seq) == Len(seq.items)
getItem(seq, idx) == seq.items[idx + 1]
getChildSequence(seq, idx) == getItem(seq, idx).child

(* cumulativeNumberOfLeaves: the leaves below the first idx+1 tuples. *)
cumulativeNumberOfLeaves(seq, idx) ==
    Foldl(LAMBDA sum, mt : sum + mt.numLeaves, 0, SubSeq(seq.items, 1, idx + 1))

numLeaves(seq) ==
    IF isMetaSequence(seq) THEN cumulativeNumberOfLeaves(seq, seqLen(seq) - 1)
                           ELSE seqLen(seq)

getKey(seq, idx) == IF isMetaSequence(seq) THEN getItem(seq, idx).key
                                           ELSE getItem(seq, idx)[1]

(* Equal hashes: nodes of one level with the same items. *)
SameTree(a, b) == a.level = b.level /\ a.items = b.items

(* getCompareFn: leaf items are compared by value, meta tuples by hash. *)
compareFn(a, i, b, j) ==
    IF isMetaSequence(a) THEN SameTree(getChildSequence(a, i), getChildSequence(b, j))
                         ELSE getItem(a, i) = getItem(b, j)

-----------------------------------------------------------------------------
(* The rolling hash. *)

Mix(acc, byte) == 2 * acc + byte

(* metaHashValueBytes and hashValueBytes: the bytes an item contributes.  A tuple *)
(* contributes its child's hash, of which the model keeps a digest, and its key.  *)
ItemBytes(level, item) ==
    IF level = 0 THEN item ELSE <<item.digest, item.key>>

Digest(node) ==
    Foldl(LAMBDA acc, item : Foldl(Mix, acc, ItemBytes(node.level, item)) % (2 * Pattern),
          node.level, node.items)

Slide(win, byte) ==
    IF Len(win) < Window THEN Append(win, byte) ELSE Append(Tail(win), byte)

(* HashByte over the bytes of one item after ClearLastBoundary: the window that  *)
(* remains and whether any byte of the item crossed a boundary.                  *)
HashItem(win, level, item) ==
    Foldl(LAMBDA rv, byte :
                 LET w == Slide(rv.win, byte) IN
                 [win |-> w,
                  crossed |-> \/ rv.crossed
                              \/ /\ level < BoundaryLevels
                                 /\ Foldl(Mix, 0, w) % Pattern = Pattern - 1],
             [win |-> win, crossed |-> FALSE], ItemBytes(level, item))

-----------------------------------------------------------------------------
(* A cursor is the stack of its positions, the leaf first: the tail of a cursor  *)
(* is its parent.                                                                *)

CurLen(cur) == seqLen(Head(cur).seq)
CurIdx(cur) == Head(cur).idx
curValid(cur) == CurIdx(cur) >= 0 /\ CurIdx(cur) < CurLen(cur)
curItem(cur) == getItem(Head(cur).seq, CurIdx(cur))
At(cur, idx) == <<[Head(cur) EXCEPT !.idx = idx]>> \o Tail(cur)

(* sync: the leaf the parent's position points to. *)
curSync(parent, idx) ==
    <<[seq |-> getChildSequence(Head(parent).seq, CurIdx(parent)), idx |-> idx]>> \o parent

RECURSIVE advanceMaybeAllowPastEnd(_, _)
advanceMaybeAllowPastEnd(cur, allowPastEnd) ==
    IF CurIdx(cur) < CurLen(cur) - 1
    THEN [cur |-> At(cur, CurIdx(cur) + 1), ok |-> TRUE]
    ELSE IF CurIdx(cur) = CurLen(cur) THEN [cur |-> cur, ok |-> FALSE]
    ELSE LET up == IF Tail(cur) = <<>> THEN [cur |-> <<>>, ok |-> FALSE]
                   ELSE advanceMaybeAllowPastEnd(Tail(cur), FALSE)
         IN  IF up.ok THEN [cur |-> curSync(up.cur, 0), ok |-> TRUE]
             ELSE [cur |-> IF allowPastEnd THEN At(cur, CurIdx(cur) + 1) ELSE cur,
                   ok |-> FALSE]

curAdvance(cur) == advanceMaybeAllowPastEnd(cur, TRUE)

RECURSIVE retreatMaybeAllowBeforeStart(_, _)
retreatMaybeAllowBeforeStart(cur, allowBeforeStart) ==
    IF CurIdx(cur) > 0 THEN [cur |-> At(cur, CurIdx(cur) - 1), ok |-> TRUE]
    ELSE IF CurIdx(cur) = -1 THEN [cur |-> cur, ok |-> FALSE]
    ELSE LET up == IF Tail(cur) = <<>> THEN [cur |-> <<>>, ok |-> FALSE]
                   ELSE retreatMaybeAllowBeforeStart(Tail(cur), FALSE)
         IN  IF up.ok
             THEN LET leaf == curSync(up.cur, 0)
                  IN  [cur |-> At(leaf, CurLen(leaf) - 1), ok |-> TRUE]
             ELSE [cur |-> IF allowBeforeStart THEN At(cur, CurIdx(cur) - 1) ELSE cur,
                   ok |-> FALSE]

(* advanceCursorToOffset: in a meta sequence, the tuple that contains idx (the    *)
(* last one if none does); in a leaf, idx, or the end.                           *)
OffsetIn(seq, idx) ==
    IF isMetaSequence(seq)
    THEN CHOOSE i \in 0 .. seqLen(seq) - 1 :
            /\ i = seqLen(seq) - 1 \/ idx < cumulativeNumberOfLeaves(seq, i)
            /\ \A k \in 0 .. i - 1 : idx >= cumulativeNumberOfLeaves(seq, k)
    ELSE IF idx > seqLen(seq) THEN seqLen(seq) ELSE idx

RECURSIVE CursorBelow(_, _, _)
CursorBelow(parent, seq, idx) ==
    LET at == OffsetIn(seq, idx)
        cur == <<[seq |-> seq, idx |-> at]>> \o parent
    IN  IF isMetaSequence(seq)
        THEN CursorBelow(cur, getChildSequence(seq, at),
                         idx - cumulativeNumberOfLeaves(seq, at - 1))
        ELSE cur

newCursorAtIndex(seq, idx) == CursorBelow(<<>>, seq, idx)

(* Mutant: the search is for a key greater than the one sought. *)
seekToAfter(seq, key, lastPositionIfNotFound) ==
    LET i == CHOOSE k \in 0 .. seqLen(seq) :
                /\ k = seqLen(seq) \/ getKey(seq, k) > key
                /\ \A j \in 0 .. k - 1 : getKey(seq, j) <= key
    IN  IF i = seqLen(seq) /\ lastPositionIfNotFound THEN i - 1 ELSE i

(* seekTo: the smallest position whose key is not less than key. *)
seekTo(seq, key, lastPositionIfNotFound) ==
    LET i == CHOOSE k \in 0 .. seqLen(seq) :
                /\ k = seqLen(seq) \/ getKey(seq, k) >= key
                /\ \A j \in 0 .. k - 1 : getKey(seq, j) < key
    IN  IF i = seqLen(seq) /\ lastPositionIfNotFound THEN i - 1 ELSE i

(* newCursorAt with a key: a cursor that runs off the end of a meta sequence      *)
(* stays at that level.                                                          *)
RECURSIVE CursorAtKey(_, _, _, _)
CursorAtKey(parent, seq, key, forInsertion) ==
    LET at == seekTo(seq, key, forInsertion /\ isMetaSequence(seq))
        cur == <<[seq |-> seq, idx |-> at]>> \o parent
    IN  IF at < seqLen(seq) /\ isMetaSequence(seq)
        THEN CursorAtKey(cur, getChildSequence(seq, at), key, forInsertion)
        ELSE cur

newCursorAtValue(seq, key, forInsertion) == CursorAtKey(<<>>, seq, key, forInsertion)

(* newCursorAt with emptyKey: the first item, or the last one.  newSequenceCursor *)
(* counts -1 from the end and panics when the sequence is empty.                 *)
RECURSIVE CursorAtEnd(_, _, _)
CursorAtEnd(parent, seq, last) ==
    LET cur == <<[seq |-> seq, idx |-> IF last THEN seqLen(seq) - 1 ELSE 0]>> \o parent
    IN  IF isMetaSequence(seq)
        THEN CursorAtEnd(cur, getChildSequence(seq, CurIdx(cur)), last) ELSE cur

(* iterSequence from a cursor: everything from its position on. *)
RECURSIVE itemsFrom(_)
itemsFrom(cur) ==
    IF curValid(cur) THEN <<curItem(cur)>> \o itemsFrom(curAdvance(cur).cur) ELSE <<>>

-----------------------------------------------------------------------------
(* A chunker is the stack of its levels, the leaf chunker first: the tail of a   *)
(* chunker is its parent.  A level's cursor is <<>> where the code's is nil.     *)

NewLevel(cur, level) == [cur |-> cur, current |-> <<>>, win |-> <<>>, level |-> level]

(* What the chunk functions give a finished chunk as its key: an indexed sequence *)
(* its number of leaves, an ordered one its last key.                            *)
indexedLeafKey(node) == seqLen(node)
orderedLeafKey(node) == getKey(node, seqLen(node) - 1)
indexedMetaKey(node) == Foldl(LAMBDA sum, mt : sum + mt.key, 0, node.items)
orderedMetaKey(node) == getKey(node, seqLen(node) - 1)

newMetaTuple(kind, node) ==
    [child |-> node,
     digest |-> Digest(node),
     numLeaves |-> numLeaves(node),
     key |-> IF isMetaSequence(node)
             THEN IF Indexed(kind) THEN indexedMetaKey(node) ELSE orderedMetaKey(node)
             ELSE IF Indexed(kind) THEN indexedLeafKey(node) ELSE orderedLeafKey(node)]

(* What resume walks back over: how many items to append to the current chunk,   *)
(* how many to hash, and the bytes the window still lacks.                       *)
RECURSIVE WalkBack(_, _)
WalkBackTo(back, level, w, inChunk) ==
    LET bytes == Len(ItemBytes(level, curItem(back.cur)))
    IN  CASE inChunk /\ back.ok ->
                WalkBack(level, [w EXCEPT !.cur = back.cur, !.append = @ + 1,
                                          !.prime = IF w.bytes > 0 THEN @ + 1 ELSE @,
                                          !.bytes = IF @ > 0 THEN @ - bytes ELSE @])
          [] ~inChunk /\ w.bytes > 0 /\ back.ok ->
                WalkBack(level, [w EXCEPT !.cur = back.cur, !.inChunk = FALSE,
                                          !.prime = @ + 1, !.bytes = @ - bytes])
          [] OTHER -> w
WalkBack(level, w) ==
    WalkBackTo(retreatMaybeAllowBeforeStart(w.cur, FALSE), level, w, w.inChunk /\ CurIdx(w.cur) > 0)

RECURSIVE chAppend(_, _, _)
RECURSIVE handleChunkBoundary(_, _)
RECURSIVE newSequenceChunker(_, _, _)
RECURSIVE Replay(_, _, _, _)

(* The second half of resume: re-append and re-hash what was walked over. *)
Replay(kind, ch, w, beyondFinal) ==
    IF w.prime = 0 /\ w.append = 0 THEN ch
    ELSE LET c == Head(ch)
             item == curItem(c.cur)
             cur == curAdvance(c.cur).cur
             rv == HashItem(c.win, c.level, item)
             both == <<[c EXCEPT !.cur = cur, !.win = rv.win, !.current = Append(@, item)]>>
                     \o Tail(ch)
         IN  CASE w.prime > w.append ->
                    Replay(kind, <<[c EXCEPT !.cur = cur, !.win = rv.win]>> \o Tail(ch),
                           [w EXCEPT !.prime = @ - 1], beyondFinal)
               [] w.append > w.prime ->
                    Replay(kind, <<[c EXCEPT !.cur = cur, !.current = Append(@, item)]>> \o Tail(ch),
                           [w EXCEPT !.append = @ - 1], beyondFinal)
               [] OTHER ->
                    Replay(kind, IF rv.crossed /\ beyondFinal /\ w.append = 1
                                 THEN handleChunkBoundary(kind, both) ELSE both,
                           [w EXCEPT !.append = @ - 1, !.prime = @ - 1], beyondFinal)

(* newSequenceChunker and resume: a chunker that continues where cur stands.  A   *)
(* cursor past the end takes the final item again, to learn whether it ended on  *)
(* an explicit boundary.                                                         *)
newSequenceChunker(kind, cur, level) ==
    LET beyond == CurIdx(cur) = CurLen(cur)
        parents == IF Tail(cur) = <<>> THEN <<>> ELSE newSequenceChunker(kind, Tail(cur), level + 1)
        Resumed(w) == Replay(kind, <<NewLevel(w.cur, level)>> \o parents, w, beyond)
        From(c, n) == WalkBack(level, [cur |-> c, append |-> n, prime |-> n,
                                       bytes |-> Window, inChunk |-> TRUE])
        Beyond(back) == IF back.ok THEN From(back.cur, 1) ELSE From(cur, 0)
    IN  IF cur = <<>> THEN <<NewLevel(<<>>, level)>>
        ELSE Resumed(IF beyond THEN Beyond(retreatMaybeAllowBeforeStart(cur, FALSE)) ELSE From(cur, 0))

(* createParent *)
createParent(kind, c) ==
    newSequenceChunker(kind, IF c.cur = <<>> THEN <<>> ELSE Tail(c.cur), c.level + 1)

chAppend(kind, ch, item) ==
    LET c == Head(ch)
        rv == HashItem(c.win, c.level, item)
        done == <<[c EXCEPT !.current = Append(@, item), !.win = rv.win]>> \o Tail(ch)
    IN  IF rv.crossed THEN handleChunkBoundary(kind, done) ELSE done

(* createSequence, and the tuple goes to the parent. *)
handleChunkBoundary(kind, ch) ==
    LET c == Head(ch)
        mt == newMetaTuple(kind, Node(c.level, c.current))
        parent == IF Tail(ch) = <<>> THEN createParent(kind, c) ELSE Tail(ch)
    IN  <<[c EXCEPT !.current = <<>>]>> \o chAppend(kind, parent, mt)

(* Skip: stepping into the next chunk makes the parent skip its tuple too. *)
RECURSIVE chSkip(_)
skipParentIfExists(ch) ==
    IF Tail(ch) # <<>> /\ ch[2].cur # <<>> THEN <<Head(ch)>> \o chSkip(Tail(ch)) ELSE ch
chSkip(ch) ==
    LET adv == curAdvance(Head(ch).cur)
        moved == <<[Head(ch) EXCEPT !.cur = adv.cur]>> \o Tail(ch)
    IN  IF adv.ok /\ CurIdx(adv.cur) = 0 THEN skipParentIfExists(moved) ELSE moved

(* The loop of finalizeCursor: the rest of the old sequence, up to the first old  *)
(* boundary beyond the hash window.                                              *)
RECURSIVE FinalizeLoop(_, _, _, _, _)
FinalizeLoop(kind, ch, hashWindow, isBoundary, first) ==
    LET c0 == Head(ch) IN
    IF ~(curValid(c0.cur) /\ (hashWindow > 0 \/ CurIdx(c0.cur) > 0 \/ ~isBoundary))
    THEN ch
    ELSE LET skipped == IF first \/ CurIdx(c0.cur) = 0 THEN skipParentIfExists(ch) ELSE ch
             item == curItem(c0.cur)
             cur == curAdvance(c0.cur).cur
             rv == HashItem(c0.win, c0.level, item)
             hashed == hashWindow > 0
             boundary == IF hashed THEN rv.crossed ELSE CurIdx(cur) = 0
             next == <<[c0 EXCEPT !.cur = cur, !.current = Append(@, item),
                                  !.win = IF hashed THEN rv.win ELSE @]>> \o Tail(skipped)
         IN  FinalizeLoop(kind,
                IF boundary THEN handleChunkBoundary(kind, next) ELSE next,
                IF hashed THEN hashWindow - Len(ItemBytes(c0.level, item)) ELSE hashWindow,
                boundary, FALSE)

(* Mutant: stops at the next old boundary, although the window still holds items   *)
(* that were not there when it was drawn.                                        *)
finalizeCursorAtOnce(kind, ch) ==
    IF ~curValid(Head(ch).cur) THEN skipParentIfExists(ch)
    ELSE FinalizeLoop(kind, ch, 0, Head(ch).current = <<>>, TRUE)

finalizeCursor(kind, ch) ==
    IF ~curValid(Head(ch).cur) THEN skipParentIfExists(ch)
    ELSE FinalizeLoop(kind, ch, Window, Head(ch).current = <<>>, TRUE)

anyPending(ch) == \E i \in DOMAIN ch : ch[i].current # <<>>

(* The canonical root below a chain of single-tuple nodes. *)
RECURSIVE RootBelow(_)
RootBelow(node) ==
    IF isMetaSequence(node) /\ seqLen(node) = 1 THEN RootBelow(getChildSequence(node, 0))
                                                ELSE node

(* Done, after finalizeCursor: the parents are done if one of them has something,   *)
(* and otherwise this level holds the root.                                      *)
RECURSIVE chDone(_, _)
DoneAt(kind, fin) ==
    LET c == Head(fin)
    IN  IF Tail(fin) # <<>> /\ anyPending(Tail(fin))
        THEN chDone(kind, Tail(IF c.current # <<>> THEN handleChunkBoundary(kind, fin) ELSE fin))
        ELSE IF c.level = 0 \/ Len(c.current) > 1 THEN Node(c.level, c.current)
        ELSE IF Len(c.current) = 1 THEN RootBelow(c.current[1].child)
        ELSE Panic
chDone(kind, ch) ==
    DoneAt(kind, IF Head(ch).cur # <<>> THEN finalizeCursor(kind, ch) ELSE ch)

(* An empty chunker fed the items one by one: NewList, NewSet, NewMap. *)
Build(kind, items) ==
    chDone(kind, Foldl(LAMBDA ch, item : chAppend(kind, ch, item),
                          newSequenceChunker(kind, <<>>, 0), items))

(* splice: skip deleteCount items at the cursor, append the new ones. *)
spliceAt(kind, cur, deleteCount, items) ==
    LET skipped == Iterate(chSkip, newSequenceChunker(kind, cur, 0), deleteCount)
    IN  chDone(kind, Foldl(LAMBDA ch, item : chAppend(kind, ch, item), skipped, items))

(* concat: the chunker resumes at the end of fst, then its cursors are replaced   *)
(* by cursors at the start of snd and it is finalized.                           *)
concat(kind, fst, snd) ==
    LET Joined(ch, cur) ==
          LET levels == IF Len(cur) + 1 > Len(ch) THEN Len(cur) + 1 ELSE Len(ch)
              Padded(i) == IF i <= Len(ch) THEN ch[i] ELSE NewLevel(<<>>, i - 1)
          IN  [i \in 1 .. levels |->
                 IF i <= Len(cur) THEN [Padded(i) EXCEPT !.cur = SubSeq(cur, i, Len(cur))]
                                  ELSE Padded(i)]
    IN  CASE numLeaves(fst) = 0 -> snd
          [] numLeaves(snd) = 0 -> fst
          [] OTHER -> chDone(kind, Joined(newSequenceChunker(kind, newCursorAtIndex(fst, numLeaves(fst)), 0),
                                          newCursorAtIndex(snd, 0)))
=============================================================================
