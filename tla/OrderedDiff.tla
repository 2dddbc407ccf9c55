----------------------------- MODULE OrderedDiff -----------------------------
(* The diff of two ordered collections (go/types/ordered_sequences_diff.go):     *)
(* left-right, top-down, and orderedSequenceDiffBest, which runs both in         *)
(* goroutines and streams the changes of whichever is ahead.                     *)
EXTENDS SequenceDiff, SequencesExt

CONSTANTS
    Diffs,           \* the diffs to run: Diffed(last, current) of some ordered collections
    MaxMatrix        \* DEFAULT_MAX_SPLICE_MATRIX_SIZE

PanicChange == Change("panic", -1)

(* isCurrentEqual and getCurrentKey *)
isCurrentEqual(a, b) == compareFn(Head(a).seq, CurIdx(a), Head(b).seq, CurIdx(b))
getCurrentKey(cur) == getKey(Head(cur).seq, CurIdx(cur))

syncWithIdx(parent, hasMore, allowPastEnd) ==
    LET cur == curSync(parent, 0)
    IN  At(cur, IF hasMore THEN 0 ELSE IF allowPastEnd THEN CurLen(cur) ELSE CurLen(cur) - 1)

(* Past the common run; whole chunks at a time where the parents are equal too. *)
RECURSIVE doFastForward(_, _, _, _, _)
doFastForward(allowPastEnd, a, b, aHasMore, bHasMore) ==
    IF ~(aHasMore /\ bHasMore /\ isCurrentEqual(a, b))
    THEN [a |-> a, b |-> b, aHasMore |-> aHasMore, bHasMore |-> bHasMore]
    ELSE IF Len(a) > 1 /\ Len(b) > 1 /\ isCurrentEqual(Tail(a), Tail(b))
    THEN LET up == doFastForward(FALSE, Tail(a), Tail(b), TRUE, TRUE)
         IN  doFastForward(allowPastEnd, syncWithIdx(up.a, up.aHasMore, allowPastEnd),
                           syncWithIdx(up.b, up.bHasMore, allowPastEnd),
                           up.aHasMore, up.bHasMore)
    ELSE LET na == advanceMaybeAllowPastEnd(a, allowPastEnd)
             nb == advanceMaybeAllowPastEnd(b, allowPastEnd)
         IN  doFastForward(allowPastEnd, na.cur, nb.cur, na.ok, nb.ok)

RECURSIVE LeftRight(_, _)
LeftRight(a, b) ==
    LET ff == doFastForward(TRUE, a, b, TRUE, TRUE)
    IN  CASE curValid(a) /\ curValid(b) ->
                IF isCurrentEqual(a, b) THEN LeftRight(ff.a, ff.b)
                ELSE IF getCurrentKey(b) < getCurrentKey(a)
                THEN <<Change("added", getCurrentKey(b))>> \o LeftRight(a, curAdvance(b).cur)
                ELSE IF getCurrentKey(a) < getCurrentKey(b)
                THEN <<Change("removed", getCurrentKey(a))>> \o LeftRight(curAdvance(a).cur, b)
                ELSE <<Change("modified", getCurrentKey(a))>>
                     \o LeftRight(curAdvance(a).cur, curAdvance(b).cur)
          [] curValid(a) /\ ~curValid(b) ->
                <<Change("removed", getCurrentKey(a))>> \o LeftRight(curAdvance(a).cur, b)
          [] ~curValid(a) /\ curValid(b) ->
                <<Change("added", getCurrentKey(b))>> \o LeftRight(a, curAdvance(b).cur)
          [] OTHER -> <<>>

orderedSequenceDiffLeftRight(last, current) ==
    LeftRight(CursorAtEnd(<<>>, last, FALSE), CursorAtEnd(<<>>, current, FALSE))

(* orderedSequenceDiffInternalNodes.  The type assertions to metaSequence panic   *)
(* on anything else; an emptySequence is something else.                         *)
RECURSIVE InternalNodes(_, _, _, _)
InternalNodes(last, current, lastHeight, currentHeight) ==
    LET Child(seq) == getCompositeChildSequence(seq, 0, seqLen(seq))
        Below(s) == InternalNodes(getCompositeChildSequence(last, s.at, s.removed),
                                  getCompositeChildSequence(current, s.from, s.added),
                                  lastHeight - 1, currentHeight - 1)
    IN  IF lastHeight > currentHeight
        THEN InternalNodes(Child(last), current, lastHeight - 1, currentHeight)
        ELSE IF currentHeight > lastHeight
        THEN InternalNodes(last, Child(current), lastHeight, currentHeight - 1)
        ELSE IF ~isMetaSequence(last) /\ ~isMetaSequence(current)
        THEN orderedSequenceDiffLeftRight(last, current)
        ELSE IF ~isMetaSequence(last) \/ ~isMetaSequence(current) THEN <<PanicChange>>
        ELSE Foldl(LAMBDA sent, s : sent \o Below(s), <<>>,
                   calcSplices(seqLen(last), seqLen(current), MaxMatrix, EqualItems(last, current)))

orderedSequenceDiffTopDown(last, current) ==
    InternalNodes(last, current, last.level, current.level)

-----------------------------------------------------------------------------
(* orderedSequenceDiffBest.  A producer is what it has left to send and whether   *)
(* it runs; its stop channel buffers one token.  The consumer is the caller,     *)
(* which receives changes until it gives up and closes stopChan.                 *)

VARIABLES
    want,      \* the keys that differ, by the reference definition
    lr,        \* the left-right goroutine: [left, open, stop]
    td,        \* the top-down goroutine
    main,      \* where orderedSequenceDiffBest is
    held,      \* the change it is sending on
    count,     \* [lr, td]: lrChangeCount, tdChangeCount
    changes,   \* what the caller received
    stopped    \* the caller closed stopChan

diffVars == <<want, lr, td, main, held, count, changes, stopped>>

(* Reference: the keys where two collections differ, in key order. *)
Items(tree) == ToSet(itemsFrom(CursorAtEnd(<<>>, tree, FALSE)))
KeyDiff(last, current) ==
    LET l == Items(last)
        c == Items(current)
        lastKeys == {item[1] : item \in l}
        currentKeys == {item[1] : item \in c}
        differ == {item[1] : item \in (l \ c) \cup (c \ l)}
        ks == SetToSortSeq(differ, <)
    IN  [i \in 1 .. Len(ks) |->
            Change(IF ks[i] \notin lastKeys THEN "added"
                   ELSE IF ks[i] \notin currentKeys THEN "removed" ELSE "modified", ks[i])]

(* What a diff comes down to: the keys that differ and what each goroutine sends. *)
Diffed(last, current) ==
    [want |-> KeyDiff(last, current),
     lr |-> orderedSequenceDiffLeftRight(last, current),
     td |-> orderedSequenceDiffTopDown(last, current)]

Producer(left) == [left |-> left, open |-> TRUE, stop |-> 0]

Init ==
    /\ \E d \in Diffs : want = d.want /\ lr = Producer(d.lr) /\ td = Producer(d.td)
    /\ main = "mux"
    /\ held = PanicChange
    /\ count = [lr |-> 0, td |-> 0]
    /\ changes = <<>>
    /\ stopped = FALSE

Ready(p) == p.open /\ p.left # <<>> /\ Head(p.left) # PanicChange

(* A goroutine returns: nothing left, or its stop token in sendChange's select. *)
LeftRightReturns ==
    /\ lr.open
    /\ \/ lr.left = <<>> /\ lr' = [lr EXCEPT !.open = FALSE]
       \/ Ready(lr) /\ lr.stop = 1 /\ lr' = [lr EXCEPT !.open = FALSE, !.stop = 0]
    /\ UNCHANGED <<want, td, main, held, count, changes, stopped>>

TopDownReturns ==
    /\ td.open
    /\ \/ td.left = <<>> /\ td' = [td EXCEPT !.open = FALSE]
       \/ Ready(td) /\ td.stop = 1 /\ td' = [td EXCEPT !.open = FALSE, !.stop = 0]
    /\ UNCHANGED <<want, lr, main, held, count, changes, stopped>>

(* A panic in a goroutine ends the process. *)
TopDownPanics ==
    /\ td.open /\ td.left # <<>> /\ Head(td.left) = PanicChange
    /\ main # "crashed" /\ main' = "crashed"
    /\ UNCHANGED <<want, lr, td, held, count, changes, stopped>>

(* The cases of the multiplexing select. *)
ReceiveLeftRight ==
    /\ main = "mux" /\ Ready(lr)
    /\ lr' = [lr EXCEPT !.left = Tail(@)]
    /\ held' = Head(lr.left)
    /\ count' = [count EXCEPT !.lr = @ + 1]
    /\ main' = "sendLR"
    /\ UNCHANGED <<want, td, changes, stopped>>

(* Mutant: top-down takes over when it has only drawn level. *)
ReceiveTopDownLevel ==
    /\ main = "mux" /\ Ready(td)
    /\ td' = [td EXCEPT !.left = Tail(@)]
    /\ count' = [count EXCEPT !.td = @ + 1]
    /\ IF count.td + 1 >= count.lr
       THEN held' = Head(td.left) /\ main' = "sendTD"
       ELSE UNCHANGED <<held, main>>
    /\ UNCHANGED <<want, lr, changes, stopped>>

ReceiveTopDown ==
    /\ main = "mux" /\ Ready(td)
    /\ td' = [td EXCEPT !.left = Tail(@)]
    /\ count' = [count EXCEPT !.td = @ + 1]
    /\ IF count.td + 1 > count.lr
       THEN held' = Head(td.left) /\ main' = "sendTD"
       ELSE UNCHANGED <<held, main>>
    /\ UNCHANGED <<want, lr, changes, stopped>>

ProducerClosed ==
    /\ \/ main = "mux" /\ (~lr.open \/ ~td.open)
       \/ main = "drain" /\ ~td.open
    /\ main' = "deferLR"
    /\ UNCHANGED <<want, lr, td, held, count, changes, stopped>>

(* stopChan wins a select, at the multiplexer or in sendChange. *)
Stopped ==
    /\ stopped /\ main \in {"mux", "sendLR", "sendTD", "send"}
    /\ main' = "deferLR"
    /\ UNCHANGED <<want, lr, td, held, count, changes, stopped>>

(* sendChange: the caller takes the change. *)
sendChange ==
    /\ main \in {"sendLR", "sendTD", "send"} /\ ~stopped
    /\ changes' = Append(changes, held)
    /\ main' = CASE main = "sendLR" -> "mux"
                 [] main = "sendTD" -> "stopLR"
                 [] main = "send" -> "drain"
    /\ UNCHANGED <<want, lr, td, held, count, stopped>>

(* lrStopChan <- struct{}{} once top-down has overtaken; blocks while the buffer  *)
(* is full.                                                                      *)
StopLeftRight ==
    /\ main = "stopLR" /\ lr.stop = 0
    /\ lr' = [lr EXCEPT !.stop = 1]
    /\ main' = "drain"
    /\ UNCHANGED <<want, td, held, count, changes, stopped>>

Drain ==
    /\ main = "drain" /\ Ready(td)
    /\ td' = [td EXCEPT !.left = Tail(@)]
    /\ held' = Head(td.left)
    /\ main' = "send"
    /\ UNCHANGED <<want, lr, count, changes, stopped>>

(* The deferred function: a token for each goroutine, then wg.Wait. *)
Deferred ==
    /\ \/ main = "deferLR" /\ lr.stop = 0 /\ lr' = [lr EXCEPT !.stop = 1]
          /\ main' = "deferTD" /\ UNCHANGED td
       \/ main = "deferTD" /\ td.stop = 0 /\ td' = [td EXCEPT !.stop = 1]
          /\ main' = "wait" /\ UNCHANGED lr
       \/ main = "wait" /\ ~lr.open /\ ~td.open /\ main' = "done" /\ UNCHANGED <<lr, td>>
    /\ UNCHANGED <<want, held, count, changes, stopped>>

CallerStops ==
    /\ ~stopped /\ main \notin {"done", "crashed"}
    /\ stopped' = TRUE
    /\ UNCHANGED <<want, lr, td, main, held, count, changes>>

Multiplex == ReceiveLeftRight \/ ReceiveTopDown \/ ProducerClosed \/ Stopped \/ sendChange
             \/ StopLeftRight \/ Drain \/ Deferred

(* What the goroutines do by themselves; the caller need not stop. *)
Goroutines == LeftRightReturns \/ TopDownReturns \/ TopDownPanics \/ Multiplex

-----------------------------------------------------------------------------
(* orderedSequenceDiffBest hands the caller the keys that differ, each once and    *)
(* in key order, whichever goroutine wins each race: a caller that never stops    *)
(* has the whole diff when the function returns, one that stops has a part of it. *)
BestIsTheDiff ==
    /\ IsPrefix(changes, want)
    /\ main = "done" /\ ~stopped => changes = want

(* "Top-down ... efficiently returns the complete diff": no type assertion fails. *)
TopDownComplete == main # "crashed"
=============================================================================
