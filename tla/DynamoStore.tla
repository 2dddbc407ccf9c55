----------------------------- MODULE DynamoStore -----------------------------
(***************************************************************************)
(* chunks.DynamoStore: callers put chunks into a bounded queue that one    *)
(* goroutine writes to DynamoDB in batches, and queue reads for another.   *)
(* unwrittenPuts holds the chunks that are on their way; requestWg counts  *)
(* the requests that a worker has not yet taken care of.                   *)
(*                                                                         *)
(* DynamoDB handles a part of a batch and reports the rest as unprocessed, *)
(* or answers ProvisionedThroughputExceededException and nothing else.     *)
(***************************************************************************)
EXTENDS Integers, Sequences, FiniteSets, SequencesExt

CONSTANTS
  DHash,            \* hashes of chunks
  Client,           \* goroutines that use the store
  ClientOps,        \* ClientOps[t]: the calls of t
  WriteBufferSize,  \* capacity of writeQueue
  MaxPutCount,      \* dynamoMaxPutCount
  NoRoot,
  MaxDynamoCalls,   \* bound: calls of each client
  MaxPartial        \* bound: batches that are handled in part or refused

VARIABLES
  dtable,         \* chunks in DynamoDB
  droot,
  unwrittenPuts,
  writeQueue,
  readQueue,      \* clients whose Get or Has waits
  dwg,            \* requestWg
  writer,         \* what sendWriteRequests is doing
  reader,         \* clients whose requests sendGetRequests has taken
  dcall,          \* dcall[t]: the call in progress
  dcalls,
  accepted,       \* chunks of which a Put has returned and none is in progress
  throttled,      \* chunks of a BatchWriteItem that was refused
  partial,
  dclosed,
  dalive          \* no goroutine has panicked

dvars == <<dtable, droot, unwrittenPuts, writeQueue, readQueue, dwg, writer, reader, dcall, dcalls,
           accepted, throttled, partial, dclosed, dalive>>

NoCall == [op |-> "none", pc |-> "none"]
NoBatch == [pc |-> "idle", chunks |-> <<>>, todo |-> {}]

DynamoInit ==
  /\ dtable = {} /\ droot = NoRoot
  /\ unwrittenPuts = {} /\ writeQueue = <<>> /\ readQueue = <<>>
  /\ dwg = 0
  /\ writer = NoBatch /\ reader = {}
  /\ dcall = [t \in Client |-> NoCall]
  /\ dcalls = [t \in Client |-> 0]
  /\ accepted = {} /\ throttled = {} /\ partial = 0
  /\ dclosed = FALSE /\ dalive = TRUE

DynamoBegin(t, c) ==
  /\ dalive /\ ~dclosed
  /\ \A u \in Client : dcall[u].op # "Close"
  /\ c.op \in ClientOps[t]
  /\ dcall[t] = NoCall
  /\ dcalls[t] < MaxDynamoCalls
  /\ dcalls' = [dcalls EXCEPT ![t] = @ + 1]
  /\ dcall' = [dcall EXCEPT ![t] = c]

In(t, pc) == dalive /\ dcall[t].pc = pc
To(t, pc) == dcall' = [dcall EXCEPT ![t].pc = pc]
Out(t) == dcall' = [dcall EXCEPT ![t] = NoCall]

\* Another call is about to count or queue h.
Underway(t, h) ==
  \E u \in Client \ {t} :
     \/ dcall[u].op = "Put" /\ dcall[u].h = h
     \/ dcall[u].op = "PutMany" /\ dcall[u].todo # <<>> /\ Head(dcall[u].todo) = h

----------------------------------------------------------------------------
\* Put: unwrittenPuts.Add; a chunk that is on its way is not queued again.
PutChunk(t, h) ==
  /\ DynamoBegin(t, [op |-> "Put", h |-> h, pc |-> IF h \in unwrittenPuts THEN "return" ELSE "count"])
  /\ unwrittenPuts' = unwrittenPuts \cup {h}
  /\ UNCHANGED <<dtable, droot, writeQueue, readQueue, dwg, writer, reader, accepted, throttled, partial, dclosed, dalive>>

PutCounted(t) ==
  /\ In(t, "count") /\ dcall[t].op = "Put"
  /\ dwg' = dwg + 1
  /\ To(t, "send")
  /\ UNCHANGED <<dtable, droot, unwrittenPuts, writeQueue, readQueue, writer, reader, dcalls, accepted, throttled, partial, dclosed, dalive>>

PutSent(t) ==
  /\ In(t, "send") /\ Len(writeQueue) < WriteBufferSize
  /\ writeQueue' = Append(writeQueue, dcall[t].h)
  /\ To(t, "return")
  /\ UNCHANGED <<dtable, droot, unwrittenPuts, readQueue, dwg, writer, reader, dcalls, accepted, throttled, partial, dclosed, dalive>>

PutReturned(t) ==
  /\ In(t, "return") /\ dcall[t].op = "Put"
  /\ accepted' = accepted \cup {h \in {dcall[t].h} : ~Underway(t, h)}
  /\ Out(t)
  /\ UNCHANGED <<dtable, droot, unwrittenPuts, writeQueue, readQueue, dwg, writer, reader, dcalls, throttled, partial, dclosed, dalive>>

PutManyChunks(t, hs) ==
  /\ DynamoBegin(t, [op |-> "PutMany", todo |-> hs, put |-> {}, pc |-> "next"])
  /\ UNCHANGED <<dtable, droot, unwrittenPuts, writeQueue, readQueue, dwg, writer, reader, accepted, throttled, partial, dclosed, dalive>>

\* The next chunk of PutMany: it is on its way, or the queue takes it, or the rest
\* is refused with a BackpressureError.
PutManyNext(t) ==
  /\ In(t, "next") /\ dcall[t].todo # <<>>
  /\ LET h == Head(dcall[t].todo) IN
     IF h \in unwrittenPuts
     THEN /\ dcall' = [dcall EXCEPT ![t].todo = Tail(@), ![t].put = @ \cup {h}]
          /\ UNCHANGED writeQueue
     ELSE IF Len(writeQueue) < WriteBufferSize
     THEN /\ writeQueue' = Append(writeQueue, h)
          /\ To(t, "count")
     ELSE /\ dcall' = [dcall EXCEPT ![t].todo = <<>>]
          /\ UNCHANGED writeQueue
  /\ UNCHANGED <<dtable, droot, unwrittenPuts, readQueue, dwg, writer, reader, dcalls, accepted, throttled, partial, dclosed, dalive>>

\* Only then is it counted ...
PutManyCounted(t) ==
  /\ In(t, "count") /\ dcall[t].op = "PutMany"
  /\ dwg' = dwg + 1
  /\ To(t, "remember")
  /\ UNCHANGED <<dtable, droot, unwrittenPuts, writeQueue, readQueue, writer, reader, dcalls, accepted, throttled, partial, dclosed, dalive>>

\* ... and added to unwrittenPuts.
PutManyAdded(t) ==
  /\ In(t, "remember")
  /\ unwrittenPuts' = unwrittenPuts \cup {Head(dcall[t].todo)}
  /\ dcall' = [dcall EXCEPT ![t].todo = Tail(@), ![t].put = @ \cup {Head(dcall[t].todo)}, ![t].pc = "next"]
  /\ UNCHANGED <<dtable, droot, writeQueue, readQueue, dwg, writer, reader, dcalls, accepted, throttled, partial, dclosed, dalive>>

PutManyReturned(t) ==
  /\ In(t, "next") /\ dcall[t].todo = <<>>
  /\ accepted' = accepted \cup {h \in dcall[t].put : ~Underway(t, h)}
  /\ Out(t)
  /\ UNCHANGED <<dtable, droot, unwrittenPuts, writeQueue, readQueue, dwg, writer, reader, dcalls, throttled, partial, dclosed, dalive>>

\* Get and Has: unwrittenPuts first.
GetOrHas(t, h) ==
  /\ DynamoBegin(t, [op |-> "Get", h |-> h, due |-> h \in accepted,
                     pc |-> IF h \in unwrittenPuts THEN "answered" ELSE "queue",
                     found |-> h \in unwrittenPuts, refused |-> FALSE])
  /\ UNCHANGED <<dtable, droot, unwrittenPuts, writeQueue, readQueue, dwg, writer, reader, accepted, throttled, partial, dclosed, dalive>>

\* requestWg.Add and the send to readQueue, whose capacity is out of reach here.
QueueRead(t) ==
  /\ In(t, "queue")
  /\ dwg' = dwg + 1
  /\ readQueue' = Append(readQueue, t)
  /\ To(t, "wait")
  /\ UNCHANGED <<dtable, droot, unwrittenPuts, writeQueue, writer, reader, dcalls, accepted, throttled, partial, dclosed, dalive>>

GetReturned(t) ==
  /\ In(t, "answered")
  /\ Out(t)
  /\ UNCHANGED <<dtable, droot, unwrittenPuts, writeQueue, readQueue, dwg, writer, reader, dcalls, accepted, throttled, partial, dclosed, dalive>>

\* UpdateRoot waits until all requests are taken care of; then a conditional put.
DynamoUpdateRoot(t, current, last) ==
  /\ DynamoBegin(t, [op |-> "UpdateRoot", current |-> current, last |-> last, pc |-> "drain"])
  /\ UNCHANGED <<dtable, droot, unwrittenPuts, writeQueue, readQueue, dwg, writer, reader, accepted, throttled, partial, dclosed, dalive>>

UpdateRootReturned(t) ==
  /\ In(t, "drain") /\ dcall[t].op = "UpdateRoot"
  /\ dwg = 0
  /\ droot' = IF droot = dcall[t].last THEN dcall[t].current ELSE droot
  /\ Out(t)
  /\ UNCHANGED <<dtable, unwrittenPuts, writeQueue, readQueue, dwg, writer, reader, dcalls, accepted, throttled, partial, dclosed, dalive>>

\* Close, which is the last call.
DynamoClose(t) ==
  /\ \A u \in Client : dcall[u] = NoCall
  /\ DynamoBegin(t, [op |-> "Close", pc |-> "drain"])
  /\ UNCHANGED <<dtable, droot, unwrittenPuts, writeQueue, readQueue, dwg, writer, reader, accepted, throttled, partial, dclosed, dalive>>

CloseReturned(t) ==
  /\ In(t, "drain") /\ dcall[t].op = "Close"
  /\ dwg = 0
  /\ writer = NoBatch /\ reader = {}
  /\ dclosed' = TRUE
  /\ Out(t)
  /\ UNCHANGED <<dtable, droot, unwrittenPuts, writeQueue, readQueue, dwg, writer, reader, dcalls, accepted, throttled, partial, dalive>>

----------------------------------------------------------------------------
\* sendWriteRequests: a batch of what is queued.
CollectWrites ==
  /\ dalive /\ ~dclosed /\ writer = NoBatch /\ writeQueue # <<>>
  /\ LET n == IF Len(writeQueue) < MaxPutCount THEN Len(writeQueue) ELSE MaxPutCount
         chunks == SubSeq(writeQueue, 1, n)
     IN  /\ writer' = [pc |-> "write", chunks |-> chunks, todo |-> ToSet(chunks)]
         /\ writeQueue' = SubSeq(writeQueue, n + 1, Len(writeQueue))
  /\ UNCHANGED <<dtable, droot, unwrittenPuts, readQueue, dwg, reader, dcall, dcalls, accepted, throttled, partial, dclosed, dalive>>

\* BatchWriteItem handles all, or some and returns the others.
BatchWriteItem ==
  /\ dalive /\ writer.pc = "write"
  /\ \E rest \in SUBSET writer.todo :
        /\ rest # {} => partial < MaxPartial
        /\ partial' = IF rest = {} THEN partial ELSE partial + 1
        /\ dtable' = dtable \cup (writer.todo \ rest)
        /\ writer' = [writer EXCEPT !.todo = rest, !.pc = IF rest = {} THEN "clear" ELSE "write"]
  /\ UNCHANGED <<droot, unwrittenPuts, writeQueue, readQueue, dwg, reader, dcall, dcalls, accepted, throttled, dclosed, dalive>>

\* ... or throughput is exceeded: the error is not fatal, and the output that comes
\* with it has no UnprocessedItems.
WriteThrottled ==
  /\ dalive /\ writer.pc = "write"
  /\ partial < MaxPartial
  /\ partial' = partial + 1
  /\ throttled' = throttled \cup writer.todo
  /\ writer' = [writer EXCEPT !.todo = {}, !.pc = "clear"]
  /\ UNCHANGED <<dtable, droot, unwrittenPuts, writeQueue, readQueue, dwg, reader, dcall, dcalls, accepted, dclosed, dalive>>

\* Mutant: the chunks leave unwrittenPuts when they are taken off the queue.
ClearPutsEarly ==
  /\ dalive /\ writer.pc \in {"write", "clear"}
  /\ ToSet(writer.chunks) \cap unwrittenPuts # {} \/ writer.pc = "clear"
  /\ unwrittenPuts' = unwrittenPuts \ ToSet(writer.chunks)
  /\ writer' = [writer EXCEPT !.pc = IF writer.pc = "clear" THEN "count" ELSE "write"]
  /\ UNCHANGED <<dtable, droot, writeQueue, readQueue, dwg, reader, dcall, dcalls, accepted, throttled, partial, dclosed, dalive>>

ClearPuts ==
  /\ dalive /\ writer.pc = "clear"
  /\ unwrittenPuts' = unwrittenPuts \ ToSet(writer.chunks)
  /\ writer' = [writer EXCEPT !.pc = "count"]
  /\ UNCHANGED <<dtable, droot, writeQueue, readQueue, dwg, reader, dcall, dcalls, accepted, throttled, partial, dclosed, dalive>>

\* requestWg.Add(-len(chunks)), which panics if PutMany has not counted them yet.
WritesCounted ==
  /\ dalive /\ writer.pc = "count"
  /\ dwg' = dwg - Len(writer.chunks)
  /\ dalive' = (dwg' >= 0)
  /\ writer' = NoBatch
  /\ UNCHANGED <<dtable, droot, unwrittenPuts, writeQueue, readQueue, reader, dcall, dcalls, accepted, throttled, partial, dclosed>>

\* sendGetRequests counts the requests as done when it takes them.
CollectReads ==
  /\ dalive /\ ~dclosed /\ reader = {} /\ readQueue # <<>>
  /\ reader' = ToSet(readQueue)
  /\ readQueue' = <<>>
  /\ dwg' = dwg - Len(readQueue)
  /\ UNCHANGED <<dtable, droot, unwrittenPuts, writeQueue, writer, dcall, dcalls, accepted, throttled, partial, dclosed, dalive>>

\* BatchGetItem, of all or of some; what is not in the table is answered at the end.
BatchGetItem ==
  /\ dalive /\ reader # {}
  /\ \E rest \in SUBSET reader :
        /\ rest # {} => partial < MaxPartial
        /\ partial' = IF rest = {} THEN partial ELSE partial + 1
        /\ dcall' = [t \in Client |->
                       IF t \in reader \ rest
                       THEN [dcall[t] EXCEPT !.pc = "answered", !.found = dcall[t].h \in dtable]
                       ELSE dcall[t]]
        /\ reader' = rest
  /\ UNCHANGED <<dtable, droot, unwrittenPuts, writeQueue, readQueue, dwg, writer, dcalls, accepted, throttled, dclosed, dalive>>

\* Throughput is exceeded: no UnprocessedKeys either, and batch.Close answers empty.
ReadThrottled ==
  /\ dalive /\ reader # {}
  /\ partial < MaxPartial
  /\ partial' = partial + 1
  /\ dcall' = [t \in Client |->
                 IF t \in reader THEN [dcall[t] EXCEPT !.pc = "answered", !.refused = TRUE] ELSE dcall[t]]
  /\ reader' = {}
  /\ UNCHANGED <<dtable, droot, unwrittenPuts, writeQueue, readQueue, dwg, writer, dcalls, accepted, throttled, dclosed, dalive>>

ClientStep(t) ==
  \/ PutCounted(t) \/ PutSent(t) \/ PutReturned(t)
  \/ PutManyNext(t) \/ PutManyCounted(t) \/ PutManyAdded(t) \/ PutManyReturned(t)
  \/ QueueRead(t) \/ GetReturned(t) \/ UpdateRootReturned(t) \/ CloseReturned(t)

ClientCall(t) ==
  \/ \E h \in DHash : PutChunk(t, h) \/ GetOrHas(t, h)
  \/ \E g, h \in DHash : g # h /\ PutManyChunks(t, <<g, h>>)
  \/ \E h \in accepted : DynamoUpdateRoot(t, h, droot)
  \/ DynamoClose(t)

DynamoWorkers ==
  \/ CollectWrites \/ BatchWriteItem \/ WriteThrottled \/ ClearPuts \/ WritesCounted
  \/ CollectReads \/ BatchGetItem \/ ReadThrottled

DynamoNext == DynamoWorkers \/ \E t \in Client : ClientStep(t) \/ ClientCall(t)

----------------------------------------------------------------------------
\* A chunk whose Put or PutMany has returned is found by every later Get, while it
\* moves from the queue to the table; and once a root refers to it, or the store is
\* closed, it is in the table.  (Requests that DynamoDB
\* throttles are the exception.)
DynamoPutsKept ==
  /\ \A h \in accepted \ throttled : dalive => h \in unwrittenPuts \cup dtable
  /\ \A t \in Client :
        (dcall[t].op = "Get" /\ dcall[t].pc = "answered" /\ dcall[t].due
           /\ ~dcall[t].refused /\ dcall[t].h \notin throttled) => dcall[t].found
  /\ droot # NoRoot => droot \in dtable \cup throttled
  /\ dclosed => accepted \subseteq dtable \cup throttled
=============================================================================
