--------------------------- MODULE HTTPBatchStore ---------------------------
(***************************************************************************)
(* An httpBatchStore, the threads of the client that use it (a ValueStore  *)
(* that writes values, a Pull that copies them, readers), and the handlers *)
(* of the RemoteDatabaseServer it talks to.                                *)
(*                                                                         *)
(* The server answers a batch of reads as ReadBatch.tla promises, and its  *)
(* orderedparallel pool as OrderedParallel.tla does.                       *)
(***************************************************************************)
EXTENDS Naturals, Sequences, FiniteSets, SequencesExt, SeqFold

CONSTANTS
  Hash,              \* the hashes of chunks, 1 .. n
  Refs,              \* Refs[h]: the chunks that chunk h refers to, all below h
  Thread,
  None,
  Ops,               \* Ops[t]: the calls thread t makes
  ReadBufferSize,    \* readBufferSize
  RateLimit,         \* httpChunkSinkConcurrency
  BatchSize,         \* batchSize of the ValidatingBatchingSink
  MaxCalls,          \* bound: calls of each thread
  Asked,             \* bound: the hashes that are read
  MaxFaults          \* bound: PutManys refused with backpressure and lost requests

VARIABLES
  unwritten,   \* unwrittenPuts, in insertion order
  flushOrder,  \* "insert" or "reverse"
  mu,          \* the thread that holds cacheMu for writing
  queue,       \* queue[k]: getQueue and hasQueue
  worker,      \* worker[k]: the requests the goroutine of queue k has collected
  slot,        \* the rateLimit channel: who occupies each of its places
  requestWg,
  failing,     \* requests that ReadBatch.Close has still to fail
  call,        \* call[t]: the call in progress
  calls,
  present,     \* the hashes the client's ValueStore takes to be written
  cs,          \* the server's ChunkStore
  root,
  wv,          \* the handleWriteValue in progress
  up,          \* the server process lives
  pushed,      \* PutManys that failed with backpressure
  lost,        \* requests the network lost
  alive,       \* the client process lives
  dropped      \* history: chunks whose write failed

client == <<unwritten, flushOrder, mu, queue, worker, slot, requestWg, failing>>
server == <<cs, root, wv, up, pushed>>
vars == <<client, call, calls, present, server, lost, alive, dropped>>

Kinds == {"Get", "Has"}
Slots == 1 .. RateLimit
Pending == ToSet(unwritten)

Init ==
  /\ unwritten = <<>>
  /\ flushOrder = "insert"
  /\ mu = None
  /\ queue = [k \in Kinds |-> <<>>]
  /\ worker = [k \in Kinds |-> <<>>]
  /\ slot = [s \in Slots |-> None]
  /\ requestWg = 0
  /\ failing = {}
  /\ call = [t \in Thread |-> None]
  /\ calls = [t \in Thread |-> 0]
  /\ present = {}
  /\ cs = {}
  /\ root = None
  /\ wv = None
  /\ up = TRUE
  /\ pushed = 0
  /\ lost = 0
  /\ alive = TRUE
  /\ dropped = {}

Begin(t, op, c) ==
  /\ alive
  /\ op \in Ops[t]
  /\ call[t] = None
  /\ calls[t] < MaxCalls[t]
  /\ calls' = [calls EXCEPT ![t] = @ + 1]
  /\ call' = [call EXCEPT ![t] = c]

Goto(t, pc) == call' = [call EXCEPT ![t].pc = pc]
Return(t) == call' = [call EXCEPT ![t] = None]

----------------------------------------------------------------------------
\* A client thread acts only while its process lives.
Running(t, pc) == alive /\ call[t] # None /\ call[t].pc = pc

\* Reads.  |due| records whether the chunk could be read when the call began.
Read(t, op, h) ==
  /\ Begin(t, op, [op |-> op, pc |-> "check", h |-> h, due |-> h \in Pending \cup cs,
                   answer |-> "none"])
  /\ UNCHANGED <<client, present, server, lost, alive, dropped>>

CheckCache(t) ==
  /\ Running(t, "check")
  /\ mu = None
  /\ IF call[t].h \in Pending
     THEN call' = [call EXCEPT ![t].pc = "answered", ![t].answer = "found"]
     ELSE Goto(t, "enqueue")
  /\ UNCHANGED <<client, calls, present, server, lost, alive, dropped>>

Enqueue(t) ==
  /\ Running(t, "enqueue")
  /\ requestWg' = requestWg + 1
  /\ queue' = [queue EXCEPT ![call[t].op] = Append(@, [h |-> call[t].h, t |-> t])]
  /\ Goto(t, "wait")
  /\ UNCHANGED <<unwritten, flushOrder, mu, worker, slot, failing,
                 calls, present, server, lost, alive, dropped>>

\* How many of the queued requests fit into one batch.
BatchEnd(q) ==
  CHOOSE n \in 1 .. Len(q) :
    /\ n = Len(q) \/ Cardinality({q[i].h : i \in 1 .. n}) >= ReadBufferSize
    /\ \A m \in 1 .. n - 1 : Cardinality({q[i].h : i \in 1 .. m}) < ReadBufferSize

\* sendReadRequests drains the queue into a batch.
CollectRequests(k) ==
  /\ alive /\ worker[k] = <<>> /\ queue[k] # <<>>
  /\ LET n == BatchEnd(queue[k]) IN
     /\ worker' = [worker EXCEPT ![k] = SubSeq(queue[k], 1, n)]
     /\ queue' = [queue EXCEPT ![k] = SubSeq(@, n + 1, Len(@))]
  /\ UNCHANGED <<unwritten, flushOrder, mu, slot, requestWg, failing,
                 call, calls, present, server, lost, alive, dropped>>

\* A place in rateLimit, and a goroutine that sends the request.
SendReadRequests(k, s) ==
  /\ alive /\ worker[k] # <<>> /\ slot[s] = None
  /\ slot' = [slot EXCEPT ![s] = [kind |-> k, reqs |-> ToSet(worker[k]), res |-> None]]
  /\ worker' = [worker EXCEPT ![k] = <<>>]
  /\ UNCHANGED <<unwritten, flushOrder, mu, queue, requestWg, failing,
                 call, calls, present, server, lost, alive, dropped>>

IsBatch(s) == alive /\ slot[s] # None /\ "reqs" \in DOMAIN slot[s]

\* handleGetRefs, handleHasRefs: the answer is what cs holds now.
HandleRead(s) ==
  /\ IsBatch(s) /\ slot[s].res = None
  /\ up
  /\ slot' = [slot EXCEPT ![s].res = {q \in slot[s].reqs : q.h \in cs}]
  /\ UNCHANGED <<unwritten, flushOrder, mu, queue, worker, requestWg, failing,
                 call, calls, present, server, lost, alive, dropped>>

\* getRefs and hasRefs answer the callers: those found, and for Has the others too.
AnswerCallers(s) ==
  /\ IsBatch(s) /\ slot[s].res # None
  /\ LET rest == IF slot[s].kind = "Get" THEN slot[s].reqs \ slot[s].res ELSE {}
         told == slot[s].reqs \ rest
     IN  /\ call' = [t \in Thread |->
                       IF \E r \in told : r.t = t
                       THEN [call[t] EXCEPT !.pc = "answered",
                               !.answer = IF \E r \in slot[s].res : r.t = t
                                          THEN "found" ELSE "absent"]
                       ELSE call[t]]
         /\ failing' = failing \cup rest
         /\ requestWg' = requestWg - Cardinality(slot[s].reqs)
  /\ slot' = [slot EXCEPT ![s] = None]
  /\ UNCHANGED <<unwritten, flushOrder, mu, queue, worker,
                 calls, present, server, lost, alive, dropped>>

\* ReadBatch.Close, after the requests were taken off requestWg.
FailRequest(r) ==
  /\ alive /\ r \in failing
  /\ failing' = failing \ {r}
  /\ call' = [call EXCEPT ![r.t].pc = "answered", ![r.t].answer = "absent"]
  /\ UNCHANGED <<unwritten, flushOrder, mu, queue, worker, slot, requestWg,
                 calls, present, server, lost, alive, dropped>>

\* No answer: getRefs and hasRefs panic in a goroutine of their own, which ends the
\* client.
ReadPanics(s) ==
  /\ IsBatch(s) /\ slot[s].res = None
  /\ ~up
  /\ alive' = FALSE
  /\ call' = [t \in Thread |-> None]
  /\ slot' = [slot EXCEPT ![s] = None]
  /\ UNCHANGED <<unwritten, flushOrder, mu, queue, worker, requestWg, failing,
                 calls, present, server, lost, dropped>>

\* ValueStore.ReadValue knows the value it read and all that it refers to.
ReadReturns(t) ==
  /\ Running(t, "answered")
  /\ present' = IF call[t].op = "Get" /\ call[t].answer = "found"
                THEN present \cup {call[t].h} \cup Refs[call[t].h] ELSE present
  /\ Return(t)
  /\ UNCHANGED <<client, calls, server, lost, alive, dropped>>

----------------------------------------------------------------------------
\* Writes.
SetReverseFlushOrder == flushOrder' = "reverse"

\* unwrittenPuts.Insert; the hints are copied onto themselves and have no effect.
SchedulePut(h) ==
  /\ mu = None
  /\ unwritten' = IF h \in Pending THEN unwritten ELSE Append(unwritten, h)

\* ValueStore.WriteValue: what is taken to be written is not put again; the
\* chunks it refers to must be known (chunkHintsFromCache).
WriteValue(t, h) ==
  /\ alive
  /\ "WriteValue" \in Ops[t]
  /\ call[t] = None
  /\ calls[t] < MaxCalls[t]
  /\ calls' = [calls EXCEPT ![t] = @ + 1]
  /\ h \notin present
  /\ Refs[h] \subseteq present
  /\ SchedulePut(h)
  /\ present' = present \cup {h}
  /\ UNCHANGED <<flushOrder, mu, queue, worker, slot, requestWg, failing,
                 call, server, lost, alive, dropped>>

\* The chunks below h, the tallest first.
RECURSIVE Below(_)
Below(h) == {h} \cup UNION {Below(r) : r \in Refs[h]}
TopDown(s) == SortBy(s, LAMBDA a, b : a > b)

\* PullWithFlush of what h reaches, unless the sink already has h.
Pull(t, h) ==
  /\ Begin(t, "Pull",
           [op |-> "Pull", pc |-> "copy",
            todo |-> IF h \in Pending \cup cs THEN <<>> ELSE TopDown(Below(h))])
  /\ UNCHANGED <<client, present, server, lost, alive, dropped>>

\* traverseSource of the next chunk.
PullChunk(t) ==
  /\ Running(t, "copy") /\ call[t].todo # <<>>
  /\ mu = None
  /\ LET h == Head(call[t].todo) IN
     IF h \in Pending \cup cs
     THEN UNCHANGED <<unwritten, flushOrder>>
     ELSE SchedulePut(h) /\ SetReverseFlushOrder
  /\ call' = [call EXCEPT ![t].todo = Tail(@)]
  /\ UNCHANGED <<mu, queue, worker, slot, requestWg, failing,
                 calls, present, server, lost, alive, dropped>>

\* validatingBatchStore().AddHints and .Flush at the end of the pull.
PullFlush(t) ==
  /\ Running(t, "copy") /\ call[t].todo = <<>>
  /\ mu = None
  /\ SetReverseFlushOrder
  /\ call' = [call EXCEPT ![t] = [op |-> "Flush", pc |-> "slot", must |-> Pending]]
  /\ UNCHANGED <<unwritten, mu, queue, worker, slot, requestWg, failing,
                 calls, present, server, lost, alive, dropped>>

Flush(t) ==
  /\ Begin(t, "Flush", [op |-> "Flush", pc |-> "slot", must |-> Pending])
  /\ UNCHANGED <<client, present, server, lost, alive, dropped>>

\* UpdateRoot, which begins with a Flush.
UpdateRoot(t, current, last) ==
  /\ Begin(t, "UpdateRoot",
           [op |-> "UpdateRoot", pc |-> "slot", must |-> Pending,
            current |-> current, last |-> last])
  /\ UNCHANGED <<client, present, server, lost, alive, dropped>>

SendSlot(t, s) ==
  /\ Running(t, "slot") /\ slot[s] = None
  /\ slot' = [slot EXCEPT ![s] = [flush |-> t]]
  /\ Goto(t, "lock")
  /\ UNCHANGED <<unwritten, flushOrder, mu, queue, worker, requestWg, failing,
                 calls, present, server, lost, alive, dropped>>

FreeSlot(t) == slot' = [s \in Slots |-> IF slot[s] = [flush |-> t] THEN None ELSE slot[s]]

\* ExtractChunks in flushOrder, as the body of a request to writeValue.
WriteRequest(t) ==
  [t |-> t, pc |-> "loop",
   chunks |-> IF flushOrder = "insert" THEN unwritten ELSE Reverse(unwritten),
   read |-> 0,       \* chunks deserialized
   decoded |-> <<>>, \* decoded[i]: the i-th chunk was not known when decoded
   i |-> 0,          \* chunks enqueued
   batch |-> {},     \* enqueued, and not yet put
   known |-> {},     \* the cache of the sink's ValueStore
   bpe |-> FALSE,
   reader |-> "reading"]

\* Nothing to send: the order stays as it is.
SendNothing(t) ==
  /\ Running(t, "lock") /\ mu = None
  /\ unwritten = <<>>
  /\ FreeSlot(t)
  /\ Goto(t, "drain")
  /\ UNCHANGED <<unwritten, flushOrder, mu, queue, worker, requestWg, failing,
                 calls, present, server, lost, alive, dropped>>

\* Mutant: the chunks are taken out of the cache before they are sent.
SendWriteRequestUnlocked(t) ==
  /\ Running(t, "lock") /\ mu = None
  /\ wv = None
  /\ unwritten # <<>>
  /\ unwritten' = <<>>
  /\ wv' = IF up THEN WriteRequest(t) ELSE None
  /\ Goto(t, IF up THEN "sent" ELSE "error")
  /\ UNCHANGED <<flushOrder, mu, queue, worker, slot, requestWg, failing,
                 calls, present, cs, root, up, pushed, lost, alive, dropped>>

\* cacheMu is held until the answer comes, so that no second request is handled at
\* the same time; one that failed is given the time to end.
SendWriteRequest(t) ==
  /\ Running(t, "lock") /\ mu = None
  /\ wv = None
  /\ unwritten # <<>>
  /\ mu' = t
  /\ wv' = IF up THEN WriteRequest(t) ELSE None
  /\ Goto(t, IF up THEN "sent" ELSE "error")
  /\ UNCHANGED <<unwritten, flushOrder, queue, worker, slot, requestWg, failing,
                 calls, present, cs, root, up, pushed, lost, alive, dropped>>

\* Mutant: the place in rateLimit is not given back.
ClearedKeepsSlot(t) ==
  /\ unwritten' = <<>>
  /\ flushOrder' = "insert"
  /\ mu' = None
  /\ UNCHANGED slot

\* The deferred functions of sendWriteRequests, on success and on panic.
Cleared(t) ==
  /\ unwritten' = <<>>
  /\ flushOrder' = "insert"
  /\ mu' = None
  /\ FreeSlot(t)

\* Mutant: 429 ends the loop as 201 does.
ResendGivesUp(t) ==
  /\ Running(t, "retry")
  /\ Cleared(t)
  /\ Goto(t, "drain")
  /\ UNCHANGED <<queue, worker, requestWg, failing, calls, present, server, lost, alive, dropped>>

\* 429: everything is sent again.
Resend(t) ==
  /\ Running(t, "retry")
  /\ wv' = IF up THEN WriteRequest(t) ELSE None
  /\ Goto(t, IF up THEN "sent" ELSE "error")
  /\ UNCHANGED <<client, calls, present, cs, root, up, pushed, lost, alive, dropped>>

\* 201 Created.
Sent(t) ==
  /\ Running(t, "created")
  /\ Cleared(t)
  /\ Goto(t, "drain")
  /\ UNCHANGED <<queue, worker, requestWg, failing, calls, present, server, lost, alive, dropped>>

\* Any other status, or no answer: the call panics, and what it held is gone.
SendFails(t) ==
  /\ Running(t, "error")
  /\ dropped' = dropped \cup Pending
  /\ Cleared(t)
  /\ Return(t)
  /\ UNCHANGED <<queue, worker, requestWg, failing, calls, present, server, lost, alive>>

\* requestWg.Wait() at the end of Flush.
FlushReturns(t) ==
  /\ Running(t, "drain")
  /\ requestWg = 0
  /\ IF call[t].op = "Flush" THEN Return(t) ELSE Goto(t, "post")
  /\ UNCHANGED <<client, calls, present, server, lost, alive, dropped>>

\* handleRootPost: the proposed root is in cs.
RootAcceptable(h) == h \in cs

\* POST root: 200, 409, or 400 and a panic; a dead server gives an error.
PostRoot(t) ==
  /\ Running(t, "post")
  /\ root' = IF up /\ RootAcceptable(call[t].current) /\ root = call[t].last
             THEN call[t].current ELSE root
  /\ Return(t)
  /\ UNCHANGED <<client, calls, present, cs, wv, up, pushed, lost, alive, dropped>>

----------------------------------------------------------------------------
\* handleWriteValue.  Its deserializer, the pool that decodes, and the loop that
\* enqueues run concurrently.
InLoop == wv # None /\ wv.pc = "loop"
Respond(pc) ==
  call' = [call EXCEPT ![wv.t] = IF @ = None THEN @ ELSE [@ EXCEPT !.pc = pc]]

\* DeserializeToChan reads one more chunk.
DeserializeToChan ==
  /\ wv # None /\ up /\ wv.reader = "reading" /\ wv.read < Len(wv.chunks)
  /\ wv' = [wv EXCEPT !.read = @ + 1]
  /\ UNCHANGED <<client, call, calls, present, cs, root, up, pushed, lost, alive, dropped>>

\* It has read all: recoverToError sends on errChan, which nobody may receive from,
\* and which a handler that panicked has closed.
DeserializeEnds ==
  /\ wv # None /\ up /\ wv.reader = "reading" /\ wv.read = Len(wv.chunks)
  /\ IF wv.pc = "loop"
     THEN wv' = [wv EXCEPT !.reader = "result"] /\ UNCHANGED up
     ELSE wv' = None /\ up' = FALSE
  /\ UNCHANGED <<client, call, calls, present, cs, root, pushed, lost, alive, dropped>>

\* The connection breaks: the client has its error, the deserializer panics and
\* recovers, and the handler, which gets the error last, has nobody to answer to.
ConnectionLost ==
  /\ InLoop /\ up /\ wv.reader = "reading"
  /\ lost + pushed < MaxFaults
  /\ lost' = lost + 1
  /\ Respond("error")
  /\ wv' = [wv EXCEPT !.chunks = SubSeq(@, 1, wv.read), !.reader = "failed"]
  /\ UNCHANGED <<client, calls, present, cs, root, up, pushed, alive, dropped>>

\* DecodeUnqueued of the next chunk: nothing is left to do for a known one.
DecodeUnqueued ==
  /\ InLoop /\ up /\ Len(wv.decoded) < wv.read
  /\ wv' = [wv EXCEPT !.decoded = Append(@, wv.chunks[Len(@) + 1] \notin wv.known)]
  /\ UNCHANGED <<client, call, calls, present, cs, root, up, pushed, lost, alive, dropped>>

NextChunk == wv.chunks[wv.i + 1]

\* Mutant: a chunk is taken to be known when the client says so.
UnresolvedTrusting == {}

\* ensureChunksInCache: the refs of the next chunk that can be resolved neither
\* in the cache nor in the ChunkStore.
Unresolved == Refs[NextChunk] \ (wv.known \cup cs)

\* ReadValue of those not in the cache makes what they refer to known as well.
Learned ==
  LET read == Refs[NextChunk] \ wv.known
  IN  wv.known \cup read \cup UNION {Refs[r] : r \in read} \cup {NextChunk}

\* ValidatingBatchingSink.Enqueue, which spills a full batch.
EnqueueChunk ==
  /\ InLoop /\ up /\ wv.i < Len(wv.decoded)
  /\ wv.decoded[wv.i + 1] /\ ~wv.bpe
  /\ Unresolved = {}
  /\ LET full == wv.batch \cup {NextChunk} IN
     IF Cardinality(full) < BatchSize
     THEN /\ wv' = [wv EXCEPT !.i = @ + 1, !.known = Learned, !.batch = full]
          /\ UNCHANGED <<cs, pushed>>
     ELSE \/ /\ wv' = [wv EXCEPT !.i = @ + 1, !.known = Learned, !.batch = {}]
             /\ cs' = cs \cup full
             /\ UNCHANGED pushed
          \/ /\ lost + pushed < MaxFaults
             /\ pushed' = pushed + 1
             /\ wv' = [wv EXCEPT !.i = @ + 1, !.known = Learned, !.batch = {}, !.bpe = TRUE]
             /\ UNCHANGED cs
  /\ UNCHANGED <<client, call, calls, present, root, up, lost, alive, dropped>>

\* A chunk already known is skipped; after backpressure the loop only drains.
SkipChunk ==
  /\ InLoop /\ up /\ wv.i < Len(wv.decoded)
  /\ ~wv.decoded[wv.i + 1] \/ wv.bpe
  /\ wv' = [wv EXCEPT !.i = @ + 1]
  /\ UNCHANGED <<client, call, calls, present, cs, root, up, pushed, lost, alive, dropped>>

\* A ref to a chunk that is not there: d.Chk.Fail, which d.Try lets through; the
\* HTTP server drops the connection.  The deferred close of errChan makes the
\* goroutine that sends on it panic, which ends the process.
EnqueuePanics ==
  /\ InLoop /\ up /\ wv.i < Len(wv.decoded)
  /\ wv.decoded[wv.i + 1] /\ ~wv.bpe
  /\ Unresolved # {}
  /\ IF wv.reader # "failed" THEN Respond("error") ELSE UNCHANGED call
  /\ IF wv.reader = "reading"
     THEN wv' = [wv EXCEPT !.pc = "panicked"] /\ UNCHANGED up
     ELSE wv' = None /\ up' = FALSE
  /\ UNCHANGED <<client, calls, present, cs, root, pushed, lost, alive, dropped>>

\* All chunks are through and errChan had an error: 400, to a client that is gone.
WriteFails ==
  /\ InLoop /\ up /\ wv.i = Len(wv.chunks) /\ wv.reader = "failed"
  /\ wv' = None
  /\ UNCHANGED <<client, call, calls, present, cs, root, up, pushed, lost, alive, dropped>>

\* ... or had none: ValidatingBatchingSink.Flush, and 201 or 429.
WriteValueReturns ==
  /\ InLoop /\ up /\ wv.i = Len(wv.chunks) /\ wv.reader = "result"
  /\ wv' = None
  /\ \/ /\ ~wv.bpe
        /\ cs' = cs \cup wv.batch
        /\ Respond("created")
        /\ UNCHANGED pushed
     \/ /\ ~wv.bpe /\ wv.batch # {}
        /\ lost + pushed < MaxFaults
        /\ pushed' = pushed + 1
        /\ Respond("retry")
        /\ UNCHANGED cs
     \/ /\ wv.bpe
        /\ Respond("retry")
        /\ UNCHANGED <<cs, pushed>>
  /\ UNCHANGED <<client, calls, present, root, up, lost, alive, dropped>>

----------------------------------------------------------------------------
ServerStep ==
  \/ DeserializeToChan \/ DeserializeEnds \/ DecodeUnqueued
  \/ EnqueueChunk \/ SkipChunk \/ EnqueuePanics \/ WriteFails \/ WriteValueReturns

WorkerStep ==
  \/ \E k \in Kinds : CollectRequests(k) \/ \E s \in Slots : SendReadRequests(k, s)
  \/ \E s \in Slots : HandleRead(s) \/ AnswerCallers(s) \/ ReadPanics(s)
  \/ \E r \in failing : FailRequest(r)

ThreadStep(t) ==
  \/ CheckCache(t) \/ Enqueue(t) \/ ReadReturns(t)
  \/ PullChunk(t) \/ PullFlush(t)
  \/ \E s \in Slots : SendSlot(t, s)
  \/ SendNothing(t) \/ SendWriteRequest(t) \/ Resend(t) \/ Sent(t) \/ SendFails(t)
  \/ FlushReturns(t) \/ PostRoot(t)

Calls(t) ==
  \/ \E h \in Asked : Read(t, "Get", h) \/ Read(t, "Has", h)
  \/ \E h \in Hash : WriteValue(t, h) \/ Pull(t, h)
  \/ \E h \in present : UpdateRoot(t, h, root)
  \/ Flush(t)

Next == ServerStep \/ WorkerStep \/ ConnectionLost \/ \E t \in Thread : ThreadStep(t) \/ Calls(t)

Spec == Init /\ [][Next]_vars

\* The goroutines of client and server run.
FairSpec ==
  /\ Spec
  /\ WF_vars(ServerStep) /\ WF_vars(WorkerStep)
  /\ \A t \in Thread : WF_vars(ThreadStep(t))

----------------------------------------------------------------------------
\* SchedulePut: "c must be visible to subsequent Get() calls upon return".  A Get or
\* Has of a chunk that was scheduled or stored when the call began finds it, also
\* when a Flush moves the chunk from the client to the server meanwhile.
ReadsSeePuts ==
  \A t \in Thread :
     (call[t] # None /\ call[t].op \in Kinds /\ call[t].pc = "answered"
        /\ call[t].due /\ call[t].h \notin dropped)
       => call[t].answer = "found"

\* A Flush that returns has all that was scheduled when it began on the server,
\* except what the failed Flush of another thread dropped.
FlushPersists ==
  [][\A t \in Thread : FlushReturns(t) => call[t].must \subseteq cs \cup dropped]_vars

\* The server holds no chunk without the chunks it refers to, at no time between
\* the batches of a request, after backpressure, a lost connection or a panic; and
\* its root is such a chunk.  DecodeUnqueued relies on it: it skips the chunks that
\* a chunk already stored refers to.
ServerRefComplete ==
  /\ \A h \in cs : Refs[h] \subseteq cs
  /\ root \in cs \cup {None}

\* Every call of a client that lives ends: with rateLimit full, with requestWg not
\* empty, behind cacheMu, after backpressure, with the server gone.
CallsReturn == \A t \in Thread : call[t] # None ~> call[t] = None

\* SchedulePut: "c ... is guaranteed to be persistent after a call to Flush()".  No
\* write fails as long as the network loses nothing.
FlushGuarantee == lost = 0 => dropped = {}
=============================================================================
