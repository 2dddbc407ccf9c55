----------------------------- MODULE ReadBatch -----------------------------
(***************************************************************************)
(* One batch of Get or Has requests on its way through an httpBatchStore:  *)
(* the server streams its answer, the client reads it as it comes and      *)
(* answers the callers, each of which waits on a channel of its own.       *)
(***************************************************************************)
EXTENDS Naturals, Sequences, FiniteSets, SequencesExt

CONSTANTS
  Hash,
  Caller,           \* the requests of the batch
  MaxGetBatchSize,  \* maxGetBatchSize of the handlers
  RateLimit,        \* bound on the Put goroutines of Deserialize
  MaxPuts           \* bound on the chunks one answer can carry

VARIABLES
  kind,    \* "get" or "has"
  want,    \* want[c]: the hash c asked for
  stored,  \* what the server's ChunkStore holds
  todo,    \* hashes the handler has not come to
  wire,    \* what it wrote and the client has not read: <<hash, answer>>
  puts,    \* the Put goroutines: <<[h, pc, left]>>
  batch,   \* hashes in the ReadBatch
  answer,  \* answer[c]: "none" as long as c waits
  closed,  \* ReadBatch.Close has run
  alive    \* the client has not panicked

vars == <<kind, want, stored, todo, wire, puts, batch, answer, closed, alive>>

Wanted(h) == {c \in Caller : want[c] = h}

\* buildHashesRequest and extractHashes: each hash once, in the order of a Go map.
Init ==
  /\ kind \in {"get", "has"}
  /\ want \in [Caller -> Hash]
  /\ stored \in SUBSET Hash
  /\ batch = {want[c] : c \in Caller}
  /\ todo \in SetToSeqs(batch)
  /\ wire = <<>>
  /\ puts = <<>>
  /\ answer = [c \in Caller |-> "none"]
  /\ closed = FALSE
  /\ alive = TRUE

\* What goes to the stream for hashes: Serialize of the chunks that are not empty.
Chunks(hashes) ==
  LET present == SelectSeq(hashes, LAMBDA h : h \in stored)
  IN  [i \in DOMAIN present |-> <<present[i], TRUE>>]

\* handleGetRefs, once round its loop: it asks for all hashes that are left, and
\* then drops the first maxGetBatchSize of them.
HandleGetRefs ==
  /\ kind = "get"
  /\ todo # <<>>
  /\ wire' = wire \o Chunks(todo)
  /\ todo' = SubSeq(todo, 1 + MaxGetBatchSize, Len(todo))
  /\ UNCHANGED <<kind, want, stored, puts, batch, answer, closed, alive>>

\* handleHasRefs, one line of its answer.
HandleHasRefs ==
  /\ kind = "has"
  /\ todo # <<>>
  /\ wire' = Append(wire, <<Head(todo), Head(todo) \in stored>>)
  /\ todo' = Tail(todo)
  /\ UNCHANGED <<kind, want, stored, puts, batch, answer, closed, alive>>

\* hasRefs reads a line, answers the requests for its hash and deletes them.
ScanLine ==
  /\ kind = "has"
  /\ wire # <<>>
  /\ LET line == Head(wire) IN
     /\ answer' = [c \in Caller |->
                     IF want[c] = line[1] /\ line[1] \in batch
                     THEN IF line[2] THEN "true" ELSE "false" ELSE answer[c]]
     /\ batch' = batch \ {line[1]}
  /\ wire' = Tail(wire)
  /\ UNCHANGED <<kind, want, stored, todo, puts, closed, alive>>

Running == {i \in DOMAIN puts : puts[i].pc # "done"}

\* Deserialize reads a chunk and starts a goroutine that Puts it.
Deserialize ==
  /\ kind = "get"
  /\ alive
  /\ wire # <<>>
  /\ Cardinality(Running) < RateLimit
  /\ Len(puts) < MaxPuts
  /\ puts' = Append(puts, [h |-> Head(wire)[1], pc |-> "start", left |-> {}])
  /\ wire' = Tail(wire)
  /\ UNCHANGED <<kind, want, stored, todo, batch, answer, closed, alive>>

PutGo(i, pc, left) == puts' = [puts EXCEPT ![i] = [h |-> @.h, pc |-> pc, left |-> left]]


\* The requests that the batch holds for h.
Lookup(h) == IF h \in batch THEN Wanted(h) ELSE {}

\* readBatchChunkSink.Put takes the read lock, which other Puts may hold too.
PutReadLock(i) ==
  /\ alive
  /\ puts[i].pc = "start"
  /\ PutGo(i, "answer", Lookup(puts[i].h))
  /\ UNCHANGED <<kind, want, stored, todo, wire, batch, answer, closed, alive>>

\* OutstandingGet.Satisfy sends to c and closes the channel; a second send to it
\* panics, and that ends the client.
Satisfy(i, c) ==
  /\ alive
  /\ puts[i].pc = "answer"
  /\ c \in puts[i].left
  /\ IF answer[c] = "none"
     THEN /\ answer' = [answer EXCEPT ![c] = puts[i].h]
          /\ PutGo(i, "answer", puts[i].left \ {c})
          /\ UNCHANGED alive
     ELSE /\ alive' = FALSE
          /\ UNCHANGED <<answer, puts>>
  /\ UNCHANGED <<kind, want, stored, todo, wire, batch, closed>>

PutReadUnlock(i) ==
  /\ alive
  /\ puts[i].pc = "answer"
  /\ puts[i].left = {}
  /\ PutGo(i, "delete", {})
  /\ UNCHANGED <<kind, want, stored, todo, wire, batch, answer, closed, alive>>

\* The write lock waits until no Put holds the read lock.
PutDelete(i) ==
  /\ alive
  /\ puts[i].pc = "delete"
  /\ \A j \in DOMAIN puts : puts[j].pc # "answer"
  /\ batch' = batch \ {puts[i].h}
  /\ PutGo(i, "done", {})
  /\ UNCHANGED <<kind, want, stored, todo, wire, answer, closed, alive>>

\* The requests ReadBatch.Close fails.
Unanswered == UNION {Wanted(h) : h \in batch}

\* The stream ended and all Puts are done: ReadBatch.Close fails the rest.
Close ==
  /\ alive
  /\ ~closed
  /\ todo = <<>> /\ wire = <<>> /\ Running = {}
  /\ alive' = \A c \in Unanswered : answer[c] = "none"
  /\ answer' = [c \in Caller |->
                  IF c \in Unanswered
                  THEN IF kind = "get" THEN "empty" ELSE "false" ELSE answer[c]]
  /\ closed' = TRUE
  /\ UNCHANGED <<kind, want, stored, todo, wire, puts, batch>>

Next ==
  \/ HandleGetRefs \/ HandleHasRefs \/ ScanLine \/ Deserialize \/ Close
  \/ \E i \in DOMAIN puts :
        \/ PutReadLock(i) \/ PutReadUnlock(i) \/ PutDelete(i)
        \/ \E c \in Caller : Satisfy(i, c)

----------------------------------------------------------------------------

\* Every caller of Get and Has is answered, whatever order the goroutines run in.
AllAnswered == <>(\A c \in Caller : answer[c] # "none")

\* A caller is answered once: "Satisfy" closes its channel, and a second answer
\* for the same chunk would be sent to a closed channel.
AnsweredOnce == alive
=============================================================================
