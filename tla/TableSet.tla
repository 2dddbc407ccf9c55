------------------------------ MODULE TableSet ------------------------------
(***************************************************************************)
(* One NomsBlockStore from the inside: the tableSet of table_set.go, the   *)
(* compactingChunkSources of compacting_chunk_source.go with the steps of  *)
(* their goroutines, and the threads that use them.  A writer (Put,        *)
(* UpdateRoot, Flush) holds nbs.mu for writing; a reader (Has, Get,        *)
(* GetMany; extractChunks) takes it for reading and then asks the sources  *)
(* one by one while compactions swap memTables for tables under it.        *)
(*                                                                         *)
(* A memTable or a table is the sequence of its chunks in insertion order. *)
(* The module implements NomsBlockStore for a single process.              *)
(***************************************************************************)
EXTENDS Naturals, Sequences, FiniteSets, FiniteSetsExt, SequencesExt

CONSTANTS
  Chunk, Reach, Size, MtSize, ConcurrentCompactions, EmptyHash, None,
  Proc,        \* the process
  Nil,         \* a nil memTable or chunkSource
  MaxSources   \* bound: sources of one session

VARIABLES
  manifest,  \* the persisted manifest: [root, specs]
  files,     \* the tables persisted: a table's name is the set of its chunks
  up,        \* the store is open
  root,      \* nbs.root
  mt,        \* nbs.mt
  ts,        \* nbs.tables: indices of src, newest first
  src,       \* every source made in this session
  rl,        \* tokens in tableSet.rl
  puts,      \* history: the chunks first put in this session, in order
  w,         \* the writer: what it does while it holds nbs.mu
  r          \* the reader

vars == <<manifest, files, up, root, mt, ts, src, rl, puts, w, r>>

Idle == [op |-> "idle"]

Needs(c) == IF c = EmptyHash THEN {} ELSE Reach[c]

\* compactingChunkSource.getReader: the memTable until it is dropped.
Reader(s) == IF s.mt # Nil THEN s.mt ELSE s.cs

\* What a list of sources holds.
Held(ids) == UNION {ToSet(Reader(src[i])) : i \in ToSet(ids)}

View == ToSet(mt) \cup Held(ts)

\* persister.Open: a source that reads a persisted table.
OpenTable(t) == [mt |-> Nil, cs |-> SetToSeq(t), done |-> TRUE, haver |-> <<>>,
                 asked |-> 0, had |-> {}, persisted |-> TRUE]

Init ==
  /\ manifest = [root |-> EmptyHash, specs |-> {}]
  /\ files = {}
  /\ up = FALSE
  /\ root = EmptyHash
  /\ mt = <<>>
  /\ ts = <<>>
  /\ src = <<>>
  /\ rl = 0
  /\ puts = <<>>
  /\ w = Idle
  /\ r = Idle

\* newNomsBlockStore and the Union of no tables with the manifest's.
NewNomsBlockStore ==
  /\ ~up
  /\ manifest.specs \subseteq files
  /\ up' = TRUE
  /\ root' = manifest.root
  /\ src' = [i \in 1 .. Cardinality(manifest.specs) |-> OpenTable(SetToSeq(manifest.specs)[i])]
  /\ ts' = [i \in 1 .. Cardinality(manifest.specs) |-> i]
  /\ UNCHANGED <<manifest, files, mt, rl, puts, w, r>>

\* newNomsBlockStore opens a table that was never written.
NewNomsBlockStorePanics ==
  /\ ~up
  /\ ~(manifest.specs \subseteq files)
  /\ UNCHANGED vars

\* nbs.mu can be taken for writing.
Unlocked == up /\ w = Idle /\ r.op # "extract"

Fits(c) == FoldSeq(LAMBDA x, n : n + Size[x], Size[c], mt) =< MtSize

CanPrepend == Len(src) < MaxSources

\* Mutant: the haver is the new tableSet, the memTable's own source included.
PrependSelfHaver ==
  /\ rl < ConcurrentCompactions
  /\ rl' = rl + 1
  /\ src' = Append(src, [mt |-> mt, cs |-> Nil, done |-> FALSE, haver |-> <<Len(src) + 1>> \o ts,
                         asked |-> 0, had |-> {}, persisted |-> FALSE])
  /\ ts' = <<Len(src) + 1>> \o ts

\* tableSet.Prepend: newCompactingChunkSource sends on rl and starts the
\* goroutine; the haver is the tableSet it is prepended to.
Prepend ==
  /\ rl < ConcurrentCompactions
  /\ rl' = rl + 1
  /\ src' = Append(src, [mt |-> mt, cs |-> Nil, done |-> FALSE, haver |-> ts,
                         asked |-> 0, had |-> {}, persisted |-> FALSE])
  /\ ts' = <<Len(src) + 1>> \o ts

Inserted(c) == IF c \in View THEN puts ELSE Append(puts, c)

\* addChunk of a chunk that fits, or is there already.
Put(c) ==
  /\ Unlocked
  /\ c \notin ToSet(mt)
  /\ Fits(c)
  /\ mt' = Append(mt, c)
  /\ puts' = Inserted(c)
  /\ UNCHANGED <<manifest, files, up, root, ts, src, rl, w, r>>

\* addChunk of a chunk that does not: it goes on to Prepend, holding nbs.mu.
PutOverflows(c) ==
  /\ Unlocked
  /\ c \notin ToSet(mt)
  /\ ~Fits(c)
  /\ CanPrepend
  /\ w' = [op |-> "put", c |-> c]
  /\ UNCHANGED <<manifest, files, up, root, mt, ts, src, rl, puts, r>>

PutPrepends ==
  /\ w.op = "put"
  /\ Prepend
  /\ mt' = <<w.c>>
  /\ puts' = Inserted(w.c)
  /\ w' = Idle
  /\ UNCHANGED <<manifest, files, up, root, r>>

\* UpdateRoot(current, nbs.root) takes nbs.mu.
UpdateRoot(current, flush) ==
  /\ Unlocked
  /\ Needs(current) \subseteq View
  /\ mt # <<>> => CanPrepend
  /\ w' = [op |-> IF mt = <<>> THEN "count" ELSE "handover", current |-> current,
           flush |-> flush, i |-> 1, specs |-> {},
           racy |-> \E s \in ToSet(src) : s.mt # Nil /\ ToSet(s.mt) \subseteq Held(s.haver)]
  /\ UNCHANGED <<manifest, files, up, root, mt, ts, src, rl, puts, r>>

UpdateRootPrepends ==
  /\ w.op = "handover"
  /\ Prepend
  /\ mt' = <<>>
  /\ w' = [w EXCEPT !.op = "count",
             !.racy = \/ \E s \in ToSet(src) : s.mt # Nil /\ ToSet(s.mt) \subseteq Held(s.haver)
                      \/ ToSet(mt) \subseteq Held(ts)]
  /\ UNCHANGED <<manifest, files, up, root, puts, r>>

Source == src[ts[w.i]]

\* ToSpecs: src.count() of the next source, which reads it through getReader.
SpecCount ==
  /\ w.op = "count"
  /\ w.i =< Len(ts)
  /\ w' = IF Reader(Source) = <<>> THEN [w EXCEPT !.i = @ + 1]
                                   ELSE [w EXCEPT !.op = "hash"]
  /\ UNCHANGED <<manifest, files, up, root, mt, ts, src, rl, puts, r>>

\* ToSpecs: src.hash() of a source that counted, once its goroutine is done.
SpecHash ==
  /\ w.op = "hash"
  /\ Source.done
  /\ w' = [w EXCEPT !.op = "count", !.i = @ + 1, !.specs = @ \cup {ToSet(Source.cs)}]
  /\ UNCHANGED <<manifest, files, up, root, mt, ts, src, rl, puts, r>>

\* manifest.Update and the return.  No other process changes the manifest.
UpdateRootSucceeds ==
  /\ w.op = "count"
  /\ w.i > Len(ts)
  /\ manifest.root = root
  /\ manifest' = [root |-> w.current, specs |-> w.specs]
  /\ root' = w.current
  /\ w' = Idle
  /\ UNCHANGED <<files, up, mt, ts, src, rl, puts, r>>

----------------------------------------------------------------------------
\* Mutant: only the newest source of the haver is asked.
AskNewest(i) ==
  LET s == src[i] IN
  /\ s.mt # Nil
  /\ ~s.persisted
  /\ s.asked < Len(s.haver)
  /\ src' = [src EXCEPT ![i].asked = Len(s.haver),
               ![i].had = @ \cup (ToSet(s.mt) \cap ToSet(Reader(src[s.haver[s.asked + 1]])))]
  /\ UNCHANGED <<manifest, files, up, root, mt, ts, rl, puts, w, r>>

\* The goroutine of source i.  memTable.write asks the haver about all its
\* chunks: the haver's sources one after the other, until none remains.
Ask(i) ==
  LET s == src[i] IN
  /\ s.mt # Nil
  /\ ~s.persisted
  /\ s.asked < Len(s.haver)
  /\ ~(ToSet(s.mt) \subseteq s.had)
  /\ src' = [src EXCEPT ![i].asked = @ + 1,
               ![i].had = @ \cup (ToSet(s.mt) \cap ToSet(Reader(src[s.haver[s.asked + 1]])))]
  /\ UNCHANGED <<manifest, files, up, root, mt, ts, rl, puts, w, r>>

\* The chunks nobody had, in insertion order.
Written(s) == SelectSeq(s.mt, LAMBDA c : c \notin s.had)

\* The rest of persister.Compact: the table appears under its name, unless
\* nothing was written.
Persist(i) ==
  LET s == src[i] IN
  /\ s.mt # Nil
  /\ ~s.persisted
  /\ s.asked = Len(s.haver) \/ ToSet(s.mt) \subseteq s.had
  /\ files' = files \cup ({ToSet(Written(s))} \ {{}})
  /\ src' = [src EXCEPT ![i].persisted = TRUE]
  /\ UNCHANGED <<manifest, up, root, mt, ts, rl, puts, w, r>>

\* Mutant: the goroutine takes nbs.mu to replace its memTable.
SwapUnderStoreLock(i) ==
  /\ w = Idle
  /\ src[i].mt # Nil
  /\ src[i].persisted
  /\ src' = [src EXCEPT ![i].cs = Written(src[i]), ![i].mt = Nil]
  /\ rl' = rl - 1
  /\ UNCHANGED <<manifest, files, up, root, mt, ts, puts, w, r>>

\* Under ccs.mu: the table takes the memTable's place; the rl token is freed.
Swap(i) ==
  /\ src[i].mt # Nil
  /\ src[i].persisted
  /\ src' = [src EXCEPT ![i].cs = Written(src[i]), ![i].mt = Nil]
  /\ rl' = rl - 1
  /\ UNCHANGED <<manifest, files, up, root, mt, ts, puts, w, r>>

\* The deferred wg.Done.
Done(i) ==
  /\ src[i].mt = Nil
  /\ ~src[i].done
  /\ src' = [src EXCEPT ![i].done = TRUE]
  /\ UNCHANGED <<manifest, files, up, root, mt, ts, rl, puts, w, r>>

----------------------------------------------------------------------------
\* Has, Get, GetMany: under the read lock look in the memTable and take the
\* tableSet.  must: the chunk was in the store (history).
Has(c) ==
  /\ up
  /\ w = Idle
  /\ r = Idle
  /\ c \notin ToSet(mt)
  /\ r' = [op |-> "has", c |-> c, rest |-> ts, cr |-> Nil, must |-> c \in View]
  /\ UNCHANGED <<manifest, files, up, root, mt, ts, src, rl, puts, w>>

\* getReader of the next source.
GetReader ==
  /\ r.op = "has"
  /\ r.cr = Nil
  /\ r.rest # <<>>
  /\ r' = [r EXCEPT !.cr = Reader(src[Head(r.rest)])]
  /\ UNCHANGED <<manifest, files, up, root, mt, ts, src, rl, puts, w>>

\* The reader it got does not have the chunk: on to the next source.
HasNot ==
  /\ r.op = "has"
  /\ r.cr # Nil
  /\ r.c \notin ToSet(r.cr)
  /\ r' = [r EXCEPT !.cr = Nil, !.rest = Tail(@)]
  /\ UNCHANGED <<manifest, files, up, root, mt, ts, src, rl, puts, w>>

HasReturns(found) ==
  /\ r.op = "has"
  /\ IF found THEN r.cr # Nil /\ r.c \in ToSet(r.cr) ELSE r.cr = Nil /\ r.rest = <<>>
  /\ r' = Idle
  /\ UNCHANGED <<manifest, files, up, root, mt, ts, src, rl, puts, w>>

\* extractChunks in InsertOrder, which keeps the read lock: the sources from
\* the oldest on, then the memTable.
ExtractChunks ==
  /\ up
  /\ w = Idle
  /\ r = Idle
  /\ r' = [op |-> "extract", rest |-> Reverse(ts), out |-> <<>>]
  /\ UNCHANGED <<manifest, files, up, root, mt, ts, src, rl, puts, w>>

Extract ==
  /\ r.op = "extract"
  /\ r.rest # <<>>
  /\ src[Head(r.rest)].done
  /\ r' = [r EXCEPT !.rest = Tail(@), !.out = @ \o src[Head(r.rest)].cs]
  /\ UNCHANGED <<manifest, files, up, root, mt, ts, src, rl, puts, w>>

\* What extractChunks has sent when it returns.
Extracted == r.out \o mt

ExtractReturns ==
  /\ r.op = "extract"
  /\ r.rest = <<>>
  /\ r' = Idle
  /\ UNCHANGED <<manifest, files, up, root, mt, ts, src, rl, puts, w>>

----------------------------------------------------------------------------
Stop ==
  /\ up' = FALSE
  /\ root' = EmptyHash
  /\ mt' = <<>>
  /\ ts' = <<>>
  /\ src' = <<>>
  /\ rl' = 0
  /\ puts' = <<>>
  /\ w' = Idle
  /\ r' = Idle
  /\ UNCHANGED <<manifest, files>>

\* Close waits for every goroutine and closes the tables; no reader is left.
Close ==
  /\ Unlocked
  /\ r = Idle
  /\ \A s \in ToSet(src) : s.done
  /\ Stop

Crash == up /\ Stop

Writer ==
  \/ PutPrepends \/ UpdateRootPrepends \/ SpecCount \/ SpecHash \/ UpdateRootSucceeds

ReaderStep ==
  \/ GetReader \/ HasNot \/ HasReturns(TRUE) \/ HasReturns(FALSE)
  \/ Extract \/ ExtractReturns

Goroutine(i) == Ask(i) \/ Persist(i) \/ Swap(i) \/ Done(i)

Next ==
  \/ NewNomsBlockStore
  \/ NewNomsBlockStorePanics
  \/ \E c \in Chunk : Put(c) \/ PutOverflows(c) \/ Has(c)
  \/ \E c \in Chunk \cup {EmptyHash} : UpdateRoot(c, FALSE)
  \/ UpdateRoot(root, TRUE)
  \/ Writer
  \/ \E i \in 1 .. Len(src) : Goroutine(i)
  \/ ExtractChunks
  \/ ReaderStep
  \/ Close
  \/ Crash

Spec == Init /\ [][Next]_vars

\* Go schedules every runnable goroutine.
Fairness ==
  /\ WF_vars(Writer)
  /\ WF_vars(ReaderStep)
  /\ \A i \in 1 .. MaxSources : WF_vars(i \in 1 .. Len(src) /\ Goroutine(i))

FairSpec == Spec /\ Fairness

----------------------------------------------------------------------------
\* Has, Get and GetMany answer as if at one instant: a chunk that was in the
\* store when the call took its snapshot is found, whichever memTables are
\* swapped for tables without their duplicates between two of its questions,
\* and a chunk that is found was put.
HasIsRight == /\ HasReturns(FALSE) => ~r.must
              /\ HasReturns(TRUE) => r.c \in View

First(c, s) == Min({i \in 1 .. Len(s) : s[i] = c})

\* "The chunks are extracted in insertion order" (NomsBlockCache.ExtractChunks,
\* on which the order of an HTTP write depends): every chunk of the store, and chunk
\* a before chunk b when a was first put before b, through memTables, compactions
\* and their tables.
ExtractsInOrder ==
  ExtractReturns =>
    /\ ToSet(Extracted) = View
    /\ \A i, j \in 1 .. Len(puts) :
         i < j => First(puts[i], Extracted) < First(puts[j], Extracted)

\* What a reader sees of a table set whose memTables are compacted meanwhile: Has, Get
\* and GetMany answer as if at one instant (HasIsRight), and extractChunks sends all
\* chunks in insertion order (ExtractsInOrder).
ReadsAreRight == [][HasIsRight /\ ExtractsInOrder]_vars

\* A call that holds nbs.mu or waits for a compaction returns: Put blocked on
\* a full rl, ToSpecs in wg.Wait, extractChunks in wg.Wait under the read lock.
CallsReturn == (w # Idle ~> w = Idle) /\ (r # Idle ~> r = Idle)

\* The sources that still compact, as NomsBlockStore sees them.
Compacting ==
  {[mt |-> ToSet(src[i].mt), haver |-> Held(src[i].haver)] :
     i \in {j \in ToSet(ts) : src[j].mt # Nil}}

Tables == {ToSet(src[i].cs) : i \in {j \in ToSet(ts) : src[j].mt = Nil}} \ {{}}

Upd == IF w.op \in {"count", "hash"}
         THEN [current |-> w.current, flush |-> w.flush, racy |-> w.racy] ELSE None

NBS == INSTANCE NomsBlockStore WITH
  Process <- {Proc}, up <- (Proc :> up), root <- (Proc :> root),
  mt <- (Proc :> ToSet(mt)), compacting <- (Proc :> Compacting),
  tables <- (Proc :> Tables), upd <- (Proc :> Upd)

\* The tableSet, its goroutines and their locks do what NomsBlockStore says of
\* a process: a compaction that asks its haver source by source, while those
\* are being compacted too, leaves out exactly the chunks that the tables held
\* when the memTable was handed over.
ImplementsStore == NBS!Spec
=============================================================================
