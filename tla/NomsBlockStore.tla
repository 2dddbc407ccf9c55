--------------------------- MODULE NomsBlockStore ---------------------------
(***************************************************************************)
(* The NomsBlockStore of go/nbs/store.go: several processes, each with a   *)
(* memTable, a tableSet whose newest members are still being compacted by  *)
(* goroutines, and a cached root, share one directory (or bucket) of       *)
(* immutable tables and one manifest.  The manifest is replaced by an      *)
(* optimistic compare-and-swap on its root alone.                          *)
(*                                                                         *)
(* A chunk is a model value.  A table is named by a hash of the addresses  *)
(* it holds (table_writer.go), so a table's name is the set of its chunks; *)
(* the zero address of emptyChunkSource is the empty set.                  *)
(***************************************************************************)
EXTENDS Naturals, FiniteSets, FiniteSetsExt

CONSTANTS
  Process,                \* the processes that open the store
  Chunk,                  \* chunk addresses; a root is the address of a chunk
  Reach,                  \* Reach[c]: the chunks a reader of root c visits
  Size,                   \* Size[c]: the length of c's data
  MtSize,                 \* nbs.mtSize: how much data a memTable takes
  ConcurrentCompactions,  \* the capacity of tableSet.rl
  EmptyHash,              \* hash.Hash{}, the root of a store never committed to
  None                    \* no UpdateRoot in progress

ASSUME ReachAssumption == Reach \in [Chunk -> SUBSET Chunk]
ASSUME SizeAssumption == Size \in [Chunk -> 0 .. MtSize]
ASSUME BoundAssumption == MtSize \in Nat /\ ConcurrentCompactions \in Nat \ {0}
ASSUME EmptyHashAssumption == EmptyHash \notin Chunk

Root == Chunk \cup {EmptyHash}
Table == SUBSET Chunk
EmptyTable == {}

\* A compactingChunkSource whose goroutine has not finished: the memTable it
\* was given and what the tables before it held when it was created.
Compaction == [mt : SUBSET Chunk, haver : SUBSET Chunk]

\* An UpdateRoot that holds nbs.mu.  racy: ToSpecs may meet a source that was
\* in flight when counted and turns out empty when hashed.
Call == [current : Root, flush : BOOLEAN, racy : BOOLEAN]

VARIABLES
  manifest,    \* the persisted manifest: [root, specs]
  files,       \* the tables persisted, by name
  up,          \* up[p]: p has the store open
  root,        \* root[p]: nbs.root
  mt,          \* mt[p]: the chunks of nbs.mt
  compacting,  \* compacting[p]: the sources of nbs.tables still compacting
  tables,      \* tables[p]: the names of the other sources of nbs.tables
  upd          \* upd[p]: the UpdateRoot in progress

vars == <<manifest, files, up, root, mt, compacting, tables, upd>>

\* What a reader of root r needs.
Needs(r) == IF r = EmptyHash THEN {} ELSE Reach[r]

TablesHold(p) == (UNION tables[p]) \cup (UNION {s.mt : s \in compacting[p]})

\* Everything Has and Get find in p's store.
View(p) == mt[p] \cup TablesHold(p)

Open(p) == up[p] /\ upd[p] = None

Init ==
  /\ manifest = [root |-> EmptyHash, specs |-> {}]
  /\ files = {}
  /\ up = [p \in Process |-> FALSE]
  /\ root = [p \in Process |-> EmptyHash]
  /\ mt = [p \in Process |-> {}]
  /\ compacting = [p \in Process |-> {}]
  /\ tables = [p \in Process |-> {}]
  /\ upd = [p \in Process |-> None]

\* persister.Open finds every table the manifest names.
Openable == manifest.specs \subseteq files

\* newNomsBlockStore.  A store without a manifest starts as one with an empty
\* root and no tables.
NewNomsBlockStore(p) ==
  /\ ~up[p]
  /\ Openable
  /\ up' = [up EXCEPT ![p] = TRUE]
  /\ root' = [root EXCEPT ![p] = manifest.root]
  /\ tables' = [tables EXCEPT ![p] = manifest.specs]
  /\ UNCHANGED <<manifest, files, mt, compacting, upd>>

\* newNomsBlockStore opens a table that was never written.
NewNomsBlockStorePanics(p) ==
  /\ ~up[p]
  /\ ~Openable
  /\ UNCHANGED vars

\* tableSet.Prepend: start a compaction of m.  The send on rl blocks while
\* ConcurrentCompactions goroutines run.
Prepend(p, m) ==
  /\ Cardinality(compacting[p]) < ConcurrentCompactions
  /\ compacting' = [compacting EXCEPT ![p] = @ \cup {[mt |-> m, haver |-> TablesHold(p)]}]

Fits(m, c) == MapThenSumSet(LAMBDA x : Size[x], m) + Size[c] =< MtSize

\* Put, SchedulePut and each turn of PutMany's loop: addChunk.
Put(p, c) ==
  /\ Open(p)
  /\ c \notin mt[p]
  /\ \/ /\ Fits(mt[p], c)
        /\ mt' = [mt EXCEPT ![p] = @ \cup {c}]
        /\ UNCHANGED compacting
     \/ /\ ~Fits(mt[p], c)
        /\ Prepend(p, mt[p])
        /\ mt' = [mt EXCEPT ![p] = {c}]
  /\ UNCHANGED <<manifest, files, up, root, tables, upd>>

\* memTable.write: the chunks of the memTable that the haver lacks.
Written(s) == s.mt \ s.haver

\* persister.Compact in a compaction's goroutine: the table file appears under
\* its name.  Nothing is written for a memTable of duplicates.
Persist(p, s) ==
  /\ s \in compacting[p]
  /\ Written(s) \notin files \cup {EmptyTable}
  /\ files' = files \cup {Written(s)}
  /\ UNCHANGED <<manifest, up, root, mt, compacting, tables, upd>>

\* The goroutine ends: the source reads from its table, if it wrote one.
Compact(p, s) ==
  /\ s \in compacting[p]
  /\ Written(s) \in files \cup {EmptyTable}
  /\ compacting' = [compacting EXCEPT ![p] = @ \ {s}]
  /\ tables' = [tables EXCEPT ![p] = @ \cup ({Written(s)} \ {EmptyTable})]
  /\ UNCHANGED <<manifest, files, up, root, mt, upd>>

\* UpdateRoot takes nbs.mu, accepts |last| and hands its memTable over.  The
\* caller has everything |current| reaches in its store.
Lock(p, current, flush) ==
  /\ Open(p)
  /\ Needs(current) \subseteq View(p)
  /\ \/ /\ mt[p] # {}
        /\ Prepend(p, mt[p])
     \/ /\ mt[p] = {}
        /\ UNCHANGED compacting
  /\ mt' = [mt EXCEPT ![p] = {}]
  /\ upd' = [upd EXCEPT ![p] =
               [current |-> current, flush |-> flush,
                racy |-> \E s \in compacting'[p] : Written(s) = EmptyTable]]
  /\ UNCHANGED <<manifest, files, up, root, tables>>

\* UpdateRoot(current, last) with last = nbs.root.
UpdateRoot(p, current) == Lock(p, current, FALSE)

\* Flush: UpdateRoot(nbs.root, nbs.root).
Flush(p) == Lock(p, root[p], TRUE)

\* UpdateRoot with a |last| that is not nbs.root, whether the caller read it
\* before another thread's update or Flush read its arguments before locking.
UpdateRootStale(p, last) ==
  /\ Open(p)
  /\ last # root[p]
  /\ UNCHANGED vars

\* Mutant: ToSpecs does not wait for the compactions.
CompactedNoWait(p) == upd[p] # None

\* ToSpecs has waited for every compaction.
Compacted(p) == upd[p] # None /\ compacting[p] = {}

\* The specs ToSpecs can return: the tables that hold something and, when an
\* in-flight source was counted before it came out empty, the zero address.
ToSpecs(p) == {tables[p]} \cup IF upd[p].racy THEN {tables[p] \cup {EmptyTable}} ELSE {}

\* Mutant: a rebase takes the manifest's root and not its tables.
UnionKeepsOwn(p, specs) == tables[p]

\* Mutant: a rebase takes the manifest's tables for the process's own.
UnionReplaces(p, specs) == specs

\* tableSet.Union: the tables known and those the manifest names.
Union(p, specs) == tables[p] \cup specs

Return(p) == upd' = [upd EXCEPT ![p] = None]

\* manifest.Update finds nbs.root: it is replaced, specs and all.
UpdateRootSucceeds(p) ==
  /\ Compacted(p)
  /\ manifest.root = root[p]
  /\ \E specs \in ToSpecs(p) :
       manifest' = [root |-> upd[p].current, specs |-> specs]
  /\ root' = [root EXCEPT ![p] = upd[p].current]
  /\ Return(p)
  /\ UNCHANGED <<files, up, mt, compacting, tables>>

\* manifest.Update finds another root, which is the one asked for: UpdateRoot
\* sees current = actual and returns true.
UpdateRootAlreadyThere(p) ==
  /\ Compacted(p)
  /\ manifest.root # root[p]
  /\ manifest.root = upd[p].current
  /\ root' = [root EXCEPT ![p] = upd[p].current]
  /\ Return(p)
  /\ UNCHANGED <<manifest, files, up, mt, compacting, tables>>

\* manifest.Update finds another root: rebase on it and return false.  For
\* Flush that is a panic, after the state has changed.
UpdateRootFails(p) ==
  /\ Compacted(p)
  /\ manifest.root # root[p]
  /\ manifest.root # upd[p].current
  /\ Openable
  /\ root' = [root EXCEPT ![p] = manifest.root]
  /\ tables' = [tables EXCEPT ![p] = Union(p, manifest.specs)]
  /\ Return(p)
  /\ UNCHANGED <<manifest, files, up, mt, compacting>>

Stop(p) ==
  /\ up' = [up EXCEPT ![p] = FALSE]
  /\ root' = [root EXCEPT ![p] = EmptyHash]
  /\ mt' = [mt EXCEPT ![p] = {}]
  /\ compacting' = [compacting EXCEPT ![p] = {}]
  /\ tables' = [tables EXCEPT ![p] = {}]
  /\ upd' = [upd EXCEPT ![p] = None]
  /\ UNCHANGED <<manifest, files>>

\* Close waits for the compactions; what is in the memTable is dropped.
Close(p) ==
  /\ Open(p)
  /\ compacting[p] = {}
  /\ Stop(p)

\* The process dies, between any two steps.
Crash(p) == up[p] /\ Stop(p)

\* The failing UpdateRoot's Union opens a table that was never written, in a
\* goroutine nobody recovers: the process dies.
UnionPanics(p) ==
  /\ Compacted(p)
  /\ manifest.root \notin {root[p], upd[p].current}
  /\ ~Openable
  /\ Stop(p)

Step(p) ==
  \/ NewNomsBlockStore(p)
  \/ NewNomsBlockStorePanics(p)
  \/ \E c \in Chunk : Put(p, c)
  \/ \E s \in compacting[p] : Persist(p, s) \/ Compact(p, s)
  \/ \E r \in Root : UpdateRoot(p, r)
  \/ Flush(p)
  \/ \E r \in Root : UpdateRootStale(p, r)
  \/ UpdateRootSucceeds(p)
  \/ UpdateRootAlreadyThere(p)
  \/ UpdateRootFails(p)
  \/ UnionPanics(p)
  \/ Close(p)
  \/ Crash(p)

Next == \E p \in Process : Step(p)

Spec == Init /\ [][Next]_vars

----------------------------------------------------------------------------
TypeOK ==
  /\ manifest \in [root : Root, specs : SUBSET Table]
  /\ files \subseteq Table
  /\ up \in [Process -> BOOLEAN]
  /\ root \in [Process -> Root]
  /\ mt \in [Process -> SUBSET Chunk]
  /\ compacting \in [Process -> SUBSET Compaction]
  /\ tables \in [Process -> SUBSET Table]
  /\ upd \in [Process -> Call \cup {None}]

\* Whoever opens the store can read all its root reaches: the tables the
\* manifest names hold every chunk the manifest's root needs, whichever
\* process wrote it last, over whatever stale view of the other tables.
RootReachable == Needs(manifest.root) \subseteq (UNION manifest.specs)

\* A manifest never runs ahead of the tables: each table it names was written
\* before, so a crash at any point leaves a store whose tables all open (the
\* zero address that ToSpecs can let through is the exception).
TablesPersisted == manifest.specs \ {EmptyTable} \subseteq files

\* An open store can read everything its own cached root reaches, also after
\* an UpdateRoot that lost the race and rebased on another process's root.
ViewComplete == \A p \in Process : up[p] => Needs(root[p]) \subseteq View(p)

HaversCovered(p) ==
  \A s \in compacting[p] :
    s.haver \subseteq (UNION tables[p]) \cup (UNION {Written(t) : t \in compacting[p]})

\* A compaction leaves a chunk out only because another table holds it or is
\* about to: what the haver of a compaction vouched for is in a finished table
\* or among the chunks some compaction in flight will write.
HaverCovered == \A p \in Process : HaversCovered(p)

KeepsChunks == \A p \in Process : up[p] /\ up'[p] => View(p) \subseteq View(p)'

\* A chunk that is in an open store stays there: neither the end of a
\* compaction (which drops the memTable and writes only what the older tables
\* lack) nor a rebase may make Has turn false.
NoChunkLost == [][KeepsChunks]_vars

\* p's UpdateRoot (or Flush) returns in this step, with true.
ReturnsTrue(p) ==
  upd[p] # None /\ upd'[p] = None /\ up'[p] /\ root'[p] = upd[p].current

InstallsView ==
  \A p \in Process : UpdateRootSucceeds(p) => View(p) \subseteq (UNION manifest'.specs)

\* "On return, any previously Put chunks should be durable" (ChunkSink.Flush):
\* when a Flush or an UpdateRoot replaces the manifest, every chunk of the store
\* is in the tables it names from then on, those of memTables that were still
\* being compacted when it was called included.
DurableOnReturn == [][InstallsView]_vars

\* What is durable stays durable: a new manifest names tables that hold every
\* chunk the tables of the one it replaces held ("the contents of |specs| are
\* merged into |fm.tableSpecs|", fakeManifest.Update in root_tracker_test.go).
ManifestKeepsChunks ==
  [][(UNION manifest.specs) \subseteq (UNION manifest'.specs)]_vars

----------------------------------------------------------------------------
\* The inductive invariant.  Every table a process knows is persisted, so the
\* specs it writes are; an UpdateRoot that holds the lock has an empty memTable
\* and a view that holds what its new root needs, so the specs hold it too.
ProcessInv(p) ==
  /\ tables[p] \subseteq files
  /\ ~up[p] => mt[p] = {} /\ compacting[p] = {} /\ tables[p] = {} /\ upd[p] = None
  /\ up[p] => Needs(root[p]) \subseteq View(p)
  /\ upd[p] # None => mt[p] = {} /\ Needs(upd[p].current) \subseteq View(p)
  /\ HaversCovered(p)

IndInv ==
  /\ TypeOK
  /\ RootReachable
  /\ TablesPersisted
  /\ \A p \in Process : ProcessInv(p)
=============================================================================
