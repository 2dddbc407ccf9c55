------------------------ MODULE NomsBlockStore_proofs ------------------------
(***************************************************************************)
(* Proofs about NomsBlockStore, for any processes, chunks and bounds.      *)
(***************************************************************************)
EXTENDS NomsBlockStore, TLAPS

\* The state of every variable stays in its type through every step of
\* go/nbs/store.go.
THEOREM TypeCorrect == Spec => []TypeOK
<1>1. Init => TypeOK
  BY DEF Init, TypeOK, Root, Table
<1>2. TypeOK /\ [Next]_vars => TypeOK'
  <2> SUFFICES ASSUME TypeOK, [Next]_vars PROVE TypeOK'
    OBVIOUS
  <2> USE DEF TypeOK
  <2>1. ASSUME NEW p \in Process, NewNomsBlockStore(p) PROVE TypeOK'
    BY <2>1 DEF NewNomsBlockStore
  <2>2. ASSUME NEW p \in Process, NEW c \in Chunk, Put(p, c) PROVE TypeOK'
    <3>1. TablesHold(p) \in SUBSET Chunk
      BY DEF TablesHold, Table, Compaction
    <3>2. compacting' \in [Process -> SUBSET Compaction]
      BY <2>2, <3>1 DEF Put, Prepend, Compaction
    <3>3. QED
      BY <2>2, <3>2 DEF Put
  <2>3. ASSUME NEW p \in Process, NEW s \in compacting[p], Compact(p, s) PROVE TypeOK'
    <3>1. Written(s) \in Table
      BY DEF Written, Compaction, Table
    <3>2. QED
      BY <2>3, <3>1 DEF Compact
  <2>4. ASSUME NEW p \in Process, NEW r \in Root, NEW f \in BOOLEAN, Lock(p, r, f)
        PROVE  TypeOK'
    <3>1. TablesHold(p) \in SUBSET Chunk
      BY DEF TablesHold, Table, Compaction
    <3>2. compacting' \in [Process -> SUBSET Compaction]
      BY <2>4, <3>1 DEF Lock, Prepend, Compaction
    <3>3. (\E s \in compacting'[p] : Written(s) = EmptyTable) \in BOOLEAN
      OBVIOUS
    <3>4. upd' \in [Process -> Call \cup {None}]
      BY <2>4, <3>3 DEF Lock, Call
    <3>5. QED
      BY <2>4, <3>2, <3>4 DEF Lock
  <2>5. ASSUME NEW p \in Process, UpdateRootSucceeds(p) PROVE TypeOK'
    <3>1. upd[p] \in Call
      BY <2>5 DEF UpdateRootSucceeds, Compacted
    <3>2. ASSUME NEW t \in ToSpecs(p) PROVE t \in SUBSET Table
      BY DEF ToSpecs, EmptyTable, Table
    <3>3. QED
      BY <2>5, <3>1, <3>2 DEF UpdateRootSucceeds, Return, Call
  <2>6. ASSUME NEW p \in Process, UpdateRootAlreadyThere(p) PROVE TypeOK'
    BY <2>6 DEF UpdateRootAlreadyThere, Return
  <2>7. ASSUME NEW p \in Process, UpdateRootFails(p) PROVE TypeOK'
    BY <2>7 DEF UpdateRootFails, Union, Return
  <2>8. ASSUME NEW p \in Process, Stop(p) PROVE TypeOK'
    BY <2>8 DEF Stop, Root
  <2>9. ASSUME NEW p \in Process, NEW s \in compacting[p], Persist(p, s) PROVE TypeOK'
    <3>1. Written(s) \in Table
      BY DEF Written, Compaction, Table
    <3>2. QED
      BY <2>9, <3>1 DEF Persist
  <2>10. CASE UNCHANGED vars
    BY <2>10 DEF vars
  <2>11. QED
    BY <2>1, <2>2, <2>3, <2>4, <2>5, <2>6, <2>7, <2>8, <2>9, <2>10
    DEF Next, Step, NewNomsBlockStorePanics, UpdateRoot, UpdateRootStale, Flush,
        UnionPanics, Close, Crash
<1>3. QED
  BY <1>1, <1>2, PTL DEF Spec

----------------------------------------------------------------------------
\* A process none of whose variables change keeps its part of the invariant,
\* whatever tables other processes add.
LEMMA OthersKept ==
  ASSUME NEW q \in Process, ProcessInv(q), files \subseteq files',
         up'[q] = up[q], root'[q] = root[q], mt'[q] = mt[q], upd'[q] = upd[q],
         compacting'[q] = compacting[q], tables'[q] = tables[q]
  PROVE  ProcessInv(q)'
<1>1. View(q)' = View(q)
  BY DEF View, TablesHold
<1>2. HaversCovered(q)' = HaversCovered(q)
  BY DEF HaversCovered, Written
<1>3. QED
  BY <1>1, <1>2 DEF ProcessInv, Needs

\* Between compactions, a tableSet holds what its finished tables hold and what
\* the compactions in flight will write: dropping the duplicates loses nothing.
LEMMA HoldWritten ==
  ASSUME NEW T, NEW S,
         \A s \in S : s.haver \subseteq (UNION T) \cup (UNION {Written(t) : t \in S})
  PROVE  (UNION T) \cup (UNION {s.mt : s \in S}) = (UNION T) \cup (UNION {Written(t) : t \in S})
<1>1. \A s \in S : s.mt \subseteq Written(s) \cup s.haver /\ Written(s) \subseteq s.mt
  BY DEF Written
<1>2. QED
  BY <1>1

\* tableSet.Prepend of a memTable keeps the havers covered, its own included,
\* and moves the memTable's chunks into the tables.
LEMMA PrependKeeps ==
  ASSUME NEW p \in Process, NEW m \in SUBSET Chunk, TypeOK, HaversCovered(p),
         Prepend(p, m), tables'[p] = tables[p]
  PROVE  HaversCovered(p)' /\ TablesHold(p)' = TablesHold(p) \cup m
<1> DEFINE new == [mt |-> m, haver |-> TablesHold(p)]
<1>1. compacting'[p] = compacting[p] \cup {new}
  BY DEF Prepend, TypeOK
<1>2. TablesHold(p)' = TablesHold(p) \cup m
  <2>1. UNION {s.mt : s \in compacting'[p]} = (UNION {s.mt : s \in compacting[p]}) \cup new.mt
    BY <1>1
  <2>2. QED
    BY <2>1 DEF TablesHold
<1>3. UNION {Written(t) : t \in compacting[p]} \subseteq UNION {Written(t) : t \in compacting'[p]}
  BY <1>1
<1>4. HaversCovered(p)'
  <2> SUFFICES ASSUME NEW s \in compacting'[p]
               PROVE  s.haver \subseteq (UNION tables[p])
                                       \cup (UNION {Written(t) : t \in compacting'[p]})
    BY DEF HaversCovered, Written
  <2>1. CASE s \in compacting[p]
    BY <2>1, <1>3 DEF HaversCovered
  <2>2. CASE s = new
    <3>1. TablesHold(p) = (UNION tables[p]) \cup (UNION {Written(t) : t \in compacting[p]})
      BY HoldWritten DEF HaversCovered, TablesHold
    <3>2. QED
      BY <2>2, <3>1, <1>3
  <2>3. QED
    BY <2>1, <2>2, <1>1
<1>5. QED
  BY <1>2, <1>4

\* The end of a compaction keeps the havers covered and loses no chunk.
LEMMA CompactKeeps ==
  ASSUME NEW p \in Process, NEW s \in compacting[p], TypeOK, HaversCovered(p), Compact(p, s)
  PROVE  HaversCovered(p)' /\ TablesHold(p)' = TablesHold(p)
<1> DEFINE W(S) == UNION {Written(t) : t \in S}
<1>1. /\ compacting'[p] = compacting[p] \ {s}
      /\ tables'[p] = tables[p] \cup ({Written(s)} \ {EmptyTable})
  BY DEF Compact, TypeOK
<1>2. UNION tables'[p] = (UNION tables[p]) \cup Written(s)
  BY <1>1 DEF EmptyTable
<1>3. W(compacting[p]) = W(compacting'[p]) \cup Written(s)
  BY <1>1
<1>4. (UNION tables'[p]) \cup W(compacting'[p]) = (UNION tables[p]) \cup W(compacting[p])
  BY <1>2, <1>3
<1>5. HaversCovered(p)'
  BY <1>1, <1>4 DEF HaversCovered, Written
<1>6. TablesHold(p)' = (UNION tables'[p]) \cup W(compacting'[p])
  BY <1>5, HoldWritten DEF HaversCovered, TablesHold, Written
<1>7. TablesHold(p) = (UNION tables[p]) \cup W(compacting[p])
  BY HoldWritten DEF HaversCovered, TablesHold
<1>8. QED
  BY <1>4, <1>5, <1>6, <1>7

----------------------------------------------------------------------------
\* The inductive step: one lemma for every step of a process.
LEMMA StepKeepsInv ==
  ASSUME IndInv, NEW p \in Process, Step(p), TypeOK'
  PROVE  IndInv'
<1> USE DEF IndInv
<1> DEFINE Kept == /\ RootReachable' /\ TablesPersisted'
                   /\ files \subseteq files'
                   /\ ProcessInv(p)'
                   /\ \A q \in Process \ {p} :
                        /\ up'[q] = up[q] /\ root'[q] = root[q] /\ mt'[q] = mt[q]
                        /\ upd'[q] = upd[q] /\ compacting'[q] = compacting[q]
                        /\ tables'[q] = tables[q]
<1> SUFFICES Kept
  BY OthersKept
<1>1. CASE NewNomsBlockStore(p)
  <2>1. /\ up'[p] /\ tables'[p] = manifest.specs /\ root'[p] = manifest.root
        /\ compacting'[p] = {} /\ upd'[p] = None
    BY <1>1 DEF NewNomsBlockStore, TypeOK, ProcessInv
  <2>2. ProcessInv(p)'
    BY <1>1, <2>1 DEF NewNomsBlockStore, ProcessInv, HaversCovered, View, TablesHold,
                      RootReachable, Openable, Needs
  <2>3. QED
    BY <1>1, <2>2 DEF NewNomsBlockStore, TypeOK, RootReachable, TablesPersisted, Needs
<1>2. ASSUME NEW c \in Chunk, Put(p, c) PROVE Kept
  <2>1. CASE compacting' = compacting /\ mt' = [mt EXCEPT ![p] = @ \cup {c}]
    <3>1. HaversCovered(p)' /\ TablesHold(p)' = TablesHold(p)
      BY <1>2, <2>1 DEF Put, ProcessInv, HaversCovered, Written, TablesHold
    <3>2. ProcessInv(p)'
      BY <1>2, <2>1, <3>1 DEF Put, Open, TypeOK, ProcessInv, View, Needs
    <3>3. QED
      BY <1>2, <2>1, <3>2 DEF Put, TypeOK, RootReachable, TablesPersisted, Needs
  <2>2. CASE Prepend(p, mt[p]) /\ mt' = [mt EXCEPT ![p] = {c}]
    <3>1. HaversCovered(p)' /\ TablesHold(p)' = TablesHold(p) \cup mt[p]
      BY <1>2, <2>2, PrependKeeps DEF Put, ProcessInv, TypeOK
    <3>2. ProcessInv(p)'
      BY <1>2, <2>2, <3>1 DEF Put, Open, TypeOK, ProcessInv, View, Needs
    <3>3. QED
      BY <1>2, <2>2, <3>2 DEF Put, Prepend, TypeOK, RootReachable, TablesPersisted, Needs
  <2>3. QED
    BY <1>2, <2>1, <2>2 DEF Put
<1>3. ASSUME NEW s \in compacting[p], Compact(p, s) PROVE Kept
  <2>1. HaversCovered(p)' /\ TablesHold(p)' = TablesHold(p)
    BY <1>3, CompactKeeps DEF ProcessInv
  <2>2. up[p]
    BY <1>3 DEF ProcessInv, TypeOK
  <2>3. tables'[p] \subseteq files'
    BY <1>3 DEF Compact, TypeOK, ProcessInv
  <2>4. ProcessInv(p)'
    BY <1>3, <2>1, <2>2, <2>3 DEF Compact, TypeOK, ProcessInv, View, Needs
  <2>5. QED
    BY <1>3, <2>4 DEF Compact, TypeOK, RootReachable, TablesPersisted, Needs
<1>4. ASSUME NEW r \in Root, NEW f \in BOOLEAN, Lock(p, r, f) PROVE Kept
  <2>1. HaversCovered(p)' /\ TablesHold(p)' = View(p)
    <3>1. CASE mt[p] # {} /\ Prepend(p, mt[p])
      BY <1>4, <3>1, PrependKeeps DEF Lock, ProcessInv, TypeOK, View
    <3>2. CASE mt[p] = {} /\ compacting' = compacting
      BY <1>4, <3>2 DEF Lock, ProcessInv, HaversCovered, Written, TablesHold, View
    <3>3. QED
      BY <1>4, <3>1, <3>2 DEF Lock
  <2>2. View(p)' = View(p) /\ mt'[p] = {}
    BY <1>4, <2>1 DEF Lock, TypeOK, View
  <2>3. upd'[p].current = r
    BY <1>4 DEF Lock, TypeOK
  <2>4. ProcessInv(p)'
    BY <1>4, <2>1, <2>2, <2>3 DEF Lock, Open, TypeOK, ProcessInv, Needs
  <2>5. QED
    BY <1>4, <2>4 DEF Lock, Prepend, TypeOK, RootReachable, TablesPersisted, Needs
<1>5. CASE UpdateRootSucceeds(p)
  <2>1. PICK specs \in ToSpecs(p) : manifest' = [root |-> upd[p].current, specs |-> specs]
    BY <1>5 DEF UpdateRootSucceeds
  <2>2. UNION specs = UNION tables[p] /\ specs \ {EmptyTable} \subseteq files
    BY <2>1 DEF ToSpecs, EmptyTable, ProcessInv
  <2>3. View(p) = UNION tables[p] /\ Needs(upd[p].current) \subseteq View(p) /\ up[p]
    BY <1>5 DEF UpdateRootSucceeds, Compacted, ProcessInv, View, TablesHold, TypeOK
  <2>4. RootReachable' /\ TablesPersisted'
    BY <1>5, <2>1, <2>2, <2>3 DEF UpdateRootSucceeds, RootReachable, TablesPersisted, Needs
  <2>5. View(p)' = View(p) /\ HaversCovered(p)'
    BY <1>5 DEF UpdateRootSucceeds, Compacted, View, TablesHold, HaversCovered
  <2>6. ProcessInv(p)'
    BY <1>5, <2>3, <2>5 DEF UpdateRootSucceeds, Return, TypeOK, ProcessInv, Needs
  <2>7. QED
    BY <1>5, <2>4, <2>6 DEF UpdateRootSucceeds, Return, TypeOK
<1>6. CASE UpdateRootAlreadyThere(p)
  <2>1. View(p)' = View(p) /\ HaversCovered(p)'
    BY <1>6 DEF UpdateRootAlreadyThere, Compacted, View, TablesHold, HaversCovered
  <2>2. ProcessInv(p)'
    BY <1>6, <2>1 DEF UpdateRootAlreadyThere, Compacted, Return, TypeOK, ProcessInv, Needs
  <2>3. QED
    BY <1>6, <2>2 DEF UpdateRootAlreadyThere, Return, TypeOK, RootReachable, TablesPersisted, Needs
<1>7. CASE UpdateRootFails(p)
  <2>1. /\ tables'[p] = tables[p] \cup manifest.specs /\ root'[p] = manifest.root
        /\ compacting'[p] = {} /\ upd'[p] = None
    BY <1>7 DEF UpdateRootFails, Union, Return, Compacted, TypeOK
  <2>2. Needs(manifest.root) \subseteq View(p)' /\ HaversCovered(p)'
    BY <2>1 DEF View, TablesHold, HaversCovered, RootReachable, Needs
  <2>3. ProcessInv(p)'
    BY <1>7, <2>1, <2>2 DEF UpdateRootFails, Compacted, Openable, TypeOK, ProcessInv, Needs
  <2>4. QED
    BY <1>7, <2>3 DEF UpdateRootFails, Return, TypeOK, RootReachable, TablesPersisted, Needs
<1>8. CASE Stop(p)
  <2>1. ProcessInv(p)'
    BY <1>8 DEF Stop, TypeOK, ProcessInv, HaversCovered
  <2>2. QED
    BY <1>8, <2>1 DEF Stop, TypeOK, RootReachable, TablesPersisted, Needs
<1>9. CASE UNCHANGED vars
  <2>1. ProcessInv(p)'
    BY <1>9, OthersKept DEF vars
  <2>2. QED
    BY <1>9, <2>1 DEF vars, RootReachable, TablesPersisted, Needs
<1>10. ASSUME NEW s \in compacting[p], Persist(p, s) PROVE Kept
  <2>1. ProcessInv(p)'
    BY <1>10, OthersKept DEF Persist
  <2>2. QED
    BY <1>10, <2>1 DEF Persist, RootReachable, TablesPersisted, Needs
<1>11. root[p] \in Root
  BY DEF TypeOK
<1>12. QED
  BY <1>1, <1>2, <1>3, <1>4, <1>5, <1>6, <1>7, <1>8, <1>9, <1>10, <1>11
  DEF Step, NewNomsBlockStorePanics, UpdateRoot, UpdateRootStale, Flush, UnionPanics, Close, Crash

\* The inductive invariant holds in every reachable state.
THEOREM Invariance == Spec => []IndInv
<1>1. Init => IndInv
  <2> SUFFICES ASSUME Init PROVE IndInv
    OBVIOUS
  <2>1. TypeOK
    BY DEF Init, TypeOK, Root, Table
  <2>2. ASSUME NEW p \in Process PROVE ProcessInv(p)
    BY DEF Init, ProcessInv, HaversCovered, Needs
  <2>3. QED
    BY <2>1, <2>2 DEF Init, IndInv, RootReachable, TablesPersisted, Needs
<1>2. IndInv /\ TypeOK' /\ [Next]_vars => IndInv'
  <2> SUFFICES ASSUME IndInv, TypeOK', [Next]_vars PROVE IndInv'
    OBVIOUS
  <2>1. CASE Next
    BY <2>1, StepKeepsInv DEF Next
  <2>2. CASE UNCHANGED vars
    <3>1. ASSUME NEW q \in Process PROVE ProcessInv(q)'
      BY <2>2, OthersKept DEF vars, IndInv
    <3>2. QED
      BY <2>2, <3>1 DEF vars, IndInv, RootReachable, TablesPersisted, Needs
  <2>3. QED
    BY <2>1, <2>2
<1>3. QED
  BY <1>1, <1>2, TypeCorrect, PTL DEF Spec

\* Whatever the processes do and whenever they crash, the tables the manifest
\* names hold every chunk its root reaches (UpdateRoot in store.go, over
\* manifest.Update, which compares roots only and replaces all the specs).
THEOREM RootAlwaysReachable == Spec => []RootReachable
BY Invariance, PTL DEF IndInv

\* Every table the manifest names was written before it was named (Compact
\* before ToSpecs before manifest.Update), the zero address excepted.
THEOREM TablesAlwaysPersisted == Spec => []TablesPersisted
BY Invariance, PTL DEF IndInv

\* An open store always holds what its own root reaches.
THEOREM ViewAlwaysComplete == Spec => []ViewComplete
<1>1. IndInv => ViewComplete
  BY DEF IndInv, ProcessInv, ViewComplete
<1>2. QED
  BY <1>1, Invariance, PTL

\* No step of an open store, the end of a compaction and the rebase after a
\* lost UpdateRoot included, takes a chunk away from it.
THEOREM ChunksNeverLost == Spec => NoChunkLost
<1>1. IndInv /\ [Next]_vars => [KeepsChunks]_vars
  <2> SUFFICES ASSUME IndInv, NEW p \in Process, Step(p), NEW q \in Process, up[q], up'[q]
               PROVE  View(q) \subseteq View(q)'
    BY DEF Next, KeepsChunks
  <2> USE DEF IndInv
  <2>1. CASE /\ mt'[q] = mt[q] /\ compacting'[q] = compacting[q]
             /\ tables[q] \subseteq tables'[q]
    BY <2>1 DEF View, TablesHold
  <2>2. ASSUME NEW c \in Chunk, Put(p, c), p = q PROVE View(q) \subseteq View(q)'
    <3>1. CASE compacting' = compacting /\ mt' = [mt EXCEPT ![p] = @ \cup {c}]
      BY <2>2, <3>1 DEF Put, TypeOK, View, TablesHold
    <3>2. CASE Prepend(p, mt[p])
      <4>1. TablesHold(p)' = TablesHold(p) \cup mt[p]
        BY <2>2, <3>2, PrependKeeps DEF Put, ProcessInv, TypeOK
      <4>2. QED
        BY <2>2, <4>1 DEF View
    <3>3. QED
      BY <2>2, <3>1, <3>2 DEF Put
  <2>3. ASSUME NEW s \in compacting[p], Compact(p, s), p = q PROVE View(q) \subseteq View(q)'
    BY <2>3, CompactKeeps DEF ProcessInv, Compact, View
  <2>4. ASSUME NEW r, NEW f, Lock(p, r, f), p = q PROVE View(q) \subseteq View(q)'
    <3>1. CASE Prepend(p, mt[p])
      BY <2>4, <3>1, PrependKeeps DEF Lock, ProcessInv, TypeOK, View
    <3>2. CASE mt[p] = {} /\ compacting' = compacting
      BY <2>4, <3>2 DEF Lock, TablesHold, View
    <3>3. QED
      BY <2>4, <3>1, <3>2 DEF Lock
  <2>5. ASSUME Stop(p), p = q PROVE FALSE
    BY <2>5 DEF Stop, TypeOK
  <2>6. CASE p # q
    <3>1. mt'[q] = mt[q] /\ compacting'[q] = compacting[q] /\ tables'[q] = tables[q]
      BY <2>6 DEF Step, NewNomsBlockStore, NewNomsBlockStorePanics, Put, Prepend, Persist, Compact,
                  UpdateRoot, Flush, Lock, UpdateRootStale, UpdateRootSucceeds,
                  UpdateRootAlreadyThere, UpdateRootFails, UnionPanics, Close, Crash, Stop,
                  TypeOK, vars
    <3>2. QED
      BY <3>1, <2>1
  <2>7. ASSUME p = q, \/ NewNomsBlockStore(p) \/ NewNomsBlockStorePanics(p)
                      \/ \E r \in Root : UpdateRootStale(p, r)
                      \/ UpdateRootSucceeds(p) \/ UpdateRootAlreadyThere(p)
                      \/ UpdateRootFails(p)
                      \/ \E s \in compacting[p] : Persist(p, s)
        PROVE View(q) \subseteq View(q)'
    <3>1. CASE NewNomsBlockStore(p)
      BY <2>7, <3>1 DEF NewNomsBlockStore
    <3>2. CASE UpdateRootFails(p)
      <4>1. tables'[q] = Union(p, manifest.specs) /\ mt' = mt /\ compacting' = compacting
        BY <2>7, <3>2 DEF UpdateRootFails, TypeOK
      <4>2. QED
        BY <2>1, <2>7, <4>1 DEF Union
    <3>3. CASE mt' = mt /\ compacting' = compacting /\ tables' = tables
      BY <2>1, <3>3
    <3>4. QED
      BY <2>7, <3>1, <3>2, <3>3
      DEF NewNomsBlockStorePanics, UpdateRootStale, UpdateRootSucceeds,
          UpdateRootAlreadyThere, Persist, vars
  <2>8. QED
    BY <2>2, <2>3, <2>4, <2>5, <2>6, <2>7
    DEF Step, UpdateRoot, Flush, UnionPanics, Close, Crash
<1>2. QED
  BY <1>1, Invariance, PTL DEF Spec, NoChunkLost

\* An UpdateRoot or Flush that replaces the manifest has put everything the
\* store holds into the tables the new manifest names: ToSpecs waited for the
\* compactions, and nothing came into the memTable meanwhile.
THEOREM ReplacedIsDurable == Spec => DurableOnReturn
<1>1. IndInv => [InstallsView]_vars
  <2> SUFFICES ASSUME IndInv, NEW p \in Process, UpdateRootSucceeds(p)
               PROVE  View(p) \subseteq (UNION manifest'.specs)
    BY DEF InstallsView
  <2>1. compacting[p] = {} /\ mt[p] = {}
    BY DEF UpdateRootSucceeds, Compacted, IndInv, ProcessInv
  <2>2. View(p) = UNION tables[p]
    BY <2>1 DEF View, TablesHold
  <2>3. PICK specs \in ToSpecs(p) : manifest' = [root |-> upd[p].current, specs |-> specs]
    BY DEF UpdateRootSucceeds
  <2>4. tables[p] \subseteq manifest'.specs
    BY <2>3 DEF ToSpecs
  <2>5. QED
    BY <2>2, <2>4
<1>2. QED
  BY <1>1, Invariance, PTL DEF DurableOnReturn
=============================================================================
