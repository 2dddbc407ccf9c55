------------------------------ MODULE MCStores ------------------------------
(***************************************************************************)
(* Components that keep chunks, roots or graphs behind a mutex or a queue: *)
(* the ValueStore, the DynamoDB chunk store and manifest, LevelDB, the     *)
(* GraphBuilder and the file system.  A behaviour is one of them; the      *)
(* variables of the others stay as they are.                               *)
(***************************************************************************)
EXTENDS Naturals, Sequences, TLC

CONSTANTS
  Goroutine, MaxValueCalls,
  dw, dr, NoRoot, WriteBufferSize, MaxPutCount, MaxDynamoCalls, MaxPartial,
  LHash, Namespace, NoHash, MaxLevelCalls, MaxCrashes,
  MaxGraphOps,
  FName, MaxDepth, MaxFSOps, MaxHandles,
  ca, cb, cc, v1, v2, Root, Specs, EmptyHash, Absent, NoOne, Lag

VARIABLES
  which,
  bs, cache, valueCache, vcall, vcalls, written,
  dtable, droot, unwrittenPuts, writeQueue, readQueue, dwg, writer, reader, dcall, dcalls,
  accepted, throttled, partial, dclosed, dalive,
  journal, synced, versionSet, mu, lcall, lcalls, crashes, acked,
  opcache, listIdx, gcall, asked, built,
  fs, handle, mdop, wrop, now, where, strayed,
  items, client, putter

values == <<bs, cache, valueCache, vcall, vcalls, written>>
dynamo == <<dtable, droot, unwrittenPuts, writeQueue, readQueue, dwg, writer, reader, dcall, dcalls,
            accepted, throttled, partial, dclosed, dalive>>
level == <<journal, synced, versionSet, mu, lcall, lcalls, crashes, acked>>
graph == <<opcache, listIdx, gcall, asked, built>>
files == <<fs, handle, mdop, wrop, now, where, strayed>>
manifest == <<items, client, putter>>
vars == <<which, values, dynamo, level, graph, files, manifest>>

\* Three values: 2 refers to 1, 3 to both; not all of them fit into the valueCache.
Values == INSTANCE ValueStore WITH
  Hash <- 1 .. 3, Refs <- <<{}, {1}, {1, 2}>>, Size <- <<1, 2, 2>>, CacheSize <- 3

\* One goroutine writes many chunks, commits and closes, another one writes and reads.
Dynamo == INSTANCE DynamoStore WITH
  DHash <- {1, 2}, Client <- {dw, dr},
  ClientOps <- dw :> {"PutMany", "UpdateRoot", "Close"} @@ dr :> {"Put", "Get"}

Level == INSTANCE LevelDBStore WITH Caller <- Goroutine

\* Keys ordered by value (kinds 1 and 2) and by digest (5 and 6), up to two deep.
K(kind, n) == [kind |-> kind, n |-> n]
V(n) == [kind |-> "val", items |-> <<n>>]
Ks == {K(1, 1), K(2, 1), K(5, 1), K(6, 2)}
GOps ==
  [kind : {"map"}, keys : {<<>>, <<K(1, 1)>>, <<K(5, 1)>>, <<K(6, 2)>>, <<K(5, 1), K(6, 2)>>},
   key : Ks, val : {V(1)}]
  \cup [kind : {"set"}, keys : {<<K(5, 1), K(1, 1)>>}, key : Ks, val : {V(0)}]
  \cup [kind : {"list"}, keys : {<<K(5, 1), K(5, 1)>>, <<K(6, 2)>>}, key : {K(1, 0)},
        val : {V(1), V(2)}]
Graph == INSTANCE GraphBuilder WITH GOp <- GOps, Builder <- Goroutine, RootKind <- "map"

Files == INSTANCE NomsFS

\* Client cc runs another version of Noms.
Table == INSTANCE DynamoManifest WITH
  Client <- {ca, cb, cc}, NomsVersion <- ca :> v1 @@ cb :> v1 @@ cc :> v2, writer <- putter

ValuesParked == bs = 0 /\ cache = 0 /\ valueCache = 0 /\ vcall = 0 /\ vcalls = 0 /\ written = 0
DynamoParked ==
  /\ dtable = 0 /\ droot = 0 /\ unwrittenPuts = 0 /\ writeQueue = 0 /\ readQueue = 0 /\ dwg = 0
  /\ writer = 0 /\ reader = 0 /\ dcall = 0 /\ dcalls = 0 /\ accepted = 0 /\ throttled = 0
  /\ partial = 0 /\ dclosed = 0 /\ dalive = 0
LevelParked ==
  /\ journal = 0 /\ synced = 0 /\ versionSet = 0 /\ mu = 0 /\ lcall = 0 /\ lcalls = 0
  /\ crashes = 0 /\ acked = 0
GraphParked == opcache = 0 /\ listIdx = 0 /\ gcall = 0 /\ asked = 0 /\ built = 0
FilesParked ==
  fs = 0 /\ handle = 0 /\ mdop = 0 /\ wrop = 0 /\ now = 0 /\ where = 0 /\ strayed = 0
TableParked == items = 0 /\ client = 0 /\ putter = 0

Init ==
  /\ which \in {"values", "dynamo", "level", "graph", "files", "manifest"}
  /\ IF which = "values" THEN Values!Init ELSE ValuesParked
  /\ IF which = "dynamo" THEN Dynamo!DynamoInit ELSE DynamoParked
  /\ IF which = "level" THEN Level!LevelInit ELSE LevelParked
  /\ IF which = "graph" THEN Graph!GraphInit ELSE GraphParked
  /\ IF which = "files" THEN Files!FSInit ELSE FilesParked
  /\ IF which = "manifest" THEN Table!Init ELSE TableParked

Next ==
  /\ UNCHANGED which
  /\ \/ which = "values" /\ Values!Next /\ UNCHANGED <<dynamo, level, graph, files, manifest>>
     \/ which = "dynamo" /\ Dynamo!DynamoNext /\ UNCHANGED <<values, level, graph, files, manifest>>
     \/ which = "level" /\ Level!LevelNext /\ UNCHANGED <<values, dynamo, graph, files, manifest>>
     \/ which = "graph" /\ Graph!GraphNext /\ UNCHANGED <<values, dynamo, level, files, manifest>>
     \/ which = "files" /\ Files!FSNext /\ UNCHANGED <<values, dynamo, level, graph, manifest>>
     \/ which = "manifest" /\ Table!Next /\ UNCHANGED <<values, dynamo, level, graph, files>>

Spec == Init /\ [][Next]_vars

----------------------------------------------------------------------------
\* What WriteValue relies on when it skips a chunk, and ValidatingBatchingSink when it
\* takes a hint: every chunk with an entry in the ValueStore's cache can be read, at
\* every interleaving of readers and writers, and its hint is a chunk that is there
\* and refers to it.
CachesSound == which = "values" => Values!CachesSound


\* Whatever the order in which goroutines store the operations, GraphBuilder.Build
\* returns the graph they describe: every node is complete when it is added to its
\* parent, and no node is opened twice.
BuildIsTheGraph == which = "graph" => Graph!BuildIsTheGraph


=============================================================================
