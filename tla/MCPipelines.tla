----------------------------- MODULE MCPipelines -----------------------------
(***************************************************************************)
(* The code that is goroutines and channels: the ordered worker pool, the  *)
(* answer to a batch of reads, the upload of a table to S3, the diff that  *)
(* races two algorithms, and the downloader's transformation of a graph.   *)
(* A behaviour is one of the five; the variables of the others stay as     *)
(* they are.                                                               *)
(***************************************************************************)
EXTENDS OrderedParallel

CONSTANTS
  Hash, Caller, MaxGetBatchSize, RateLimit, MaxPuts, \* the batch of reads
  DataLens, PartSize, MaxFailures,                   \* the upload
  Transformer, Finds, ChanSize, CommitEvery,         \* the downloads
  Window, Pattern, BoundaryLevels, MaxMatrix, Diffs, Keys, Vals

VARIABLES
  which,
  kind, want, stored, todo, wire, puts, batch, answer, closed, alive,
  dataLen, part, failures, done, sent, parts, failure, held, upload, object, compact,
  differ, lr, td, main, change, count, changes, stopped,
  finds, walked, foundChan, foundClosed, updatedChan, updatedClosed, patch, collected, transformer,
  readers, waiting, writer, resources, orig, dataset, updateCnt, failed, dmain

reads == <<kind, want, stored, todo, wire, puts, batch, answer, closed, alive>>
uploads == <<dataLen, part, failures, done, sent, parts, failure, held, upload, object, compact>>
diffs == <<differ, lr, td, main, change, count, changes, stopped>>
downloads == <<finds, walked, foundChan, foundClosed, updatedChan, updatedClosed, patch, collected,
               transformer, readers, waiting, writer, resources, orig, dataset, updateCnt, failed, dmain>>
vars == <<which, poolVars, reads, uploads, diffs, downloads>>

Batch == INSTANCE ReadBatch
Upload == INSTANCE S3Upload
Best == INSTANCE OrderedDiff WITH want <- differ, held <- change
\* The algorithms alone, which make the diffs that Best is given.
Given == INSTANCE OrderedDiff WITH want <- differ, held <- change, Diffs <- {}
Loader == INSTANCE Downloader

Seqs(S) == UNION {[1 .. n -> S] : n \in 0 .. 4}
MCInputs == Seqs({"x", "y"})
MCFinds == {<<>>, <<"u">>, <<"u", "v", "u">>}

Sorted(f) ==
  LET ks == Given!SortBy(DOMAIN f, LAMBDA a, b : a < b)
  IN  [i \in 1 .. Len(ks) |-> <<ks[i], f[ks[i]]>>]
MCMaps == {Given!Build("Map", Sorted(f)) : f \in UNION {[S -> Vals] : S \in SUBSET Keys}}
MCDiffs == {Given!Diffed(last, current) : last, current \in MCMaps}

PoolParked == input = <<>> /\ inCount = 0 /\ outCount = 0 /\ wqClosed = 0 /\ worker = 0
              /\ mu = 0 /\ outHeap = 0 /\ out = <<>> /\ closes = 0
ReadsParked == kind = 0 /\ want = 0 /\ stored = 0 /\ todo = 0 /\ wire = 0 /\ puts = 0
               /\ batch = 0 /\ answer = 0 /\ closed = 0 /\ alive = 0
UploadsParked == dataLen = 0 /\ part = 0 /\ failures = 0 /\ done = 0 /\ sent = 0 /\ parts = 0
                 /\ failure = 0 /\ held = 0 /\ upload = 0 /\ object = 0 /\ compact = 0
DiffsParked == differ = 0 /\ lr = 0 /\ td = 0 /\ main = 0 /\ change = 0 /\ count = 0
               /\ changes = 0 /\ stopped = 0
DownloadsParked == finds = 0 /\ walked = 0 /\ foundChan = 0 /\ foundClosed = 0 /\ updatedChan = 0
                   /\ updatedClosed = 0 /\ patch = 0 /\ collected = 0 /\ transformer = 0 /\ readers = 0
                   /\ waiting = 0 /\ writer = 0 /\ resources = 0 /\ orig = 0 /\ dataset = 0
                   /\ updateCnt = 0 /\ failed = 0 /\ dmain = 0

Init ==
  \/ which = "pool" /\ PoolInit /\ ReadsParked /\ UploadsParked /\ DiffsParked /\ DownloadsParked
  \/ which = "reads" /\ Batch!Init /\ PoolParked /\ UploadsParked /\ DiffsParked /\ DownloadsParked
  \/ which = "upload" /\ Upload!UploadInit /\ PoolParked /\ ReadsParked /\ DiffsParked /\ DownloadsParked
  \/ which = "diff" /\ Best!Init /\ PoolParked /\ ReadsParked /\ UploadsParked /\ DownloadsParked
  \/ which = "download" /\ Loader!DownloadInit /\ PoolParked /\ ReadsParked /\ UploadsParked /\ DiffsParked

Goroutines ==
  \/ which = "pool" /\ PoolNext /\ UNCHANGED <<which, reads, uploads, diffs, downloads>>
  \/ which = "reads" /\ Batch!Next /\ UNCHANGED <<which, poolVars, uploads, diffs, downloads>>
  \/ which = "upload" /\ Upload!UploadNext /\ UNCHANGED <<which, poolVars, reads, diffs, downloads>>
  \/ which = "diff" /\ Best!Goroutines /\ UNCHANGED <<which, poolVars, reads, uploads, downloads>>
  \/ which = "download" /\ Loader!DownloadNext /\ UNCHANGED <<which, poolVars, reads, uploads, diffs>>
CallerStops == which = "diff" /\ Best!CallerStops /\ UNCHANGED <<which, poolVars, reads, uploads, downloads>>
Next == Goroutines \/ CallerStops

\* The Go scheduler runs some goroutine as long as one can run.  No more is needed:
\* every step brings its pipeline nearer to its end.
FairSpec == Init /\ [][Next]_vars /\ WF_vars(Goroutines)

----------------------------------------------------------------------------

\* s3TablePersister.Compact returns only for a complete table: whatever parts S3
\* refused and in whatever order they came in, the object is the data from its first
\* to its last byte, without a gap or an overlap.
ObjectComplete == which = "upload" => Upload!ObjectComplete

\* orderedSequenceDiffBest hands its caller the keys that differ, each once and in key
\* order, whichever goroutine wins each race.
BestIsTheDiff == which = "diff" => Best!BestIsTheDiff

\* "Top-down is parallel and efficiently returns the complete diff"
\* (ordered_sequences_diff.go:111): it does not panic, whatever trees it compares.
TopDownComplete == which = "diff" => Best!TopDownComplete

\* Update's patch has one entry for every resource that was found and did not make its
\* callback panic, and what was downloaded is in the dataset of the resource cache when
\* the program ends.
PatchComplete == which = "download" => Loader!PatchComplete

=============================================================================
