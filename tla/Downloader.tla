----------------------------- MODULE Downloader -----------------------------
(***************************************************************************)
(* samples/go/downloader: Update sends every RemoteResource that TreeWalk  *)
(* finds to a pool of goroutines, whose results become one patch.  Their   *)
(* callback downloads the resource, unless resourceCache has it, and       *)
(* commits the cache after every CommitEvery downloads.  A download is ok, *)
(* fails, or panics; the callback's panics are recovered and leave the     *)
(* resource as it was.  Nobody else writes the dataset of the cache.       *)
(***************************************************************************)
EXTENDS Naturals, Sequences, SequencesExt

CONSTANTS
  Transformer,  \* concurrency goroutines
  Finds,        \* the urls TreeWalk finds, in its order: a set of sequences
  ChanSize,     \* of foundChan and updatedChan, 128 in the code
  CommitEvery   \* 1000 in the code

VARIABLES
  finds, walked,             \* what TreeWalk finds and how far it is
  foundChan, foundClosed,
  updatedChan, updatedClosed,
  patch, collected,          \* the patch and whether its goroutine has ended
  transformer,               \* transformer[t]: [pc, item, got]
  readers, waiting, writer,  \* downloadPhotos' rwMutex
  resources, orig, dataset,  \* resourceCache.cache and .orig, the dataset's head
  updateCnt,
  failed,                    \* items whose callback panicked
  dmain                      \* the caller of Update

downloadVars == <<finds, walked, foundChan, foundClosed, updatedChan, updatedClosed, patch,
                  collected, transformer, readers, waiting, writer, resources, orig, dataset,
                  updateCnt, failed, dmain>>

Nobody == "nobody"
AtLoop == [pc |-> "loop", item |-> 0, got |-> "none"]

DownloadInit ==
  /\ finds \in Finds /\ walked = 0
  /\ foundChan = <<>> /\ foundClosed = FALSE
  /\ updatedChan = <<>> /\ updatedClosed = FALSE
  /\ patch = <<>> /\ collected = FALSE
  /\ transformer = [t \in Transformer |-> AtLoop]
  /\ readers = {} /\ waiting = {} /\ writer = Nobody
  /\ dataset \in SUBSET UNION {ToSet(f) : f \in Finds}
  /\ resources = dataset /\ orig = dataset
  /\ updateCnt = 0
  /\ failed = {}
  /\ dmain = "walk"

Url(t) == finds[transformer[t].item]
At(t, pc) == dmain \notin {"crashed", "panicked"} /\ transformer[t].pc = pc
Goto(t, pc) == transformer' = [transformer EXCEPT ![t].pc = pc]
Got(t, pc, got) == transformer' = [transformer EXCEPT ![t].pc = pc, ![t].got = got]

channels == <<finds, walked, foundChan, foundClosed, updatedChan, updatedClosed, patch, collected>>
mutex == <<readers, waiting, writer>>
caches == <<resources, orig, dataset>>

----------------------------------------------------------------------------
\* The loop over foundChan.
Receive(t) ==
  /\ At(t, "loop") /\ foundChan # <<>>
  /\ transformer' = [transformer EXCEPT ![t] = [pc |-> "rlock", item |-> Head(foundChan), got |-> "none"]]
  /\ foundChan' = Tail(foundChan)
  /\ UNCHANGED <<finds, walked, foundClosed, updatedChan, updatedClosed, patch, collected,
                 mutex, caches, updateCnt, failed, dmain>>

LeaveLoop(t) ==
  /\ At(t, "loop") /\ foundChan = <<>> /\ foundClosed
  /\ Goto(t, "left")
  /\ UNCHANGED <<channels, mutex, caches, updateCnt, failed, dmain>>

\* doDownload.  A writer that waits for a sync.RWMutex keeps new readers out.
RLock(t) ==
  /\ At(t, "rlock") /\ writer = Nobody /\ waiting = {}
  /\ readers' = readers \cup {t}
  /\ Goto(t, "get")
  /\ UNCHANGED <<channels, waiting, writer, caches, updateCnt, failed, dmain>>

CacheGet(t) ==
  /\ At(t, "get")
  /\ IF Url(t) \in resources THEN Got(t, "runlock", "blob") ELSE Goto(t, "download")
  /\ UNCHANGED <<channels, mutex, caches, updateCnt, failed, dmain>>

downloadBlob(t) ==
  /\ At(t, "download")
  /\ Goto(t, "set") \/ Got(t, "runlock", "error")
  /\ UNCHANGED <<channels, mutex, caches, updateCnt, failed, dmain>>

\* The panic of a download that cannot be stored passes the deferred RUnlock.
downloadPanics(t) ==
  /\ At(t, "download")
  /\ readers' = readers \ {t}
  /\ failed' = failed \cup {transformer[t].item}
  /\ Goto(t, "loop")
  /\ UNCHANGED <<channels, waiting, writer, caches, updateCnt, dmain>>

CacheSet(t) ==
  /\ At(t, "set")
  /\ resources' = resources \cup {Url(t)}
  /\ Got(t, "runlock", "blob")
  /\ UNCHANGED <<channels, mutex, orig, dataset, updateCnt, failed, dmain>>

RUnlock(t) ==
  /\ At(t, "runlock")
  /\ readers' = readers \ {t}
  /\ Goto(t, "count")
  /\ UNCHANGED <<channels, waiting, writer, caches, updateCnt, failed, dmain>>

Count(t) ==
  /\ At(t, "count")
  /\ updateCnt' = updateCnt + 1
  /\ Goto(t, "check")
  /\ UNCHANGED <<channels, mutex, caches, failed, dmain>>

\* Cnt is read after the increment and may be another goroutine's.
CheckCount(t) ==
  /\ At(t, "check")
  /\ IF updateCnt % CommitEvery = 0
     THEN Goto(t, "lock") /\ waiting' = waiting \cup {t}
     ELSE Goto(t, "send") /\ UNCHANGED waiting
  /\ UNCHANGED <<channels, readers, writer, caches, updateCnt, failed, dmain>>

Lock(t) ==
  /\ At(t, "lock") /\ readers = {} /\ writer = Nobody
  /\ writer' = t
  /\ waiting' = waiting \ {t}
  /\ Goto(t, "commit")
  /\ UNCHANGED <<channels, readers, caches, updateCnt, failed, dmain>>

\* resourceCache.commit that succeeds, or has nothing to do.
commitCache ==
  /\ dataset' = IF resources # orig THEN resources ELSE dataset
  /\ orig' = resources
  /\ UNCHANGED resources

CommitCache(t) ==
  /\ At(t, "commit")
  /\ commitCache
  /\ writer' = Nobody
  /\ Goto(t, "send")
  /\ UNCHANGED <<channels, readers, waiting, updateCnt, failed, dmain>>

\* A commit that fails is a panic of the callback: the download is not in the patch.
CommitPanics(t) ==
  /\ At(t, "commit") /\ resources # orig
  /\ writer' = Nobody
  /\ failed' = failed \cup {transformer[t].item}
  /\ Goto(t, "loop")
  /\ UNCHANGED <<channels, readers, waiting, caches, updateCnt, dmain>>

\* Outside of the callback nothing recovers the panic of a closed channel.
Send(t) ==
  /\ At(t, "send")
  /\ IF updatedClosed
     THEN dmain' = "crashed" /\ UNCHANGED <<updatedChan, transformer>>
     ELSE /\ Len(updatedChan) < ChanSize
          /\ updatedChan' = Append(updatedChan, <<transformer[t].item, transformer[t].got>>)
          /\ transformer' = [transformer EXCEPT ![t] = AtLoop]
          /\ UNCHANGED dmain
  /\ UNCHANGED <<finds, walked, foundChan, foundClosed, updatedClosed, patch, collected,
                 mutex, caches, updateCnt, failed>>

----------------------------------------------------------------------------
\* The goroutine that gathers the patch.
Collect ==
  /\ dmain # "crashed" /\ updatedChan # <<>>
  /\ patch' = Append(patch, Head(updatedChan))
  /\ updatedChan' = Tail(updatedChan)
  /\ UNCHANGED <<finds, walked, foundChan, foundClosed, updatedClosed, collected, transformer,
                 mutex, caches, updateCnt, failed, dmain>>

CollectEnds ==
  /\ updatedChan = <<>> /\ updatedClosed /\ ~collected
  /\ collected' = TRUE
  /\ UNCHANGED <<finds, walked, foundChan, foundClosed, updatedChan, updatedClosed, patch,
                 transformer, mutex, caches, updateCnt, failed, dmain>>

\* The caller: TreeWalk, close(foundChan), transformWg.Wait, close(updatedChan).
Walk ==
  /\ dmain = "walk"
  /\ IF walked < Len(finds)
     THEN /\ Len(foundChan) < ChanSize
          /\ walked' = walked + 1
          /\ foundChan' = Append(foundChan, walked + 1)
          /\ UNCHANGED <<foundClosed, dmain>>
     ELSE /\ foundClosed' = TRUE
          /\ dmain' = "wait"
          /\ UNCHANGED <<walked, foundChan>>
  /\ UNCHANGED <<finds, updatedChan, updatedClosed, patch, collected, transformer, mutex, caches,
                 updateCnt, failed>>

\* Mutant: the goroutines need only have taken their last item.
AllDoneEarly == foundChan = <<>>

AllDone == \A t \in Transformer : transformer[t].pc = "left"

CloseUpdated ==
  /\ dmain = "wait" /\ AllDone
  /\ updatedClosed' = TRUE
  /\ dmain' = "gather"
  /\ UNCHANGED <<finds, walked, foundChan, foundClosed, updatedChan, patch, collected, transformer,
                 mutex, caches, updateCnt, failed>>

\* Apply, and run's last commit of the cache, whose failure is the program's.
LastCommit ==
  /\ dmain = "gather" /\ collected
  /\ \/ commitCache /\ dmain' = "done"
     \/ resources # orig /\ dmain' = "panicked" /\ UNCHANGED caches
  /\ UNCHANGED <<channels, transformer, mutex, updateCnt, failed>>

DownloadNext ==
  \/ \E t \in Transformer :
       \/ Receive(t) \/ LeaveLoop(t) \/ RLock(t) \/ CacheGet(t) \/ downloadBlob(t) \/ downloadPanics(t)
       \/ CacheSet(t) \/ RUnlock(t) \/ Count(t) \/ CheckCount(t) \/ Lock(t) \/ CommitCache(t)
       \/ CommitPanics(t) \/ Send(t)
  \/ Collect \/ CollectEnds \/ Walk \/ CloseUpdated \/ LastCommit

----------------------------------------------------------------------------
\* When Update applies its patch it has one entry for every resource TreeWalk found,
\* apart from those whose callback panicked, however the goroutines finished; and
\* when the program ends, the dataset of the cache has every resource that was
\* downloaded, although the commits in between may have been skipped or have failed.
PatchComplete ==
  /\ dmain # "crashed"
  /\ collected =>
       /\ \A i, j \in DOMAIN patch : patch[i][1] = patch[j][1] => i = j
       /\ {patch[i][1] : i \in DOMAIN patch} = DOMAIN finds \ failed
  /\ dmain = "done" =>
       \A i \in DOMAIN patch : patch[i][2] = "blob" => finds[patch[i][1]] \in dataset
=============================================================================
