---------------------------- MODULE LevelDBStore ----------------------------
(***************************************************************************)
(* chunks.LevelDBStore: several stores, one per namespace, over the one    *)
(* LevelDB of a factory.  LevelDB (external) is a journal: a write appends *)
(* a batch; a write with Sync makes the journal up to its end durable; a   *)
(* crash of the machine keeps the durable part and some of the rest.       *)
(***************************************************************************)
EXTENDS Integers, Sequences, SequencesExt, TLC

CONSTANTS
  LHash,          \* hashes of chunks and roots
  Namespace,      \* one store for each; its calls come from any goroutine
  Caller,         \* goroutines
  NoHash,         \* the hash of an unset root
  MaxLevelCalls,  \* bound: calls in all
  MaxCrashes      \* bound

VARIABLES
  journal,     \* the batches written: each a set of <<ns, kind, hash>>
  synced,      \* how much of it is durable
  versionSet,  \* versionSetOnce has run, for each store
  mu,          \* the caller that holds internalLevelDBStore.mu, or NoHash
  lcall,       \* lcall[c]: the call in progress
  lcalls,
  crashes,
  acked        \* acked[ns]: the last root that an UpdateRoot returned, and the chunks put until then

lvars == <<journal, synced, versionSet, mu, lcall, lcalls, crashes, acked>>

NoLevelCall == [pc |-> "none"]
Entries(j) == UNION ToSet(j)

Chunks(ns) == {h \in LHash : <<ns, "chunk", h>> \in Entries(journal)}
HasVersion(ns) == <<ns, "vers", NoHash>> \in Entries(journal)

\* rootByKey: what was written last.
rootByKey(ns) ==
  LET at == {i \in 1 .. Len(journal) : \E h \in LHash : <<ns, "root", h>> \in journal[i]}
  IN  IF at = {} THEN NoHash
      ELSE LET last == CHOOSE i \in at : \A k \in at : k <= i
           IN  CHOOSE h \in LHash : <<ns, "root", h>> \in journal[last]

LevelInit ==
  /\ journal = <<>> /\ synced = 0
  /\ versionSet = [ns \in Namespace |-> FALSE]
  /\ mu = NoHash
  /\ lcall = [c \in Caller |-> NoLevelCall]
  /\ lcalls = 0 /\ crashes = 0
  /\ acked = [ns \in Namespace |-> [root |-> NoHash, chunks |-> {}]]

LevelCall(c, ns, call) ==
  /\ lcall[c] = NoLevelCall /\ lcalls < MaxLevelCalls
  /\ lcalls' = lcalls + 1
  /\ lcall' = [lcall EXCEPT ![c] = [pc |-> "version", ns |-> ns] @@ call]
  /\ UNCHANGED <<journal, synced, versionSet, mu, crashes, acked>>

\* versionSetOnce.Do(setVersIfUnset), which all calls that write begin with.
setVersIfUnset(c) ==
  LET ns == lcall[c].ns IN
  /\ lcall[c].pc = "version"
  /\ journal' = IF ~versionSet[ns] /\ ~HasVersion(ns)
                THEN Append(journal, {<<ns, "vers", NoHash>>}) ELSE journal
  /\ versionSet' = [versionSet EXCEPT ![ns] = TRUE]
  /\ lcall' = [lcall EXCEPT ![c].pc = IF lcall[c].op = "Put" THEN "put" ELSE "lock"]
  /\ UNCHANGED <<synced, mu, lcalls, crashes, acked>>

\* Put and PutMany: one batch, not synced.
putBatch(c) ==
  /\ lcall[c].pc = "put"
  /\ journal' = Append(journal, {<<lcall[c].ns, "chunk", h>> : h \in lcall[c].chunks})
  /\ lcall' = [lcall EXCEPT ![c] = NoLevelCall]
  /\ UNCHANGED <<synced, versionSet, mu, lcalls, crashes, acked>>

\* updateRootByKey takes the lock and looks at the root; a stale last returns false.
LockRoot(c) ==
  LET call == lcall[c] IN
  /\ call.pc = "lock" /\ mu = NoHash
  /\ IF call.last = rootByKey(call.ns)
     THEN /\ lcall' = [lcall EXCEPT ![c].pc = "write"]
          /\ mu' = c
     ELSE /\ lcall' = [lcall EXCEPT ![c] = NoLevelCall]
          /\ UNCHANGED mu
  /\ UNCHANGED <<journal, synced, versionSet, lcalls, crashes, acked>>


\* The write of the root, with Sync: the journal up to here is durable.
WriteRoot(c) ==
  LET call == lcall[c] IN
  /\ call.pc = "write"
  /\ journal' = Append(journal, {<<call.ns, "root", call.current>>})
  /\ synced' = Len(journal')
  /\ mu' = NoHash
  /\ acked' = [acked EXCEPT ![call.ns] = [root |-> call.current, chunks |-> Chunks(call.ns)]]
  /\ lcall' = [lcall EXCEPT ![c] = NoLevelCall]
  /\ UNCHANGED <<versionSet, lcalls, crashes>>

\* The machine crashes, and a new process opens the directory.
LevelCrash ==
  /\ crashes < MaxCrashes
  /\ crashes' = crashes + 1
  /\ \E n \in synced .. Len(journal) : journal' = SubSeq(journal, 1, n) /\ synced' = n
  /\ versionSet' = [ns \in Namespace |-> FALSE]
  /\ mu' = NoHash
  /\ lcall' = [c \in Caller |-> NoLevelCall]
  /\ UNCHANGED <<lcalls, acked>>

LevelNext ==
  \/ \E c \in Caller, ns \in Namespace, h \in LHash :
        \/ LevelCall(c, ns, [op |-> "Put", chunks |-> {h}])
        \/ LevelCall(c, ns, [op |-> "UpdateRoot", current |-> h, last |-> rootByKey(ns)])
  \/ \E c \in Caller, ns \in Namespace : LevelCall(c, ns, [op |-> "Put", chunks |-> LHash])
  \/ \E c \in Caller : setVersIfUnset(c) \/ putBatch(c) \/ LockRoot(c) \/ WriteRoot(c)
  \/ LevelCrash

LevelSpec == LevelInit /\ [][LevelNext]_lvars

----------------------------------------------------------------------------
\* A root that UpdateRoot returned survives every crash, with all chunks put in its
\* namespace before, and with the version of the data; an update through the
\* other namespace changes neither.
LevelDBRootSafe ==
  \A ns \in Namespace :
     /\ rootByKey(ns) = acked[ns].root
     /\ acked[ns].chunks \subseteq Chunks(ns)
     /\ acked[ns].root # NoHash => HasVersion(ns)
=============================================================================
