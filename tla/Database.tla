------------------------------ MODULE Database ------------------------------
(***************************************************************************)
(* The Database of go/datas: clients that share one store change the heads *)
(* of datasets through databaseCommon, whose loops re-read the root and    *)
(* retry when RootTracker.UpdateRoot says that another client was faster.  *)
(*                                                                         *)
(* A Ref to a commit is the commit itself: equal refs are equal commits.   *)
(* A root is the map from dataset to head that it is the hash of.          *)
(***************************************************************************)
EXTENDS Naturals, FiniteSets, FiniteSetsExt

Loop == INSTANCE SeqFold

CONSTANTS
  Client,       \* Database instances, one thread each
  Dataset,
  Value,
  ChunkHeight,  \* ChunkHeight[v]: maxChunkHeight of value v
  None,         \* no call in progress
  Ops,          \* the calls clients make
  MaxParents,   \* bound: parents given in CommitOptions
  MaxCalls      \* bound: calls of one client

ASSUME HeightAssumption == ChunkHeight \in [Value -> Nat]

VARIABLES
  nbs,     \* each client has a NomsBlockStore of its own, else all share a store
  root,    \* the persisted root
  seen,    \* seen[p]: the root p's Database knows (nbs.root, dbc.rootHash)
  handle,  \* handle[p]: the Dataset struct p works with: [id, head]
  known,   \* known[p]: the commits p has written or can reach from what it read
  call,    \* call[p]: the head update in progress
  calls,   \* calls[p]: how many p has begun
  done     \* history: <<d, c>> when a Commit or FastForward of c to d succeeded

vars == <<nbs, root, seen, handle, known, call, calls, done>>

----------------------------------------------------------------------------
\* Commits and their graph.  A Ref carries its height.
NewCommit(value, parents) ==
  [value |-> value, parents |-> parents,
   height |-> 1 + Max({ChunkHeight[value]} \cup {c.height : c \in parents})]

\* Ref{}, which is the head of a dataset that has none.
NoHead == [height |-> 0]

MaxHeight(q) == Max({c.height : c \in q})
OfHeight(q, h) == {c \in q : c.height = h}
Parents(q) == UNION {c.parents : c \in q}

WithParents(q) == q \cup Parents(q)

\* The commits of q and all that come before them.
Ancestors(q) == IF q = {} THEN {} ELSE Loop!Iterate(WithParents, q, MaxHeight(q))

\* The queues of FindCommonAncestor, q[1] and q[2].
Emptied(q) == q[1] = {} \/ q[2] = {}
Tallest(q) == Max({MaxHeight(q[1]), MaxHeight(q[2])})

\* findCommonRef of the tallest refs (which of several a Go map yields is open).
FindCommonRef(q) == OfHeight(q[1], Tallest(q)) \cap OfHeight(q[2], Tallest(q))

\* PopRefsOfHeight and parentsToQueue.
ParentsToQueue(s, h) == (s \ OfHeight(s, h)) \cup Parents(OfHeight(s, h))

\* Mutant: the second queue is popped on a tie, but gets no parents.
TurnUneven(q) ==
  IF Emptied(q) \/ FindCommonRef(q) # {} THEN q
  ELSE <<ParentsToQueue(q[1], Tallest(q)),
         IF MaxHeight(q[1]) = Tallest(q) THEN q[2] \ OfHeight(q[2], Tallest(q))
         ELSE ParentsToQueue(q[2], Tallest(q))>>

\* One turn of the loop, which ends when a queue is empty or a common ref is found:
\* the tallest refs of both queues are replaced by their parents.
Turn(q) ==
  IF Emptied(q) \/ FindCommonRef(q) # {} THEN q
  ELSE <<ParentsToQueue(q[1], Tallest(q)), ParentsToQueue(q[2], Tallest(q))>>

Queues(c1, c2) == Loop!Iterate(Turn, <<{c1}, {c2}>>, MaxHeight({c1, c2}))

\* FindCommonAncestor: the set of possible results, empty when there is none.  The
\* queues get lower with every turn, so the loop ends after that many.
FindCommonAncestor(c1, c2) ==
  UNION {IF Emptied(q) THEN {} ELSE FindCommonRef(q) : q \in {Queues(c1, c2)}}

----------------------------------------------------------------------------
\* The root of a store never committed to, which is not that of the empty map.
EmptyHash == [map |-> FALSE, heads |-> [d \in Dataset |-> NoHead]]

\* Map.MaybeGet, Set and Remove.
Head(r, d) == r.heads[d]
Set(r, d, c) == [map |-> TRUE, heads |-> [r.heads EXCEPT ![d] = c]]
Remove(r, d) == Set(r, d, NoHead)

\* What can be read from root r.
Reachable(r) == Ancestors({r.heads[d] : d \in Dataset} \ {NoHead})

\* rt.Root(): a NomsBlockStore answers from its cache; LevelDB, DynamoDB and the
\* HTTP server that all clients share have the root that is stored.
Root(p) == IF nbs THEN seen[p] ELSE root

Init ==
  /\ nbs \in BOOLEAN
  /\ root = EmptyHash
  /\ seen = [p \in Client |-> EmptyHash]
  /\ handle \in [Client -> [id : Dataset, head : {NoHead}]]
  /\ known = [p \in Client |-> {}]
  /\ call = [p \in Client |-> None]
  /\ calls = [p \in Client |-> 0]
  /\ done = {}

Idle(p) == call[p] = None

\* The Database is closed and opened again: newDatabaseCommon reads the root.
NewDatabase(p) ==
  /\ Idle(p)
  /\ seen' = [seen EXCEPT ![p] = root]
  /\ known' = [known EXCEPT ![p] = Reachable(root)]
  /\ handle' = [handle EXCEPT ![p].head = Head(root, handle[p].id)]
  /\ UNCHANGED <<root, call, calls, done>>

\* GetDataset, from the Datasets() that this Database knows.
GetDataset(p, d) ==
  /\ Idle(p)
  /\ handle' = [handle EXCEPT ![p] = [id |-> d, head |-> Head(seen[p], d)]]
  /\ known' = [known EXCEPT ![p] = @ \cup Reachable(seen[p])]
  /\ UNCHANGED <<root, seen, call, calls, done>>

Begin(p, op) ==
  /\ Idle(p)
  /\ op \in Ops
  /\ calls[p] < MaxCalls
  /\ calls' = [calls EXCEPT ![p] = @ + 1]

\* What is left of call c is its deferred refresh.
Leave(p, c) == call' = [call EXCEPT ![p] = [op |-> c.op, pc |-> "return", id |-> c.id]]

\* buildNewCommit's parents: those given, else the head of the Dataset struct.
ParentSets(p) ==
  {IF handle[p].head = NoHead THEN {} ELSE {handle[p].head}}
    \cup UNION {kSubset(k, known[p]) : k \in 1 .. MaxParents}

\* Commit, CommitValue: buildNewCommit, and doCommit is entered.
Commit(p, value, parents, policy) ==
  /\ Begin(p, "Commit")
  /\ LET c == NewCommit(value, parents) IN
       /\ call' = [call EXCEPT ![p] = [op |-> "Commit", pc |-> "read", id |-> handle[p].id,
                                       commit |-> c, policy |-> policy]]
       /\ known' = [known EXCEPT ![p] = @ \cup {c}]
  /\ UNCHANGED <<root, seen, handle, done>>

\* SetHead and FastForward.  Refs are compared with Go's ==, which is true of
\* copies of one Ref only; for the Ref of the Dataset struct itself the call
\* returns at once, before the deferred refresh is set up.
HeadUpdateReturnsAtOnce(p, op) ==
  /\ Begin(p, op)
  /\ handle[p].head # NoHead
  /\ handle' = [handle EXCEPT ![p].head = Head(seen[p], handle[p].id)]
  /\ UNCHANGED <<root, seen, known, call, done>>

SetHead(p, newHead) ==
  /\ Begin(p, "SetHead")
  /\ newHead \in known[p]
  /\ call' = [call EXCEPT ![p] = [op |-> "SetHead", pc |-> "read", id |-> handle[p].id,
                                  commit |-> newHead, policy |-> FALSE]]
  /\ UNCHANGED <<root, seen, handle, known, done>>

\* doFastForward: a new head that is not higher is refused at once.
FastForward(p, newHead) ==
  /\ Begin(p, "FastForward")
  /\ newHead \in known[p]
  /\ IF newHead.height > handle[p].head.height
       THEN /\ call' = [call EXCEPT ![p] = [op |-> "FastForward", pc |-> "read", id |-> handle[p].id,
                                            commit |-> newHead, policy |-> FALSE]]
            /\ UNCHANGED handle
       ELSE /\ handle' = [handle EXCEPT ![p].head = Head(seen[p], handle[p].id)]
            /\ UNCHANGED call
  /\ UNCHANGED <<root, seen, known, done>>

----------------------------------------------------------------------------
\* Call c has read the root and is about to replace it by map m (tryUpdateRoot).
Try(p, c, m) ==
  call' = [call EXCEPT ![p] = [op |-> c.op, pc |-> "update", id |-> c.id,
                               base |-> Root(p), next |-> m, was |-> c]]

Reads(p) == known' = [known EXCEPT ![p] = @ \cup Reachable(Root(p))]

\* Mutant: any common ancestor will do for a fast-forward.
IsFastForwardAny(c, head, a) == head # c

\* The current head is an ancestor of the commit.
IsFastForward(c, head, a) == head = a /\ head # c

\* One turn of doCommit's loop, up to the UpdateRoot.
DoCommit(p) ==
  LET c == call[p].commit
      d == call[p].id
      head == Head(Root(p), d)
      ancestors == FindCommonAncestor(c, head)
  IN
  /\ ~Idle(p) /\ call[p].pc = "read" /\ call[p].op \in {"Commit", "FastForward"}
  /\ \/ /\ head = NoHead
        /\ Try(p, call[p], Set(Root(p), d, c))
        /\ Reads(p)
     \/ /\ head # NoHead /\ ancestors = {}
        /\ Leave(p, call[p])
        /\ Reads(p)
     \/ /\ head # NoHead
        /\ \E a \in ancestors : IsFastForward(c, head, a)
        /\ Try(p, call[p], Set(Root(p), d, c))
        /\ Reads(p)
     \/ /\ head # NoHead
        /\ \E a \in ancestors : ~IsFastForward(c, head, a)
        /\ \/ Leave(p, call[p]) /\ Reads(p)  \* ErrMergeNeeded, or the policy's error
           \/ /\ call[p].policy
              /\ \E merged \in Value :
                   LET mc == NewCommit(merged, {c, head}) IN
                   /\ Try(p, call[p], Set(Root(p), d, mc))
                   /\ known' = [known EXCEPT ![p] = @ \cup Reachable(Root(p)) \cup {mc}]
  /\ UNCHANGED <<root, seen, handle, calls, done>>

DoSetHead(p) ==
  /\ ~Idle(p) /\ call[p].pc = "read" /\ call[p].op = "SetHead"
  /\ Try(p, call[p], Set(Root(p), call[p].id, call[p].commit))
  /\ Reads(p)
  /\ UNCHANGED <<root, seen, handle, calls, done>>

\* doDelete reads the head; where there is none there is nothing to do.
Delete(p) ==
  LET d == handle[p].id
      c == [op |-> "Delete", pc |-> "read", id |-> d, initial |-> Head(Root(p), d)]
  IN
  /\ Begin(p, "Delete")
  /\ IF c.initial # NoHead
       THEN Try(p, c, Remove(Root(p), d))
       ELSE Leave(p, c)
  /\ Reads(p)
  /\ UNCHANGED <<root, seen, handle, done>>

\* Mutant: a retry deletes whatever head it finds.
DeletableAny(p) == Head(Root(p), call[p].id) # NoHead

\* The head is the one that doDelete began with.
Deletable(p) == Head(Root(p), call[p].id) = call[p].initial

\* doDelete after a failed UpdateRoot: try again or return ErrMergeNeeded.
DoDelete(p) ==
  /\ ~Idle(p) /\ call[p].pc = "read" /\ call[p].op = "Delete"
  /\ IF Deletable(p) THEN Try(p, call[p], Remove(Root(p), call[p].id))
                     ELSE Leave(p, call[p])
  /\ Reads(p)
  /\ UNCHANGED <<root, seen, handle, calls, done>>

----------------------------------------------------------------------------
\* A SetHead or Delete takes back what was committed to the dataset.
Record(p) ==
  done' = IF call[p].op \in {"Commit", "FastForward"}
            THEN done \cup {<<call[p].id, call[p].was.commit>>}
            ELSE {e \in done : e[1] # call[p].id}

\* Mutant: UpdateRoot does not compare.
SwapsAlways(p) == TRUE

\* UpdateRoot finds |last|, the root read.
Swaps(p) == root = call[p].base

UpdateRootSucceeds(p) ==
  /\ ~Idle(p) /\ call[p].pc = "update"
  /\ Swaps(p)
  /\ root' = call[p].next
  /\ seen' = IF nbs THEN [seen EXCEPT ![p] = call[p].next] ELSE seen
  /\ Leave(p, call[p])
  /\ Record(p)
  /\ UNCHANGED <<handle, known, calls>>

\* A NomsBlockStore finds the very root it was to write.
UpdateRootAlreadyThere(p) ==
  /\ ~Idle(p) /\ call[p].pc = "update"
  /\ ~Swaps(p) /\ nbs /\ root = call[p].next
  /\ seen' = [seen EXCEPT ![p] = root]
  /\ Leave(p, call[p])
  /\ Record(p)
  /\ UNCHANGED <<root, handle, known, calls>>

\* Mutant: a failing UpdateRoot leaves nbs.root as it is.
RebaseNot(p) == UNCHANGED seen

\* A NomsBlockStore takes over the root it found.
Rebase(p) == seen' = IF nbs THEN [seen EXCEPT ![p] = root] ELSE seen

\* ErrOptimisticLockFailed: SetHead returns it, the others go round again.
UpdateRootFails(p) ==
  /\ ~Idle(p) /\ call[p].pc = "update"
  /\ ~Swaps(p) /\ ~(nbs /\ root = call[p].next)
  /\ Rebase(p)
  /\ IF call[p].op = "SetHead" THEN Leave(p, call[p])
                              ELSE call' = [call EXCEPT ![p] = call[p].was]
  /\ UNCHANGED <<root, handle, known, calls, done>>

\* The deferred refresh of dbc.rootHash, and the GetDataset of the result.
Return(p) ==
  /\ ~Idle(p) /\ call[p].pc = "return"
  /\ seen' = [seen EXCEPT ![p] = Root(p)]
  /\ handle' = [handle EXCEPT ![p].head = Head(Root(p), call[p].id)]
  /\ known' = [known EXCEPT ![p] = @ \cup Reachable(Root(p))]
  /\ call' = [call EXCEPT ![p] = None]
  /\ UNCHANGED <<root, calls, done>>

Proceed(p) ==
  \/ DoCommit(p) \/ DoSetHead(p) \/ DoDelete(p)
  \/ UpdateRootSucceeds(p) \/ UpdateRootAlreadyThere(p) \/ UpdateRootFails(p)
  \/ Return(p)

Step(p) ==
  \/ NewDatabase(p)
  \/ \E d \in Dataset : GetDataset(p, d)
  \/ \E value \in Value, parents \in ParentSets(p), policy \in BOOLEAN :
       Commit(p, value, parents, policy)
  \/ \E op \in {"SetHead", "FastForward"} : HeadUpdateReturnsAtOnce(p, op)
  \/ \E c \in known[p] : SetHead(p, c) \/ FastForward(p, c)
  \/ Delete(p)
  \/ Proceed(p)

Next == UNCHANGED nbs /\ \E p \in Client : Step(p)

Spec == Init /\ [][Next]_vars

\* A client that is in a call goes on.
Fairness == \A p \in Client : WF_vars(UNCHANGED nbs /\ Proceed(p))

FairSpec == Spec /\ Fairness

----------------------------------------------------------------------------
IsCommit(c) ==
  c.value \in Value /\ c.height \in Nat /\ \A parent \in c.parents : parent.height < c.height

ValidRoot(r) ==
  DOMAIN r.heads = Dataset /\ \A d \in Dataset : Head(r, d) = NoHead \/ IsCommit(Head(r, d))

TypeOK ==
  /\ ValidRoot(root)
  /\ \A p \in Client :
       /\ ValidRoot(seen[p])
       /\ handle[p].id \in Dataset
       /\ handle[p].head \in known[p] \cup {NoHead}
       /\ Ancestors(known[p]) \subseteq known[p]
       /\ calls[p] \in 0 .. MaxCalls
       /\ ~Idle(p) => call[p].pc \in {"read", "update", "return"} /\ call[p].op \in Ops

\* p's call replaces the root in this step.
Replaces(p) == ~Idle(p) /\ call[p].pc = "update" /\ root' # root /\ UpdateRootSucceeds(p)

\* An operation on one dataset leaves the heads of the others alone, those that
\* were moved while it ran included.
OthersUntouched ==
  [][\A p \in Client : Replaces(p) =>
       \A d \in Dataset \ {call[p].id} : Head(root', d) = Head(root, d)]_vars

\* What a client was told is committed is in the history of the dataset's head,
\* until a SetHead or Delete of that dataset succeeds: no commit is overwritten
\* by a race.
NothingLost ==
  \A e \in done : Head(root, e[1]) # NoHead /\ e[2] \in Ancestors({Head(root, e[1])})

\* The common ancestors of c1 and c2, by definition.
Common(c1, c2) == Ancestors({c1}) \cap Ancestors({c2})

\* What FindCommonAncestor may return: the common ancestors of the greatest height.
MostRecentCommon(c1, c2) ==
  LET common == Common(c1, c2) IN
  IF common = {} THEN {} ELSE OfHeight(common, MaxHeight(common))

\* Delete removes the head it found when it was called, never one that another
\* client set in the meantime ("If the optimistic lock failed because someone
\* changed the Head of datasetID, then return ErrMergeNeeded").
DeletesWhatItSaw ==
  [][\A p \in Client : Replaces(p) /\ call[p].op = "Delete" =>
       Head(root, call[p].id) = call[p].was.initial]_vars

\* A head update returns once the others have made their calls: a lost race is
\* retried from the root that won it.
CallsReturn == \A p \in Client : ~Idle(p) ~> Idle(p)
=============================================================================
