------------------------------ MODULE Manifest ------------------------------
(***************************************************************************)
(* What the manifest interface of go/nbs/manifest.go promises a            *)
(* NomsBlockStore: ParseIfExists returns the manifest, and Update replaces *)
(* it in one step if it still has the root that the caller knows, else     *)
(* returns the one that is there.  A client is a process that opens the    *)
(* store, updates it any number of times and may die at any moment.        *)
(***************************************************************************)
CONSTANTS
  Client,
  Root,         \* the roots clients write
  Specs,        \* the lists of tables they write with them
  EmptyHash,    \* hash.Hash{}
  NomsVersion,  \* NomsVersion[p]: constants.NomsVersion of p's build
  Absent        \* no manifest

VARIABLES
  manifest,  \* the persisted manifest: Absent or [vers, root, specs]
  client     \* client[p]: what p does and the root it knows (nbs.root)

vars == <<manifest, client>>

Down == [pc |-> "down"]
Open(k) == [pc |-> "open", known |-> k]
Updating(k, m) == [pc |-> "updating", known |-> k, new |-> m]

RootOf(m) == IF m = Absent THEN EmptyHash ELSE m.root

Init ==
  /\ manifest = Absent
  /\ client = [p \in Client |-> Down]

\* A step of p that returns to a client that then knows root k.
Knows(p, k) == client' = [client EXCEPT ![p] = Open(k)]

\* newNomsBlockStore: ParseIfExists.
ParseIfExists(p) ==
  /\ client[p] = Down
  /\ Knows(p, RootOf(manifest))
  /\ UNCHANGED manifest

\* Update is called.
Call(p, root, specs) ==
  /\ client[p].pc = "open"
  /\ client' = [client EXCEPT ![p] =
       Updating(client[p].known, [vers |-> NomsVersion[p], root |-> root, specs |-> specs])]
  /\ UNCHANGED manifest

\* p may replace manifest m.
Replaceable(p, m) ==
  m = Absent \/ (m.vers = NomsVersion[p] /\ m.root = client[p].known)

Succeed(p) ==
  /\ client[p].pc = "updating"
  /\ Replaceable(p, manifest)
  /\ manifest' = client[p].new
  /\ Knows(p, client[p].new.root)

\* Another root is there: Update returns it.
Fail(p) ==
  /\ client[p].pc = "updating"
  /\ manifest # Absent
  /\ manifest.vers = NomsVersion[p]
  /\ manifest.root # client[p].known
  /\ Knows(p, manifest.root)
  /\ UNCHANGED manifest

\* The client dies: a crash, or the panic of an Update that meets a manifest
\* of another Noms version.
Die(p) ==
  /\ client[p] # Down
  /\ client' = [client EXCEPT ![p] = Down]
  /\ UNCHANGED manifest

Next == \E p \in Client :
  \/ ParseIfExists(p)
  \/ \E root \in Root, specs \in Specs : Call(p, root, specs)
  \/ Succeed(p)
  \/ Fail(p)
  \/ Die(p)

Spec == Init /\ [][Next]_vars

----------------------------------------------------------------------------
=============================================================================
