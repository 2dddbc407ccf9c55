---------------------------- MODULE FileManifest ----------------------------
(***************************************************************************)
(* The fileManifest of go/nbs/file_manifest.go, system call by system      *)
(* call: the LOCK file and the flock on it, the temporary file an Update   *)
(* renames over the manifest, and a ParseIfExists that reads the file it   *)
(* opened after it released the lock.  A process may die between any two   *)
(* calls; the kernel then drops its flock.                                 *)
(***************************************************************************)
CONSTANTS Client, Root, Specs, EmptyHash, NomsVersion, Absent,
  NoOne   \* nobody holds the flock

ASSUME NoOneAssumption == NoOne \notin Client
ASSUME AbsentAssumption ==
  Absent \notin [vers : {NomsVersion[p] : p \in Client}, root : Root, specs : Specs]

VARIABLES
  manifest,  \* the contents of the file named "manifest", or Absent
  lockFile,  \* the LOCK file exists
  holder,    \* who holds the flock on it
  temp,      \* temp[p]: the contents of p's nbs_manifest_ file, or Absent
  pc,        \* pc[p]: p's next system call
  known,     \* known[p]: nbs.root
  seen       \* seen[p]: the manifest p has opened or parsed

vars == <<manifest, lockFile, holder, temp, pc, known, seen>>
disk == <<manifest, lockFile, holder, temp>>

RootOf(m) == IF m = Absent THEN EmptyHash ELSE m.root

Init ==
  /\ manifest = Absent
  /\ lockFile = FALSE
  /\ holder = NoOne
  /\ temp = [p \in Client |-> Absent]
  /\ pc = [p \in Client |-> "down"]
  /\ known = [p \in Client |-> EmptyHash]
  /\ seen = [p \in Client |-> Absent]

Goto(p, l) == pc' = [pc EXCEPT ![p] = l]

\* p returns to its caller, who knows root k from now on.
Return(p, k) ==
  /\ Goto(p, "open")
  /\ known' = [known EXCEPT ![p] = k]
  /\ seen' = [seen EXCEPT ![p] = Absent]

\* flock(LOCK_EX): p gets the lock when nobody has it.
Flock(p) == holder = NoOne /\ holder' = p

----------------------------------------------------------------------------
\* ParseIfExists finds no LOCK file: the store is uninitialised.
ParseNoLockFile(p) ==
  /\ pc[p] = "down"
  /\ ~lockFile
  /\ Return(p, EmptyHash)
  /\ UNCHANGED disk

ParseOpenLockFile(p) ==
  /\ pc[p] = "down"
  /\ lockFile
  /\ Goto(p, "parse flock")
  /\ UNCHANGED <<disk, known, seen>>

ParseFlock(p) ==
  /\ pc[p] = "parse flock"
  /\ Flock(p)
  /\ Goto(p, "parse open")
  /\ UNCHANGED <<manifest, lockFile, temp, known, seen>>

\* The manifest is opened under the lock, which is then released.
ParseOpen(p) ==
  /\ pc[p] = "parse open"
  /\ holder' = NoOne
  /\ seen' = [seen EXCEPT ![p] = manifest]
  /\ Goto(p, "parse read")
  /\ UNCHANGED <<manifest, lockFile, temp, known>>

\* parseManifest of the open file, whatever the name stands for by now.
ParseRead(p) ==
  /\ pc[p] = "parse read"
  /\ Return(p, RootOf(seen[p]))
  /\ UNCHANGED disk

----------------------------------------------------------------------------
\* Update writes and closes its temporary file.
WriteManifest(p, root, specs) ==
  /\ pc[p] = "open"
  /\ temp' = [temp EXCEPT ![p] = [vers |-> NomsVersion[p], root |-> root, specs |-> specs]]
  /\ Goto(p, "create lock")
  /\ UNCHANGED <<manifest, lockFile, holder, known, seen>>

\* flock: os.Create of the LOCK file, then flock(2).
CreateLockFile(p) ==
  /\ pc[p] = "create lock"
  /\ lockFile' = TRUE
  /\ Goto(p, "flock")
  /\ UNCHANGED <<manifest, holder, temp, known, seen>>

\* Mutant: Update does not wait for the lock.
UpdateNoFlock(p) ==
  /\ pc[p] = "flock"
  /\ holder' = p
  /\ Goto(p, "read")
  /\ UNCHANGED <<manifest, lockFile, temp, known, seen>>

UpdateFlock(p) ==
  /\ pc[p] = "flock"
  /\ Flock(p)
  /\ Goto(p, "read")
  /\ UNCHANGED <<manifest, lockFile, temp, known, seen>>

\* Update's assertions on what it finds.
Acceptable(p) ==
  IF manifest = Absent THEN known[p] = EmptyHash ELSE manifest.vers = NomsVersion[p]

ReadCurrent(p) ==
  /\ pc[p] = "read"
  /\ Acceptable(p)
  /\ seen' = [seen EXCEPT ![p] = manifest]
  /\ Goto(p, IF RootOf(manifest) = known[p] THEN "rename" ELSE "give up")
  /\ UNCHANGED <<disk, known>>

\* The rename; Update is going to return newRoot.
Rename(p) ==
  /\ pc[p] = "rename"
  /\ manifest' = temp[p]
  /\ temp' = [temp EXCEPT ![p] = Absent]
  /\ known' = [known EXCEPT ![p] = temp[p].root]
  /\ Goto(p, "unlock")
  /\ UNCHANGED <<lockFile, holder, seen>>

\* Mutant: the early return keeps the LOCK file open.
GiveUpLocked(p) ==
  /\ pc[p] = "give up"
  /\ temp' = [temp EXCEPT ![p] = Absent]
  /\ Return(p, RootOf(seen[p]))
  /\ UNCHANGED <<manifest, lockFile, holder>>

\* root != actual, and the deferred calls: close LOCK, remove the temporary.
GiveUp(p) ==
  /\ pc[p] = "give up"
  /\ holder' = NoOne
  /\ temp' = [temp EXCEPT ![p] = Absent]
  /\ Return(p, RootOf(seen[p]))
  /\ UNCHANGED <<manifest, lockFile>>

Unlock(p) ==
  /\ pc[p] = "unlock"
  /\ holder' = NoOne
  /\ Return(p, known[p])
  /\ UNCHANGED <<manifest, lockFile, temp>>

----------------------------------------------------------------------------
\* p is gone.  A temporary file it leaves behind is never looked at.
Die(p) ==
  /\ holder' = IF holder = p THEN NoOne ELSE holder
  /\ temp' = [temp EXCEPT ![p] = Absent]
  /\ Goto(p, "down")
  /\ known' = [known EXCEPT ![p] = EmptyHash]
  /\ seen' = [seen EXCEPT ![p] = Absent]
  /\ UNCHANGED <<manifest, lockFile>>

\* Update panics on a manifest of another Noms version, or on none where the
\* caller knows a root.
ReadPanics(p) == pc[p] = "read" /\ ~Acceptable(p) /\ Die(p)

Crash(p) == pc[p] # "down" /\ Die(p)

\* What p does by itself once it has called ParseIfExists or Update.
Proceed(p) ==
  \/ ParseOpen(p) \/ ParseRead(p)
  \/ CreateLockFile(p) \/ ReadCurrent(p) \/ ReadPanics(p)
  \/ Rename(p) \/ GiveUp(p) \/ Unlock(p)

GetFlock(p) == ParseFlock(p) \/ UpdateFlock(p)

Next == \E p \in Client :
  \/ ParseNoLockFile(p)
  \/ ParseOpenLockFile(p)
  \/ \E root \in Root, specs \in Specs : WriteManifest(p, root, specs)
  \/ GetFlock(p)
  \/ Proceed(p)
  \/ Crash(p)

Spec == Init /\ [][Next]_vars

\* A process keeps running, and the kernel queues those who wait for a flock.
Fairness == \A p \in Client : WF_vars(Proceed(p)) /\ SF_vars(GetFlock(p))

FairSpec == Spec /\ Fairness

----------------------------------------------------------------------------
Content == [vers : {NomsVersion[p] : p \in Client}, root : Root, specs : Specs]
Critical == {"parse open", "read", "rename", "give up", "unlock"}

TypeOK ==
  /\ manifest \in Content \cup {Absent}
  /\ lockFile \in BOOLEAN
  /\ holder \in Client \cup {NoOne}
  /\ temp \in [Client -> Content \cup {Absent}]
  /\ pc \in [Client -> Critical \cup {"down", "open", "parse flock", "parse read",
                                     "create lock", "flock"}]
  /\ known \in [Client -> Root \cup {EmptyHash}]
  /\ seen \in [Client -> Content \cup {Absent}]

\* The check is still true when it is acted on: from the read of the current
\* manifest to the rename over it, no other process gets in between, dies or
\* not, and the temporary file is the one to be renamed.
CheckStillTrue ==
  \A p \in Client : pc[p] = "rename" =>
    holder = p /\ seen[p] = manifest /\ RootOf(manifest) = known[p] /\ temp[p] # Absent

\* !exists(LOCK) => uninitialised store (ParseIfExists): where there is no LOCK
\* file there is no manifest, so skipping the lock misses nothing.
LockFileFirst == manifest # Absent => lockFile

\* ParseIfExists and Update return, or their process dies: nobody keeps the
\* flock.
CallsReturn == \A p \in Client :
  pc[p] \notin {"down", "open"} ~> pc[p] \in {"down", "open"}

\* What the steps of a process rely on: it holds the flock between taking and
\* closing it, its temporary file is its own, and it knows a root other than the
\* empty one only if there is a manifest.
ProcessInv(p) ==
  /\ pc[p] \in Critical => holder = p
  /\ pc[p] \in {"create lock", "flock", "read", "rename", "give up"} =>
       temp[p] # Absent /\ temp[p].vers = NomsVersion[p]
  /\ pc[p] \in {"flock", "read", "rename", "give up", "unlock"} => lockFile
  /\ pc[p] = "rename" =>
       /\ seen[p] = manifest
       /\ RootOf(manifest) = known[p]
       /\ manifest # Absent => manifest.vers = NomsVersion[p]
  /\ known[p] # EmptyHash => manifest # Absent
  /\ RootOf(seen[p]) # EmptyHash => manifest # Absent

IndInv ==
  /\ TypeOK
  /\ LockFileFirst
  /\ \A p \in Client : ProcessInv(p)

\* The client as the manifest interface sees it.  ParseIfExists takes effect
\* when it opens the manifest, Update when it renames or decides not to.
Abs(p) ==
  CASE pc[p] \in {"down", "parse flock", "parse open"} -> [pc |-> "down"]
    [] pc[p] \in {"parse read", "give up"} -> [pc |-> "open", known |-> RootOf(seen[p])]
    [] pc[p] \in {"open", "unlock"} -> [pc |-> "open", known |-> known[p]]
    [] OTHER -> [pc |-> "updating", known |-> known[p], new |-> temp[p]]

M == INSTANCE Manifest WITH client <- [p \in Client |-> Abs(p)]

\* File locks, temporary files and renames implement the interface: "concurrent
\* Update calls (and ParseIfExists calls) are correct" (manifest.go), also when
\* processes die inside them.
ImplementsManifest == M!Spec

=============================================================================
