------------------------ MODULE FileManifest_proofs ------------------------
(***************************************************************************)
(* Proofs about FileManifest, for any clients, roots, specs and versions.  *)
(***************************************************************************)
EXTENDS FileManifest, TLAPS

\* Every step keeps the types.
LEMMA TypeStep ==
  ASSUME IndInv, [Next]_vars
  PROVE  TypeOK'
<1> USE DEF IndInv, TypeOK, Goto, Return, Flock, Critical
<1>0. \A m \in Content \cup {Absent} : RootOf(m) \in Root \cup {EmptyHash}
  BY DEF RootOf, Content
<1>1. ASSUME NEW p \in Client, NEW r \in Root, NEW s \in Specs, WriteManifest(p, r, s)
      PROVE  TypeOK'
  <2>1. [vers |-> NomsVersion[p], root |-> r, specs |-> s] \in Content
    BY DEF Content
  <2>2. QED
    BY <1>1, <2>1 DEF WriteManifest
<1>2. ASSUME NEW p \in Client, ParseNoLockFile(p) \/ ParseOpenLockFile(p) \/ ParseFlock(p)
      PROVE  TypeOK'
  BY <1>2 DEF ParseNoLockFile, ParseOpenLockFile, ParseFlock, disk
<1>3. ASSUME NEW p \in Client, ParseOpen(p) PROVE TypeOK'
  BY <1>3 DEF ParseOpen
<1>4. ASSUME NEW p \in Client, ParseRead(p) PROVE TypeOK'
  BY <1>0, <1>4 DEF ParseRead, disk
<1>5. ASSUME NEW p \in Client,
             CreateLockFile(p) \/ UpdateFlock(p) \/ ReadCurrent(p) \/ Unlock(p)
      PROVE  TypeOK'
  BY <1>5 DEF CreateLockFile, UpdateFlock, ReadCurrent, Unlock, disk
<1>6. ASSUME NEW p \in Client, GiveUp(p) PROVE TypeOK'
  BY <1>0, <1>6 DEF GiveUp
<1>7. ASSUME NEW p \in Client, Rename(p) PROVE TypeOK'
  <2>1. temp[p] \in Content
    BY <1>7 DEF Rename, ProcessInv
  <2>2. temp[p].root \in Root
    BY <2>1 DEF Content
  <2>3. QED
    BY <1>7, <2>1, <2>2 DEF Rename
<1>8. ASSUME NEW p \in Client, Die(p) PROVE TypeOK'
  BY <1>8 DEF Die
<1>9. CASE UNCHANGED vars
  BY <1>9 DEF vars
<1>10. QED
  BY <1>1, <1>2, <1>3, <1>4, <1>5, <1>6, <1>7, <1>8, <1>9
  DEF Next, Proceed, GetFlock, ReadPanics, Crash

\* Every step keeps what the steps rely on.
LEMMA InvStep ==
  ASSUME IndInv, [Next]_vars, TypeOK'
  PROVE  LockFileFirst' /\ \A q \in Client : ProcessInv(q)'
<1> USE DEF IndInv, TypeOK, Goto, Return, Flock, Critical
<1> DEFINE Goal == LockFileFirst' /\ \A q \in Client : ProcessInv(q)'
<1>1. ASSUME NEW p \in Client, ParseNoLockFile(p) PROVE Goal
  BY <1>1 DEF ParseNoLockFile, disk, LockFileFirst, ProcessInv, RootOf
<1>2. ASSUME NEW p \in Client, ParseOpenLockFile(p) PROVE Goal
  BY <1>2 DEF ParseOpenLockFile, disk, LockFileFirst, ProcessInv, RootOf
<1>3. ASSUME NEW p \in Client, ParseFlock(p) \/ UpdateFlock(p) PROVE Goal
  <2>1. \A q \in Client : pc[q] \notin Critical
    BY <1>3, NoOneAssumption DEF ParseFlock, UpdateFlock, ProcessInv
  <2>2. ASSUME NEW q \in Client PROVE ProcessInv(q)'
    <3>1. CASE q = p
      BY <1>3, <3>1 DEF ParseFlock, UpdateFlock, ProcessInv, RootOf
    <3>2. CASE q # p
      BY <1>3, <2>1, <3>2 DEF ParseFlock, UpdateFlock, ProcessInv, RootOf
    <3>3. QED
      BY <3>1, <3>2
  <2>3. QED
    BY <1>3, <2>2 DEF ParseFlock, UpdateFlock, LockFileFirst
<1>4. ASSUME NEW p \in Client, ParseOpen(p) PROVE Goal
  BY <1>4 DEF ParseOpen, LockFileFirst, ProcessInv, RootOf
<1>5. ASSUME NEW p \in Client, ParseRead(p) PROVE Goal
  BY <1>5 DEF ParseRead, disk, LockFileFirst, ProcessInv, RootOf
<1>6. ASSUME NEW p \in Client, NEW r \in Root, NEW s \in Specs, WriteManifest(p, r, s)
      PROVE  Goal
  <2>1. temp'[p] # Absent /\ temp'[p].vers = NomsVersion[p]
    <3>1. [vers |-> NomsVersion[p], root |-> r, specs |-> s]
            \in [vers : {NomsVersion[q] : q \in Client}, root : Root, specs : Specs]
      OBVIOUS
    <3>2. temp'[p] = [vers |-> NomsVersion[p], root |-> r, specs |-> s]
      BY <1>6 DEF WriteManifest
    <3>3. QED
      BY <3>1, <3>2, AbsentAssumption
  <2>2. QED
    BY <1>6, <2>1 DEF WriteManifest, LockFileFirst, ProcessInv, RootOf
<1>7. ASSUME NEW p \in Client, CreateLockFile(p) PROVE Goal
  BY <1>7 DEF CreateLockFile, LockFileFirst, ProcessInv, RootOf
<1>8. ASSUME NEW p \in Client, ReadCurrent(p) PROVE Goal
  BY <1>8 DEF ReadCurrent, disk, LockFileFirst, ProcessInv, RootOf, Acceptable
<1>9. ASSUME NEW p \in Client, Rename(p) PROVE Goal
  <2>1. manifest' # Absent /\ lockFile'
    BY <1>9 DEF Rename, ProcessInv
  <2>2. ASSUME NEW q \in Client, q # p PROVE pc'[q] \notin Critical /\ pc'[q] = pc[q]
    BY <1>9, <2>2 DEF Rename, ProcessInv
  <2>3. QED
    BY <1>9, <2>1, <2>2 DEF Rename, LockFileFirst, ProcessInv
<1>10. ASSUME NEW p \in Client, GiveUp(p) \/ Unlock(p) PROVE Goal
  <2>1. ASSUME NEW q \in Client, q # p PROVE pc[q] \notin Critical
    BY <1>10, <2>1 DEF GiveUp, Unlock, ProcessInv
  <2>2. ASSUME NEW q \in Client PROVE ProcessInv(q)'
    <3>1. CASE q = p
      BY <1>10, <3>1 DEF GiveUp, Unlock, ProcessInv, RootOf
    <3>2. CASE q # p
      BY <1>10, <2>1, <3>2 DEF GiveUp, Unlock, ProcessInv, RootOf
    <3>3. QED
      BY <3>1, <3>2
  <2>3. QED
    BY <1>10, <2>2 DEF GiveUp, Unlock, LockFileFirst
<1>11. ASSUME NEW p \in Client, Die(p) PROVE Goal
  BY <1>11 DEF Die, LockFileFirst, ProcessInv, RootOf
<1>12. CASE UNCHANGED vars
  BY <1>12 DEF vars, LockFileFirst, ProcessInv, RootOf
<1>13. QED
  BY <1>1, <1>2, <1>3, <1>4, <1>5, <1>6, <1>7, <1>8, <1>9, <1>10, <1>11, <1>12
  DEF Next, Proceed, GetFlock, ReadPanics, Crash

\* The inductive invariant holds in every reachable state.
THEOREM Invariance == Spec => []IndInv
<1>1. Init => IndInv
  BY DEF Init, IndInv, TypeOK, LockFileFirst, ProcessInv, RootOf, Critical
<1>2. IndInv /\ [Next]_vars => IndInv'
  BY TypeStep, InvStep DEF IndInv
<1>3. QED
  BY <1>1, <1>2, PTL DEF Spec

\* Between Update's check of the manifest and its rename nobody else renames:
\* what was checked is still true.
THEOREM ChecksStayTrue == Spec => []CheckStillTrue
<1>1. IndInv => CheckStillTrue
  BY DEF IndInv, ProcessInv, CheckStillTrue, Critical
<1>2. QED
  BY <1>1, Invariance, PTL

----------------------------------------------------------------------------
\* A step of one process changes its part of the mapping only.
LEMMA AbsStep ==
  ASSUME NEW p \in Client, NEW x, Abs(p)' = x,
         \A q \in Client \ {p} : /\ pc'[q] = pc[q] /\ known'[q] = known[q]
                                  /\ seen'[q] = seen[q] /\ temp'[q] = temp[q]
  PROVE  [q \in Client |-> Abs(q)]' = [[q \in Client |-> Abs(q)] EXCEPT ![p] = x]
<1>1. ASSUME NEW q \in Client, q # p PROVE Abs(q)' = Abs(q)
  BY <1>1 DEF Abs, RootOf
<1>2. QED
  BY <1>1

\* Every system call is a step of the manifest interface or none.
LEMMA StepImplements ==
  ASSUME IndInv, NEW p \in Client,
         \/ ParseNoLockFile(p) \/ ParseOpenLockFile(p)
         \/ \E r \in Root, s \in Specs : WriteManifest(p, r, s)
         \/ GetFlock(p) \/ Proceed(p) \/ Crash(p)
  PROVE  [M!Next]_(M!vars)
<1> USE DEF Goto, Return, Flock
<1>0. TypeOK /\ LockFileFirst /\ ProcessInv(p)
  BY DEF IndInv
<1> DEFINE cl == [q \in Client |-> Abs(q)]
<1> SUFFICES M!Next \/ (manifest' = manifest /\ cl' = cl)
  BY DEF M!vars
<1>1. CASE ParseNoLockFile(p)
  <2>1. Abs(p) = [pc |-> "down"] /\ Abs(p)' = [pc |-> "open", known |-> RootOf(manifest)]
    BY <1>0, <1>1 DEF TypeOK, Critical, ParseNoLockFile, disk, Abs, LockFileFirst, RootOf
  <2>2. cl' = [cl EXCEPT ![p] = [pc |-> "open", known |-> RootOf(manifest)]]
    BY <1>0, <1>1, <2>1, AbsStep DEF TypeOK, Critical, ParseNoLockFile, disk
  <2>3. M!ParseIfExists(p)
    BY <1>1, <2>1, <2>2 DEF ParseNoLockFile, disk, M!ParseIfExists, M!Knows, M!Open, M!Down,
                            RootOf, M!RootOf
  <2>4. QED
    BY <2>3 DEF M!Next
<1>2. CASE ParseOpen(p)
  <2>1. Abs(p) = [pc |-> "down"] /\ Abs(p)' = [pc |-> "open", known |-> RootOf(manifest)]
    BY <1>0, <1>2 DEF TypeOK, Critical, ParseOpen, Abs, RootOf
  <2>2. cl' = [cl EXCEPT ![p] = [pc |-> "open", known |-> RootOf(manifest)]]
    BY <1>0, <1>2, <2>1, AbsStep DEF TypeOK, Critical, ParseOpen
  <2>3. M!ParseIfExists(p)
    BY <1>2, <2>1, <2>2 DEF ParseOpen, M!ParseIfExists, M!Knows, M!Open, M!Down,
                            RootOf, M!RootOf
  <2>4. QED
    BY <2>3 DEF M!Next
<1>3. ASSUME NEW r \in Root, NEW s \in Specs, WriteManifest(p, r, s) PROVE M!Next
  <2> DEFINE new == [vers |-> NomsVersion[p], root |-> r, specs |-> s]
  <2>1. /\ Abs(p) = [pc |-> "open", known |-> known[p]]
        /\ Abs(p)' = [pc |-> "updating", known |-> known[p], new |-> new]
    BY <1>0, <1>3 DEF TypeOK, Critical, WriteManifest, Abs
  <2>2. cl' = [cl EXCEPT ![p] = [pc |-> "updating", known |-> known[p], new |-> new]]
    BY <1>0, <1>3, <2>1, AbsStep DEF TypeOK, Critical, WriteManifest
  <2>3. cl[p].pc = "open" /\ cl[p].known = known[p]
    BY <2>1
  <2>4. manifest' = manifest
    BY <1>3 DEF WriteManifest
  <2>5. M!Call(p, r, s)
    BY <2>2, <2>3, <2>4 DEF M!Call, M!Updating
  <2>6. QED
    BY <2>5 DEF M!Next
<1>4. CASE ReadCurrent(p) /\ RootOf(manifest) # known[p]
  <2>1. /\ Abs(p) = [pc |-> "updating", known |-> known[p], new |-> temp[p]]
        /\ Abs(p)' = [pc |-> "open", known |-> RootOf(manifest)]
    BY <1>0, <1>4 DEF TypeOK, Critical, ReadCurrent, Abs, RootOf
  <2>2. cl' = [cl EXCEPT ![p] = [pc |-> "open", known |-> RootOf(manifest)]]
    BY <1>0, <1>4, <2>1, AbsStep DEF TypeOK, Critical, ReadCurrent, disk
  <2>3. cl[p].pc = "updating" /\ cl[p].known = known[p]
    BY <2>1
  <2>4. manifest' = manifest /\ manifest # Absent /\ manifest.vers = NomsVersion[p]
    BY <1>0, <1>4 DEF TypeOK, Critical, ReadCurrent, disk, Acceptable, RootOf
  <2>5. M!Fail(p)
    BY <1>4, <2>2, <2>3, <2>4 DEF M!Fail, M!Knows, M!Open, RootOf
  <2>6. QED
    BY <2>5 DEF M!Next
<1>5. CASE Rename(p)
  <2>1. /\ Abs(p) = [pc |-> "updating", known |-> known[p], new |-> temp[p]]
        /\ Abs(p)' = [pc |-> "open", known |-> temp[p].root]
    BY <1>0, <1>5 DEF TypeOK, Critical, Rename, Abs
  <2>2. cl' = [cl EXCEPT ![p] = [pc |-> "open", known |-> temp[p].root]]
    BY <1>0, <1>5, <2>1, AbsStep DEF TypeOK, Critical, Rename
  <2>3. manifest = Absent \/ (manifest.vers = NomsVersion[p] /\ manifest.root = known[p])
    BY <1>0, <1>5 DEF TypeOK, Critical, Rename, ProcessInv, RootOf
  <2>4. cl[p].pc = "updating" /\ cl[p].known = known[p] /\ cl[p].new = temp[p]
    BY <2>1
  <2>5. manifest' = temp[p]
    BY <1>5 DEF Rename
  <2>6. M!Succeed(p)
    BY <2>2, <2>3, <2>4, <2>5 DEF M!Succeed, M!Replaceable, M!Knows, M!Open
  <2>7. QED
    BY <2>6 DEF M!Next
<1>6. CASE Die(p)
  <2>1. Abs(p)' = [pc |-> "down"]
    BY <1>0, <1>6 DEF TypeOK, Critical, Die, Abs
  <2>2. cl' = [cl EXCEPT ![p] = [pc |-> "down"]]
    BY <1>0, <1>6, <2>1, AbsStep DEF TypeOK, Critical, Die
  <2>3. CASE Abs(p) = [pc |-> "down"]
    BY <1>6, <2>2, <2>3 DEF Die
  <2>4. CASE Abs(p) # [pc |-> "down"]
    <3>1. M!Die(p)
      BY <1>6, <2>2, <2>4 DEF Die, M!Die, M!Down
    <3>2. QED
      BY <3>1 DEF M!Next
  <2>5. QED
    BY <2>3, <2>4
<1>7. CASE \/ ParseOpenLockFile(p) \/ GetFlock(p) \/ ParseRead(p) \/ CreateLockFile(p)
           \/ GiveUp(p) \/ Unlock(p)
           \/ (ReadCurrent(p) /\ RootOf(manifest) = known[p])
  <2>1. Abs(p)' = Abs(p) /\ manifest' = manifest
    BY <1>0, <1>7
    DEF TypeOK, Critical, ParseOpenLockFile, GetFlock, ParseFlock, UpdateFlock, ParseRead,
        CreateLockFile, GiveUp, Unlock, ReadCurrent, disk, Abs, RootOf
  <2>2. cl' = [cl EXCEPT ![p] = Abs(p)]
    BY <1>0, <1>7, <2>1, AbsStep
    DEF TypeOK, Critical, ParseOpenLockFile, GetFlock, ParseFlock, UpdateFlock, ParseRead,
        CreateLockFile, GiveUp, Unlock, ReadCurrent, disk
  <2>3. QED
    BY <2>1, <2>2
<1>8. QED
  BY <1>1, <1>2, <1>3, <1>4, <1>5, <1>6, <1>7 DEF Proceed, ReadPanics, Crash

\* The file manifest implements the manifest interface: flock, temporary file
\* and rename amount to one atomic compare-and-swap, processes dying anywhere.
THEOREM Implements == Spec => ImplementsManifest
<1>1. Init => M!Init
  BY DEF Init, M!Init, M!Down, Abs
<1>2. IndInv /\ [Next]_vars => [M!Next]_(M!vars)
  <2> SUFFICES ASSUME IndInv, [Next]_vars PROVE [M!Next]_(M!vars)
    OBVIOUS
  <2>1. CASE Next
    BY <2>1, StepImplements DEF Next
  <2>2. CASE UNCHANGED vars
    BY <2>2 DEF vars, M!vars, Abs, RootOf
  <2>3. QED
    BY <2>1, <2>2
<1>3. QED
  BY <1>1, <1>2, Invariance, PTL DEF Spec, M!Spec, ImplementsManifest
=============================================================================
