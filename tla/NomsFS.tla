------------------------------- MODULE NomsFS -------------------------------
(***************************************************************************)
(* samples/go/nomsfs: a file system whose tree of inodes is the value of a *)
(* dataset.  An inode is a value and does not know its place, so the file  *)
(* system keeps nNodes, found by the inode's hash, that hold the name and  *)
(* the parent; a change is spliced back into the tree from there and       *)
(* committed.  Metadata operations hold mdLock; Read and Write of an open  *)
(* file hold only the node's lock and leave the node's inode ahead of its  *)
(* key until Flush.                                                        *)
(*                                                                         *)
(* The kernel (external) looks a path up before it creates, removes or     *)
(* renames: a path to create is free, others exist, a rename moves no      *)
(* directory into itself and replaces only what is of the same kind.  A    *)
(* hash is injective here, so the inode stands for its hash; times are     *)
(* distinct.  The dataset has no other writer (commit would panic).        *)
(***************************************************************************)
EXTENDS Integers, Sequences, SequencesExt, SeqFold

CONSTANTS
  FName,        \* names of files
  MaxDepth,     \* bound: components of a path
  MaxFSOps,     \* bound: operations in all
  MaxHandles    \* bound: open files

VARIABLES
  fs,       \* the nomsFS: head (the root inode), heap (nNodes by number), nodes (those in the map)
  handle,   \* the open files: a sequence of nNode numbers
  mdop,     \* the metadata operation that holds mdLock in mid-course
  wrop,     \* the Write that holds a node's lock in mid-course
  now,      \* the time, and a count of operations
  where,    \* reference: the inode (by ctime) that should be at each path, with its kind
  strayed   \* a Flush has spliced a node that is not at its place any more

fsvars == <<fs, handle, mdop, wrop, now, where, strayed>>

NoMdOp == [node |-> 0]
Paths == UNION {[1 .. n -> FName] : n \in 0 .. MaxDepth}

makeAttr(t) == [ctime |-> t, mtime |-> t]
updateMtime(attr, t) == [attr EXCEPT !.mtime = t]
Dir(attr) == [attr |-> attr, kind |-> "Directory", entries |-> <<>>, data |-> 0]
File(attr) == [attr |-> attr, kind |-> "File", entries |-> <<>>, data |-> 0]
Symlink(attr) == [attr |-> attr, kind |-> "Symlink", entries |-> <<>>, data |-> 0]

\* entries is a function of the names that are there.
SetEntry(dir, name, inode) ==
  [dir EXCEPT !.entries = [n \in DOMAIN @ \cup {name} |-> IF n = name THEN inode ELSE @[n]]]
RemoveEntry(dir, name) ==
  [dir EXCEPT !.entries = [n \in DOMAIN @ \ {name} |-> @[n]]]

----------------------------------------------------------------------------
\* The nodes map: its entry for a key.
At(s, key) == {i \in s.nodes : s.heap[i].key = key}

\* getNode: the node of this inode, made if the map has none.
getNode(s, inode, name, parent) ==
  LET found == At(s, inode)
      new == Len(s.heap) + 1
  IN  IF found # {} THEN [s |-> s, node |-> The(found)]
      ELSE [s |-> [s EXCEPT !.heap = Append(@, [parent |-> parent, name |-> name, key |-> inode, inode |-> inode]),
                            !.nodes = @ \cup {new}],
            node |-> new]

updateNode(s, i, inode) ==
  LET without == s.nodes \ (At(s, s.heap[i].key) \cup At(s, inode))
  IN  [s EXCEPT !.heap = [@ EXCEPT ![i].inode = inode, ![i].key = inode],
                !.nodes = without \cup {i}]

\* deleteNode deletes the hash of the inode, which may be ahead of the key.
deleteNode(s, i) == [s EXCEPT !.nodes = @ \ At(s, s.heap[i].inode)]

\* One iteration of splice: the node's inode becomes an entry of its parent.
spliceUp(s, i) ==
  LET p == s.heap[i].parent
  IN  updateNode(s, p, SetEntry(s.heap[p].inode, s.heap[i].name, s.heap[i].inode))

\* From node i up to the node stop (0: to the root).
RECURSIVE spliceTo(_, _, _)
spliceTo(s, i, stop) ==
  IF i = stop \/ s.heap[i].parent = 0 THEN [s |-> s, node |-> i]
  ELSE spliceTo(spliceUp(s, i), s.heap[i].parent, stop)

splice(s, i) ==
  LET up == spliceTo(s, i, 0) IN [up.s EXCEPT !.head = up.s.heap[up.node].inode]


splices(s, np1, np2, shared) ==
  splice(spliceTo(spliceTo(s, np1, shared).s, np2, shared).s, shared)

\* A step of getPathComponents: down one name, through getNode.
Descend(w, name) ==
  IF w.code # "OK" THEN w
  ELSE IF w.inode.kind # "Directory" THEN [w EXCEPT !.code = "ENOTDIR"]
  ELSE IF name \notin DOMAIN w.inode.entries THEN [w EXCEPT !.code = "ENOENT"]
  ELSE LET inode == w.inode.entries[name]
           got == getNode(w.s, inode, name, w.node)
       IN  [s |-> got.s, node |-> got.node, inode |-> inode, code |-> "OK"]

fromRoot(s) ==
  LET got == getNode(s, s.head, "", 0)
  IN  [s |-> got.s, node |-> got.node, inode |-> s.head, code |-> "OK"]

getPath(s, path) == Foldl(Descend, fromRoot(s), path)

\* getPaths: the old node and the new parent, through the part the paths share.
getPaths(s, old, newdir) ==
  LET same == {n \in 0 .. Len(newdir) : n < Len(old) /\ SubSeq(old, 1, n) = SubSeq(newdir, 1, n)}
      i == CHOOSE n \in same : \A m \in same : m <= n
      shared == getPath(s, SubSeq(old, 1, i))
      from == Foldl(Descend, shared, SubSeq(old, i + 1, Len(old)))
      to == Foldl(Descend, [shared EXCEPT !.s = from.s], SubSeq(newdir, i + 1, Len(newdir)))
  IN  [s |-> to.s, np |-> from.node, nparent |-> to.node, shared |-> shared.node]

----------------------------------------------------------------------------
FSInit ==
  /\ fs = [head |-> Dir(makeAttr(0)), heap |-> <<>>, nodes |-> {}]
  /\ handle = <<>>
  /\ mdop = NoMdOp /\ wrop = NoMdOp
  /\ now = 0
  /\ where = [p \in {<<>>} |-> [ctime |-> 0, kind |-> "Directory"]]
  /\ strayed = FALSE

Tick == now < MaxFSOps /\ now' = now + 1

Under(path, p) == Len(p) >= Len(path) /\ SubSeq(p, 1, Len(path)) = path
Exists(path) == path \in DOMAIN where

\* Create, Mkdir and Symlink: createCommon.
createCommon(path, inode) ==
  /\ mdop = NoMdOp /\ Tick
  /\ path # <<>> /\ ~Exists(path)
  /\ Exists(Front(path)) /\ where[Front(path)].kind = "Directory"
  /\ LET w == getPath(fs, Front(path))
         got == getNode(w.s, inode, Last(path), w.node)
     IN  /\ fs' = splice(got.s, got.node)
         /\ handle' = IF inode.kind = "File" /\ Len(handle) < MaxHandles THEN Append(handle, got.node) ELSE handle
         /\ where' = [p \in DOMAIN where \cup {path} |->
                        IF p = path THEN [ctime |-> now', kind |-> inode.kind] ELSE where[p]]
  /\ UNCHANGED <<mdop, wrop, strayed>>

OpenFile(path) ==
  /\ mdop = NoMdOp /\ Tick
  /\ Exists(path) /\ where[path].kind = "File" /\ Len(handle) < MaxHandles
  /\ LET w == getPath(fs, path) IN fs' = w.s /\ handle' = Append(handle, w.node)
  /\ UNCHANGED <<mdop, wrop, where, strayed>>

\* Unlink and Rmdir: removeCommon; neither looks whether a directory is empty.
removeCommon(path) ==
  /\ mdop = NoMdOp /\ Tick
  /\ path # <<>> /\ Exists(path)
  /\ LET w == getPath(fs, path)
         np == w.s.heap[w.node]
         s == deleteNode(w.s, w.node)
     IN  fs' = splice(updateNode(s, np.parent, RemoveEntry(s.heap[np.parent].inode, np.name)), np.parent)
  /\ where' = [p \in {q \in DOMAIN where : ~Under(path, q)} |-> where[p]]
  /\ UNCHANGED <<handle, mdop, wrop, strayed>>

Rename(old, new) ==
  /\ mdop = NoMdOp /\ Tick
  /\ old # <<>> /\ new # <<>> /\ Exists(old) /\ Exists(Front(new))
  /\ where[Front(new)].kind = "Directory"
  /\ ~Under(old, new) /\ ~Under(new, old)
  /\ Exists(new) => (where[new].kind = "Directory") = (where[old].kind = "Directory")
  /\ LET ps == getPaths(fs, old, Front(new))
         np == ps.s.heap[ps.np]
         oparent == np.parent
         cut == updateNode(ps.s, oparent, RemoveEntry(ps.s.heap[oparent].inode, np.name))
         moved == [cut EXCEPT !.heap = [@ EXCEPT ![ps.np].parent = ps.nparent, ![ps.np].name = Last(new)]]
     IN  fs' = splices(moved, oparent, ps.np, ps.shared)
  /\ LET kept == {q \in DOMAIN where : ~Under(old, q) /\ ~Under(new, q)}
         moving == {q \in DOMAIN where : Under(old, q)}
         target(q) == new \o SubSeq(q, Len(old) + 1, Len(q))
         landed == {target(q) : q \in moving}
     IN  /\ landed \subseteq Paths
         /\ where' = [p \in kept \cup landed |->
                        IF p \in landed THEN where[The({q \in moving : target(q) = p})] ELSE where[p]]
  /\ UNCHANGED <<handle, mdop, wrop, strayed>>

\* Truncate has the node's lock too.
Truncate(path) ==
  /\ mdop = NoMdOp /\ Tick
  /\ Exists(path) /\ where[path].kind = "File"
  /\ LET w == getPath(fs, path)
         inode == w.s.heap[w.node].inode
     IN  /\ wrop.node # w.node
         /\ fs' = splice(updateNode(w.s, w.node, [inode EXCEPT !.data = 0, !.attr = updateMtime(@, now')]), w.node)
  /\ UNCHANGED <<handle, mdop, wrop, where, strayed>>

\* setAttr, SetXAttr and RemoveXAttr read the inode under mdLock alone ...
setAttr(path) ==
  /\ mdop = NoMdOp /\ Tick
  /\ Exists(path)
  /\ LET w == getPath(fs, path)
     IN  fs' = w.s /\ mdop' = [node |-> w.node, inode |-> w.s.heap[w.node].inode]
  /\ UNCHANGED <<handle, wrop, where, strayed>>

\* ... and write it back with the new attribute.
setAttrDone ==
  /\ mdop # NoMdOp
  /\ fs' = splice(updateNode(fs, mdop.node, [mdop.inode EXCEPT !.attr = updateMtime(@, now)]), mdop.node)
  /\ mdop' = NoMdOp
  /\ UNCHANGED <<handle, wrop, now, where, strayed>>

\* nomsFile.Write reads the inode, writes the blob ...
Write(h) ==
  /\ wrop = NoMdOp /\ Tick
  /\ wrop' = [node |-> handle[h], inode |-> fs.heap[handle[h]].inode]
  /\ UNCHANGED <<fs, handle, mdop, where, strayed>>

\* ... and bufferNode changes the node's inode but not its key.
WriteDone ==
  /\ wrop # NoMdOp
  /\ fs' = [fs EXCEPT !.heap = [@ EXCEPT ![wrop.node].inode =
                                  [wrop.inode EXCEPT !.data = now, !.attr = updateMtime(@, now)]]]
  /\ wrop' = NoMdOp
  /\ UNCHANGED <<handle, mdop, now, where, strayed>>

RECURSIVE PlaceOf(_, _)
PlaceOf(s, i) == IF s.heap[i].parent = 0 THEN <<>> ELSE Append(PlaceOf(s, s.heap[i].parent), s.heap[i].name)
InPlace(i) ==
  LET p == PlaceOf(fs, i) IN Exists(p) /\ where[p].ctime = fs.heap[i].inode.attr.ctime

\* nomsFile.Flush: only a node that its key still leads to is spliced.
Flush(h) ==
  /\ mdop = NoMdOp /\ wrop.node # handle[h] /\ Tick
  /\ IF handle[h] \in At(fs, fs.heap[handle[h]].key)
     THEN /\ fs' = splice(updateNode(fs, handle[h], fs.heap[handle[h]].inode), handle[h])
          /\ strayed' = (strayed \/ ~InPlace(handle[h]))
     ELSE UNCHANGED <<fs, strayed>>
  /\ UNCHANGED <<handle, mdop, wrop, where>>

FSNext ==
  \/ \E p \in Paths :
        \/ createCommon(p, File(makeAttr(now')))
        \/ createCommon(p, Dir(makeAttr(now')))
        \/ createCommon(p, Symlink(makeAttr(now')))
        \/ OpenFile(p) \/ removeCommon(p) \/ Truncate(p) \/ setAttr(p)
        \/ \E q \in Paths : Rename(p, q)
  \/ setAttrDone \/ WriteDone
  \/ \E h \in 1 .. Len(handle) : Write(h) \/ Flush(h)

FSSpec == FSInit /\ [][FSNext]_fsvars

----------------------------------------------------------------------------
\* Paths of a tree with the inode that is there.
RECURSIVE TreeOf(_, _)
TreeOf(inode, path) ==
  {<<path, inode.attr.ctime, inode.kind>>}
  \cup UNION {TreeOf(inode.entries[n], Append(path, n)) : n \in DOMAIN inode.entries}


\* "This map lets us find the name of a file and its parent given an inode. This lets us
\* splice changes back into the hierarchy upon modification.": a flush goes to the
\* place of its file.
FlushInPlace == ~strayed
=============================================================================
