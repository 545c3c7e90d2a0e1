------------------------------ MODULE PlainFS ------------------------------
(***************************************************************************)
(* What the overlay promises to the editor: an ordinary mutable file       *)
(* system that starts as the repository.  Its one oddity is `late`: after  *)
(* a folder rename has failed, entries of that folder may still be put     *)
(* back to what the repository has, once each, at any later time.          *)
(***************************************************************************)
EXTENDS FileTree

CONSTANT Base   \* the tree of the repository

VARIABLES
  tree,   \* what is where
  late    \* entries that may still be put back to the repository's version

Init == tree = Base /\ late = {}

MakeFolder(p) ==
  /\ tree[p] = Absent
  /\ NoFileAbove(tree, p)
  /\ tree' = Mkdirp(tree, p)
  /\ UNCHANGED late

WriteFile(p, content) ==
  /\ NoFileAbove(tree, p)
  /\ tree[p] # Dir
  /\ tree' = Put(Mkdirp(tree, Dirname(p)), p, content)
  /\ UNCHANGED late

RemoveFile(p) ==
  /\ tree[p] \in Content
  /\ tree' = Delete(tree, p)
  /\ UNCHANGED late

\* Only an empty folder can be removed.
RemoveFolder(p) ==
  /\ tree[p] = Dir
  /\ Children(tree, p) = {}
  /\ tree' = Delete(tree, p)
  /\ UNCHANGED late

\* Everything beneath old moves along.  Nothing is overwritten, except a file
\* of the repository: one that was put back at new while a folder was copied.
Rename(old, new) ==
  /\ tree[old] # Absent
  /\ tree[new] = Absent \/ tree[new] \in {Base[new]} \intersect Content
  /\ old \notin Lineage[new]
  /\ NoFileAbove(tree, new)
  /\ tree' = Move(Mkdirp(tree, Dirname(new)), old, new)
  /\ UNCHANGED late

\* A failed rename moves nothing, but entries beneath old may come late.
AbandonRename(old) ==
  /\ tree[old] = Dir
  /\ late' \subseteq late \union {p \in Path : Within(old, p) /\ Base[p] # Absent}
  /\ UNCHANGED tree

PutBack(p) ==
  /\ NoFileAbove(tree, p)
  /\ IF Base[p] = Dir
       THEN tree' = Mkdirp(tree, p)
       ELSE tree[p] # Dir /\ tree' = Put(Mkdirp(tree, Dirname(p)), p, Base[p])
  /\ late' \subseteq late

Expire == late' \subseteq late /\ UNCHANGED tree

Next ==
  \/ \E p \in Path : MakeFolder(p) \/ RemoveFile(p) \/ RemoveFolder(p) \/ AbandonRename(p)
  \/ \E p \in Path, content \in Content : WriteFile(p, content)
  \/ \E old, new \in Path : Rename(old, new)
  \/ \E p \in late : PutBack(p)
  \/ Expire

Spec == Init /\ [][Next]_<<tree, late>>
=============================================================================
