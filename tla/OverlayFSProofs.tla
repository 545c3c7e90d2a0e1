-------------------------- MODULE OverlayFSProofs --------------------------
(***************************************************************************)
(* Whoever calls the overlay file system, in whatever order, whatever      *)
(* fetch fails and however many copies outlive their rename: the writable  *)
(* file system stays a tree, and what was deleted stays hidden.            *)
(***************************************************************************)
EXTENDS OverlayFS, FileTreeLemmas

\* A copy is always of something the repository has.
CopiesAreOfBase == \A t \in tasks \union strays : Base[t.path] # Absent

Invariant == TypeOK /\ CopiesAreOfBase /\ WritableIsTree

LEMMA InvariantHoldsInitially == Init => Invariant
  BY DEF Init, Invariant, TypeOK, CopiesAreOfBase, WritableIsTree, IsTree, EmptyTree, Tree,
         Node, Task

\* What stat finds is a node, and never "nothing" where writable has
\* something.
LEMMA StatNode ==
  ASSUME NEW w \in Tree, NEW p \in Path
  PROVE  /\ Stat(w, p) \in Node
         /\ w[p] # Absent => Stat(w, p) = w[p]
         /\ w[p] = Absent => Stat(w, p) \in {Base[p], Absent}
         /\ InReadable(p) => Base[p] # Absent
  BY BaseAssumption DEF Stat, InReadable, Tree, Node

\* The folder of a path is a place mkdirp can be asked to make.
LEMMA DirnameIsPlace ==
  ASSUME NEW p \in Path
  PROVE  Dirname(p) \in Path \union {Root}
  BY PathFacts

\* One step of a copy, whichever set its task is in.
LEMMA TaskStepKeeps ==
  ASSUME Invariant, NEW todo, NEW todoNext, NEW t \in todo,
         todo \subseteq Task, \A s \in todo : Base[s.path] # Absent,
         TaskStep(t, todo, todoNext)
  PROVE  /\ writable' \in Tree /\ IsTree(writable')
         /\ todoNext \subseteq Task
         /\ \A s \in todoNext : Base[s.path] # Absent
  <1>1. writable \in Tree /\ IsTree(writable)
    BY DEF Invariant, TypeOK, WritableIsTree
  <1>2. t \in Task /\ t.path \in Path /\ Base[t.path] \in Node \ {Absent}
    BY BaseAssumption DEF Task, Tree
  <1>3. /\ ChildTasks(t.path) \subseteq Task
        /\ \A s \in ChildTasks(t.path) : Base[s.path] # Absent
    BY DEF ChildTasks, Children, Task
  <1>4. CASE VisitDeleted(t, todo, todoNext)
    BY <1>1, <1>4 DEF VisitDeleted
  <1>5. CASE VisitMissing(t, todo, todoNext)
    <2>1. /\ [t EXCEPT !.stage = "copy"] \in Task
          /\ [t EXCEPT !.stage = "copy"].path = t.path
      BY <1>2 DEF Task
    <2> QED
      BY <1>1, <1>5, <2>1 DEF VisitMissing
  <1>6. CASE VisitPresentDir(t, todo, todoNext)
    BY <1>1, <1>3, <1>6 DEF VisitPresentDir
  <1>7. CASE CopyDir(t, todo, todoNext)
    <2>1. writable' \in Tree /\ IsTree(writable')
      BY <1>1, <1>2, <1>7, MkdirpNodes, MkdirpKeepsTree DEF CopyDir
    <2> QED
      BY <1>3, <1>7, <2>1 DEF CopyDir
  <1>8. CASE CopyFile(t, todo, todoNext)
    <2> DEFINE prepared == Mkdirp(writable, Dirname(t.path))
    <2>1. prepared \in Tree /\ IsTree(prepared)
      BY <1>1, <1>2, <1>8, DirnameIsPlace, MkdirpNodes, MkdirpKeepsTree DEF CopyFile
    <2>2. Base[t.path] \in Content
      BY <1>2, <1>8 DEF CopyFile, Node
    <2>3. /\ CanPut(prepared, t.path)
          /\ writable' = Put(prepared, t.path, Base[t.path])
          /\ todoNext = todo \ {t}
      BY <1>8 DEF CopyFile
    <2> QED
      BY <1>2, <2>1, <2>2, <2>3, PutKeepsTree
  <1> QED
    BY <1>4, <1>5, <1>6, <1>7, <1>8 DEF TaskStep

\* The invariant survives every call, every copy step and every failure.
LEMMA InvariantIsKept == Invariant /\ [Next]_vars => Invariant'
  <1> SUFFICES ASSUME Invariant, [Next]_vars
               PROVE  Invariant'
    OBVIOUS
  <1> USE DEF log, copying
  <1>1. /\ writable \in Tree /\ IsTree(writable)
        /\ deletedFiles \subseteq Path
        /\ deletedDirs \subseteq Path
        /\ renaming \in [from : Path, to : Path] \union {NoRename}
        /\ tasks \subseteq Task /\ strays \subseteq Task
        /\ \A t \in tasks : Base[t.path] # Absent
        /\ \A t \in strays : Base[t.path] # Absent
    BY DEF Invariant, TypeOK, CopiesAreOfBase, WritableIsTree
  \* What a step has to establish, conjunct by conjunct.
  <1>2. ASSUME /\ writable' \in Tree /\ IsTree(writable')
               /\ deletedFiles' \subseteq Path
               /\ deletedDirs' \subseteq Path
               /\ renaming' \in [from : Path, to : Path] \union {NoRename}
               /\ tasks' \subseteq Task /\ strays' \subseteq Task
               /\ \A t \in tasks' : Base[t.path] # Absent
               /\ \A t \in strays' : Base[t.path] # Absent
        PROVE  Invariant'
    BY <1>2 DEF Invariant, TypeOK, CopiesAreOfBase, WritableIsTree
  <1>3. CASE UNCHANGED vars
    BY <1>1, <1>2, <1>3 DEF vars
  <1>4. ASSUME NEW p \in Path, Mkdir(p)
        PROVE  Invariant'
    <2>1. writable' \in Tree /\ IsTree(writable')
      BY <1>1, <1>4, MkdirpNodes, MkdirpKeepsTree DEF Mkdir
    <2> QED
      BY <1>1, <1>2, <1>4, <2>1 DEF Mkdir
  <1>5. ASSUME NEW p \in Path, NEW content \in Content, WriteFile(p, content)
        PROVE  Invariant'
    <2> DEFINE prepared == Mkdirp(writable, Dirname(p))
    <2>1. prepared \in Tree /\ IsTree(prepared)
      BY <1>1, <1>5, DirnameIsPlace, MkdirpNodes, MkdirpKeepsTree DEF WriteFile
    <2>2. CanPut(prepared, p) /\ writable' = Put(prepared, p, content)
      BY <1>5 DEF WriteFile
    <2>3. writable' \in Tree /\ IsTree(writable')
      BY <2>1, <2>2, PutKeepsTree
    <2> QED
      BY <1>1, <1>2, <1>5, <2>3 DEF WriteFile
  <1>6. ASSUME NEW p \in Path, Unlink(p)
        PROVE  Invariant'
    <2>1. writable' \in Tree /\ IsTree(writable')
      BY <1>1, <1>6, DeleteKeepsTree DEF Unlink
    <2>2. deletedFiles' \subseteq Path
      BY <1>1, <1>6 DEF Unlink
    <2> QED
      BY <1>1, <1>2, <1>6, <2>1, <2>2 DEF Unlink
  <1>7. ASSUME NEW p \in Path, Rmdir(p)
        PROVE  Invariant'
    <2>1. writable' \in Tree /\ IsTree(writable')
      BY <1>1, <1>7, DeleteKeepsTree, NodeAssumption DEF Rmdir
    <2>2. deletedDirs' \subseteq Path
      BY <1>1, <1>7 DEF Rmdir
    <2> QED
      BY <1>1, <1>2, <1>7, <2>1, <2>2 DEF Rmdir
  <1>8. ASSUME NEW old \in Path, NEW new \in Path, Rename(old, new)
        PROVE  Invariant'
    <2>1. MayRename(old, new)
      BY <1>8 DEF Rename, RenameFile, RenameNewDir, RenameFails, StartRenameDir
    <2>2. Prepared(new) \in Tree /\ IsTree(Prepared(new))
      BY <1>1, <2>1, DirnameIsPlace, MkdirpNodes, MkdirpKeepsTree DEF MayRename, Prepared
    <2>3. CASE RenameFile(old, new)
      <3>1. CASE writable[old] # Absent
        <4>1. CanMove(Prepared(new), old, new) /\ writable' = Move(Prepared(new), old, new)
          BY <2>3, <3>1 DEF RenameFile
        <4> QED
          BY <4>1, <2>2, <2>3, <1>1, <1>2, MoveKeepsTree DEF RenameFile
      <3>2. CASE writable[old] = Absent
        <4>1. /\ CanPut(Prepared(new), new)
              /\ writable' = Put(Prepared(new), new, Base[old])
              /\ Stat(Prepared(new), old) \in Content
          BY <2>3, <3>2 DEF RenameFile
        <4>2. Prepared(new)[old] \in {Absent, Dir}
          BY <1>1, <3>2, DirnameIsPlace, MkdirpNodes DEF Prepared
        <4>3. Base[old] \in Content
          BY <4>1, <4>2, <2>2, StatNode, NodeAssumption
        <4>4. writable' \in Tree /\ IsTree(writable')
          BY <4>1, <4>3, <2>2, PutKeepsTree
        <4> QED
          BY <4>4, <2>3, <1>1, <1>2 DEF RenameFile
      <3> QED
        BY <3>1, <3>2
    <2>4. CASE RenameNewDir(old, new)
      <3>1. writable' \in Tree /\ IsTree(writable')
        BY <2>2, <2>4, MoveKeepsTree DEF RenameNewDir
      <3> QED
        BY <3>1, <2>4, <1>1, <1>2 DEF RenameNewDir
    <2>5. CASE RenameFails(old, new)
      BY <2>2, <2>5, <1>1, <1>2 DEF RenameFails
    <2>6. CASE StartRenameDir(old, new)
      <3>1. renaming' \in [from : Path, to : Path] \union {NoRename}
        BY <2>6 DEF StartRenameDir
      <3>2. tasks' \subseteq Task /\ \A t \in tasks' : Base[t.path] # Absent
        BY <2>6 DEF StartRenameDir, InReadable, Task
      <3> QED
        BY <3>1, <3>2, <2>2, <2>6, <1>1, <1>2 DEF StartRenameDir
    <2> QED
      BY <1>8, <2>3, <2>4, <2>5, <2>6 DEF Rename
  <1>9. CASE FinishRenameDir
    <2>1. renaming.from \in Path /\ renaming.to \in Path
      BY <1>1, <1>9 DEF FinishRenameDir
    <2>2. writable' \in Tree /\ IsTree(writable') /\ deletedDirs' \subseteq Path
      BY <1>1, <1>9, <2>1, MoveKeepsTree DEF FinishRenameDir
    <2> QED
      BY <2>2, <1>1, <1>2, <1>9 DEF FinishRenameDir
  <1>10. ASSUME NEW t \in tasks, RunTask(t)
         PROVE  Invariant'
    <2>1. TaskStep(t, tasks, tasks')
      BY <1>10 DEF RunTask
    <2>2. /\ writable' \in Tree /\ IsTree(writable')
          /\ tasks' \subseteq Task
          /\ \A s \in tasks' : Base[s.path] # Absent
      BY <2>1, <1>1, TaskStepKeeps
    <2> QED
      BY <2>2, <1>1, <1>2, <1>10 DEF RunTask
  <1>11. ASSUME NEW t \in tasks, FailRenameDir(t)
         PROVE  Invariant'
    BY <1>1, <1>2, <1>11 DEF FailRenameDir
  <1>12. ASSUME NEW t \in strays, RunStray(t)
         PROVE  Invariant'
    <2>1. TaskStep(t, strays, strays')
      BY <1>12 DEF RunStray
    <2>2. /\ writable' \in Tree /\ IsTree(writable')
          /\ strays' \subseteq Task
          /\ \A s \in strays' : Base[s.path] # Absent
      BY <2>1, <1>1, TaskStepKeeps
    <2> QED
      BY <2>2, <1>1, <1>2, <1>12 DEF RunStray
  <1>13. ASSUME NEW t \in strays, DropStray(t)
         PROVE  Invariant'
    BY <1>1, <1>2, <1>13 DEF DropStray
  <1> QED
    BY <1>3, <1>4, <1>5, <1>6, <1>7, <1>8, <1>9, <1>10, <1>11, <1>12, <1>13
       DEF Next, Call, Background

LEMMA InvariantHolds == Spec => []Invariant
  BY InvariantHoldsInitially, InvariantIsKept, PTL DEF Spec

\* Every variable of the overlay file system keeps its type.
THEOREM TypeCorrect == Spec => []TypeOK
  <1>1. Invariant => TypeOK
    BY DEF Invariant
  <1> QED
    BY <1>1, InvariantHolds, PTL

\* No call, copy or failure ever leaves an entry of writable without the
\* folder it is in, although renames move whole folders and copies run on
\* behind later calls.
THEOREM WritableStaysTree == Spec => []WritableIsTree
  <1>1. Invariant => WritableIsTree
    BY DEF Invariant
  <1> QED
    BY <1>1, InvariantHolds, PTL
-----------------------------------------------------------------------------
(* The log only grows. *)

LEMMA LogOnlyGrows ==
  ASSUME [Next]_vars
  PROVE  deletedFiles \subseteq deletedFiles' /\ deletedDirs \subseteq deletedDirs'
  <1> USE DEF log, copying
  <1>1. CASE UNCHANGED vars
    BY <1>1 DEF vars
  <1>2. ASSUME NEW p \in Path, Mkdir(p) \/ Unlink(p) \/ Rmdir(p)
        PROVE  deletedFiles \subseteq deletedFiles' /\ deletedDirs \subseteq deletedDirs'
    BY <1>2 DEF Mkdir, Unlink, Rmdir
  <1>3. ASSUME NEW p \in Path, NEW content \in Content, WriteFile(p, content)
        PROVE  deletedFiles \subseteq deletedFiles' /\ deletedDirs \subseteq deletedDirs'
    BY <1>3 DEF WriteFile
  <1>4. ASSUME NEW old \in Path, NEW new \in Path, Rename(old, new)
        PROVE  deletedFiles \subseteq deletedFiles' /\ deletedDirs \subseteq deletedDirs'
    BY <1>4 DEF Rename, RenameFile, RenameNewDir, RenameFails, StartRenameDir
  <1>5. CASE Background
    BY <1>5 DEF Background, FinishRenameDir, RunTask, FailRenameDir, RunStray, DropStray
  <1> QED
    BY <1>1, <1>2, <1>3, <1>4, <1>5 DEF Next, Call

\* An entry that was hidden comes back only as something in writable: no
\* failing rename and no later call uncovers the repository's version.
THEOREM DeletedIsNeverUncovered == Spec => DeletedStaysHidden
  <1> DEFINE Uncovers(p) ==
        Stat(writable, p) = Absent /\ Stat(writable, p)' # Absent /\ writable'[p] = Absent
  <1>1. ASSUME [Next]_vars, NEW p \in Path, Uncovers(p)
        PROVE  FALSE
    <2>1. writable[p] = Absent /\ ~ (InReadable(p) /\ Base[p] # Absent)
      BY <1>1 DEF Stat
    <2>2. InReadable(p)' /\ Base[p] # Absent
      BY <1>1 DEF Stat, InReadable
    <2>3. IsDeleted(p) /\ ~ IsDeleted(p)'
      BY <2>1, <2>2 DEF InReadable
    <2> QED
      BY <1>1, <2>3, LogOnlyGrows DEF IsDeleted
  <1>2. [Next]_vars => [\A p \in Path :
          Stat(writable, p) = Absent /\ Stat(writable, p)' # Absent => writable'[p] # Absent]_vars
    BY <1>1
  <1> QED
    BY <1>2, PTL DEF Spec, DeletedStaysHidden
=============================================================================
