----------------------------- MODULE OverlayFS -----------------------------
(***************************************************************************)
(* The file system the Web IDE edits: a writable in-memory file system     *)
(* laid over the read-only tree of the repository, with a log of the       *)
(* repository entries that have been deleted (OverlayFSImpl.ts,            *)
(* OverlayFSDeletedFilesLog.ts, mkdirp.ts).                                *)
(*                                                                         *)
(* LockedFS runs one call at a time, so a call is one atomic action, with  *)
(* one exception: renaming a repository folder first copies it into        *)
(* writable, one asynchronous task per entry, joined by Promise.all.  That *)
(* copy is modelled task by task, because Promise.all settles at the first *)
(* failure: the call then fails and gives up the lock while the other      *)
(* tasks are still running.  A call that fails without having changed      *)
(* anything is a stuttering step.                                          *)
(***************************************************************************)
EXTENDS FileTree

CONSTANTS
  Base,      \* the repository's tree: what `readable` holds
  NoRename   \* no folder rename is under way

ASSUME BaseAssumption == Base \in Tree /\ IsTree(Base)

ASSUME NoRenameAssumption == NoRename \notin [from : Path, to : Path]

VARIABLES
  writable,      \* the writable file system
  deletedFiles,  \* paths with a "file:" line in .deletedFiles.log
  deletedDirs,   \* paths with a "dir:" line in .deletedFiles.log
  renaming,      \* the folder rename that holds the lock
  tasks,         \* its copy tasks that have not finished
  strays         \* copy tasks that outlived the rename they belong to

vars == <<writable, deletedFiles, deletedDirs, renaming, tasks, strays>>

log == <<deletedFiles, deletedDirs>>

copying == <<renaming, tasks, strays>>

\* A copy task looks at its entry ("visit"), then creates it ("copy").
Task == [path : Path, stage : {"visit", "copy"}]

TypeOK ==
  /\ writable \in Tree
  /\ deletedFiles \subseteq Path
  /\ deletedDirs \subseteq Path
  /\ renaming \in [from : Path, to : Path] \union {NoRename}
  /\ tasks \subseteq Task
  /\ strays \subseteq Task

Init ==
  /\ writable = EmptyTree
  /\ deletedFiles = {}
  /\ deletedDirs = {}
  /\ renaming = NoRename
  /\ tasks = {}
  /\ strays = {}

-----------------------------------------------------------------------------
(* Reading. *)

\* A "dir:" line covers everything beneath the folder, a "file:" line only
\* the path itself.
IsDeleted(p) == p \in deletedFiles \/ Lineage[p] \cap deletedDirs # {}

InReadable(p) == Base[p] # Absent /\ ~ IsDeleted(p)

\* What stat finds at p when the writable file system holds w.
Stat(w, p) ==
  IF w[p] # Absent THEN w[p] ELSE IF InReadable(p) THEN Base[p] ELSE Absent

\* The tree the user sees.
View == [p \in Path |-> Stat(writable, p)]

\* Mutant: the repository's children are listed without asking the log.
ReaddirUnfiltered(d) == Children(writable, d) \union IF IsDeleted(d) THEN {} ELSE Children(Base, d)

Readdir(d) ==
  Children(writable, d) \union
    IF IsDeleted(d) THEN {} ELSE {p \in Children(Base, d) : ~ IsDeleted(p)}

-----------------------------------------------------------------------------
(* Calls that change something.  The lock is free when they start. *)

\* Mutant: making a deleted folder again removes its line from the log.
MkdirForgettingDeletion(p) ==
  /\ renaming = NoRename
  /\ Stat(writable, p) = Absent
  /\ CanMkdirp(writable, p)
  /\ writable' = Mkdirp(writable, p)
  /\ deletedDirs' = deletedDirs \ {p}
  /\ UNCHANGED <<deletedFiles, copying>>

Mkdir(p) ==
  /\ renaming = NoRename
  /\ Stat(writable, p) = Absent
  /\ CanMkdirp(writable, p)
  /\ writable' = Mkdirp(writable, p)
  /\ UNCHANGED <<log, copying>>

\* writeFile and appendFile: open, write and close (sync) under one lock.
WriteFile(p, content) ==
  LET prepared == Mkdirp(writable, Dirname(p)) IN
  /\ renaming = NoRename
  /\ CanMkdirp(writable, Dirname(p))
  /\ CanPut(prepared, p)
  /\ writable' = Put(prepared, p, content)
  /\ UNCHANGED <<log, copying>>

\* Mutant: the log gets the folder of the file.
UnlinkLoggingDirname(p) ==
  /\ renaming = NoRename
  /\ Stat(writable, p) # Absent
  /\ deletedFiles' = IF InReadable(p) THEN deletedFiles \union {Dirname(p)} ELSE deletedFiles
  /\ writable' = IF writable[p] = Dir THEN writable ELSE Delete(writable, p)
  /\ UNCHANGED <<deletedDirs, copying>>

\* The log is written before the file is removed.
Unlink(p) ==
  /\ renaming = NoRename
  /\ Stat(writable, p) # Absent
  /\ deletedFiles' = IF InReadable(p) THEN deletedFiles \union {p} ELSE deletedFiles
  \* writable.unlink refuses a folder; the log keeps its new line
  /\ writable' = IF writable[p] = Dir THEN writable ELSE Delete(writable, p)
  /\ UNCHANGED <<deletedDirs, copying>>

\* Mutant: a folder is removed without a look at what is in it.
RmdirOfFullFolder(p) ==
  /\ renaming = NoRename
  /\ Stat(writable, p) # Absent
  /\ writable[p] \in {Absent, Dir}
  /\ writable' = Delete(writable, p)
  /\ deletedDirs' = IF InReadable(p) THEN deletedDirs \union {p} ELSE deletedDirs
  /\ UNCHANGED <<deletedFiles, copying>>

Rmdir(p) ==
  /\ renaming = NoRename
  /\ Stat(writable, p) # Absent
  /\ writable[p] # Absent => writable[p] = Dir /\ Children(writable, p) = {}
  /\ writable' = Delete(writable, p)
  /\ deletedDirs' = IF InReadable(p) THEN deletedDirs \union {p} ELSE deletedDirs
  /\ UNCHANGED <<deletedFiles, copying>>

-----------------------------------------------------------------------------
(* rename(old, new).  Its checks, then mkdirp(dirname(new)), come first    *)
(* whatever `old` turns out to be.                                         *)

\* Bound of the model: the renamed entries stay within Path.
StaysInPath(old, new) == \A q \in Path : Within(old, q) => Rebase(q, old, new) \in Path

MayRename(old, new) ==
  /\ renaming = NoRename
  /\ Stat(writable, old) # Absent
  /\ old # new
  /\ Stat(writable, new) = Absent
  /\ CanMkdirp(writable, Dirname(new))
  /\ StaysInPath(old, new)

Prepared(new) == Mkdirp(writable, Dirname(new))

\* Mutant: a file that writable has is moved without a line in the log.
RenameFileUnlogged(old, new) ==
  /\ MayRename(old, new)
  /\ Stat(Prepared(new), old) \in Content
  /\ IF writable[old] # Absent
       THEN /\ CanMove(Prepared(new), old, new)
            /\ writable' = Move(Prepared(new), old, new)
            /\ UNCHANGED deletedFiles
       ELSE /\ CanPut(Prepared(new), new)
            /\ writable' = Put(Prepared(new), new, Base[old])
            /\ deletedFiles' = deletedFiles \union {old}
  /\ UNCHANGED <<deletedDirs, copying>>

RenameFile(old, new) ==
  /\ MayRename(old, new)
  /\ Stat(Prepared(new), old) \in Content
  /\ IF writable[old] # Absent
       THEN /\ CanMove(Prepared(new), old, new)
            /\ writable' = Move(Prepared(new), old, new)
       ELSE /\ CanPut(Prepared(new), new)
            /\ writable' = Put(Prepared(new), new, Base[old])
  /\ deletedFiles' = IF InReadable(old) THEN deletedFiles \union {old} ELSE deletedFiles
  /\ UNCHANGED <<deletedDirs, copying>>

\* A folder that only writable has.
RenameNewDir(old, new) ==
  /\ MayRename(old, new)
  /\ Stat(Prepared(new), old) = Dir
  /\ ~ InReadable(old)
  /\ CanMove(Prepared(new), old, new)
  /\ writable' = Move(Prepared(new), old, new)
  /\ UNCHANGED <<log, copying>>

\* The content of a repository file cannot be fetched, or the primitive
\* rename refuses: what mkdirp made stays.
RenameFails(old, new) ==
  /\ MayRename(old, new)
  /\ \/ Stat(Prepared(new), old) \in Content /\ writable[old] = Absent
     \/ ~ (Stat(Prepared(new), old) = Dir /\ InReadable(old))
        /\ ~ CanMove(Prepared(new), old, new)
  /\ writable' = Prepared(new)
  /\ UNCHANGED <<log, copying>>

\* A folder of the repository: copy first.
StartRenameDir(old, new) ==
  /\ MayRename(old, new)
  /\ Stat(Prepared(new), old) = Dir
  /\ InReadable(old)
  /\ writable' = Prepared(new)
  /\ renaming' = [from |-> old, to |-> new]
  /\ tasks' = {[path |-> old, stage |-> "visit"]}
  /\ UNCHANGED <<log, strays>>

\* Mutant: the renamed folder is logged as a file.
FinishRenameDirLoggingFile ==
  /\ renaming # NoRename
  /\ tasks = {}
  /\ IF CanMove(writable, renaming.from, renaming.to)
       THEN /\ writable' = Move(writable, renaming.from, renaming.to)
            /\ deletedFiles' = deletedFiles \union {renaming.from}
       ELSE UNCHANGED <<writable, deletedFiles>>
  /\ renaming' = NoRename
  /\ UNCHANGED <<deletedDirs, tasks, strays>>

\* Every task has succeeded: move what is now in writable, then log.
FinishRenameDir ==
  /\ renaming # NoRename
  /\ tasks = {}
  /\ IF CanMove(writable, renaming.from, renaming.to)
       THEN /\ writable' = Move(writable, renaming.from, renaming.to)
            /\ deletedDirs' = deletedDirs \union {renaming.from}
       ELSE UNCHANGED <<writable, deletedDirs>>
  /\ renaming' = NoRename
  /\ UNCHANGED <<deletedFiles, tasks, strays>>

-----------------------------------------------------------------------------
(* #copyFromReadableToWritable, as tasks: t is a task of the set `todo`,   *)
(* which its step turns into todoNext.                                     *)

ChildTasks(d) == {[path |-> p, stage |-> "visit"] : p \in Children(Base, d)}

VisitDeleted(t, todo, todoNext) ==
  /\ t.stage = "visit"
  /\ IsDeleted(t.path)
  /\ todoNext = todo \ {t}
  /\ UNCHANGED writable

\* Mutant: the copy does not ask the log.
VisitMissingUnfiltered(t, todo, todoNext) ==
  /\ t.stage = "visit"
  /\ writable[t.path] = Absent
  /\ todoNext = (todo \ {t}) \union {[t EXCEPT !.stage = "copy"]}
  /\ UNCHANGED writable

VisitMissing(t, todo, todoNext) ==
  /\ t.stage = "visit"
  /\ ~ IsDeleted(t.path)
  /\ writable[t.path] = Absent
  /\ todoNext = (todo \ {t}) \union {[t EXCEPT !.stage = "copy"]}
  /\ UNCHANGED writable

VisitPresentDir(t, todo, todoNext) ==
  /\ t.stage = "visit"
  /\ ~ IsDeleted(t.path)
  /\ writable[t.path] # Absent
  /\ Base[t.path] = Dir
  /\ todoNext = (todo \ {t}) \union ChildTasks(t.path)
  /\ UNCHANGED writable

CopyDir(t, todo, todoNext) ==
  /\ t.stage = "copy"
  /\ Base[t.path] = Dir
  /\ CanMkdirp(writable, t.path)
  /\ writable' = Mkdirp(writable, t.path)
  /\ todoNext = (todo \ {t}) \union ChildTasks(t.path)

CopyFile(t, todo, todoNext) ==
  LET prepared == Mkdirp(writable, Dirname(t.path)) IN
  /\ t.stage = "copy"
  /\ Base[t.path] # Dir
  /\ CanMkdirp(writable, Dirname(t.path))
  /\ CanPut(prepared, t.path)
  /\ writable' = Put(prepared, t.path, Base[t.path])
  /\ todoNext = todo \ {t}

TaskStep(t, todo, todoNext) ==
  \/ VisitDeleted(t, todo, todoNext)
  \/ VisitMissing(t, todo, todoNext)
  \/ VisitPresentDir(t, todo, todoNext)
  \/ CopyDir(t, todo, todoNext)
  \/ CopyFile(t, todo, todoNext)

\* A file that writable has already is taken for a folder: the task falls
\* through to readable.readdir, which refuses a file.
VisitPresentFileFails(t) ==
  /\ t.stage = "visit"
  /\ ~ IsDeleted(t.path)
  /\ writable[t.path] # Absent
  /\ Base[t.path] # Dir

\* The content cannot be fetched or written, or the folder cannot be made.
CopyFails(t) ==
  /\ t.stage = "copy"
  /\ Base[t.path] = Dir => ~ CanMkdirp(writable, t.path)

TaskFails(t) == VisitPresentFileFails(t) \/ CopyFails(t)

\* A task of the rename that holds the lock.
RunTask(t) ==
  /\ TaskStep(t, tasks, tasks')
  /\ UNCHANGED <<log, renaming, strays>>

\* Mutant: the failure is lost, and the rename waits for it for ever.
FailRenameDirUnnoticed(t) ==
  /\ TaskFails(t)
  /\ UNCHANGED vars

\* Its failure fails the rename; nobody waits for the other tasks any more.
FailRenameDir(t) ==
  /\ TaskFails(t)
  /\ renaming' = NoRename
  /\ strays' = strays \union (tasks \ {t})
  /\ tasks' = {}
  /\ UNCHANGED <<writable, log>>

\* A stray task runs whoever holds the lock now; nobody sees its failure.
RunStray(t) ==
  /\ TaskStep(t, strays, strays')
  /\ UNCHANGED <<log, renaming, tasks>>

DropStray(t) ==
  /\ TaskFails(t)
  /\ strays' = strays \ {t}
  /\ UNCHANGED <<writable, log, renaming, tasks>>

Background ==
  \/ FinishRenameDir
  \/ \E t \in tasks : RunTask(t) \/ FailRenameDir(t)
  \/ \E t \in strays : RunStray(t) \/ DropStray(t)

-----------------------------------------------------------------------------
(* The file system under any caller. *)

Rename(old, new) ==
  \/ RenameFile(old, new)
  \/ RenameNewDir(old, new)
  \/ RenameFails(old, new)
  \/ StartRenameDir(old, new)

Call ==
  \/ \E p \in Path : Mkdir(p) \/ Unlink(p) \/ Rmdir(p)
  \/ \E p \in Path, content \in Content : WriteFile(p, content)
  \/ \E old, new \in Path : Rename(old, new)

Next == Call \/ Background

Spec == Init /\ [][Next]_vars

\* A promise that has been started settles: a fetch answers or fails, and
\* JavaScript's event loop runs what is ready.  Callers owe nothing.
Fairness ==
  /\ WF_vars(FinishRenameDir)
  /\ WF_vars(\E t \in tasks : RunTask(t) \/ FailRenameDir(t))

FairSpec == Spec /\ Fairness

-----------------------------------------------------------------------------
(* Properties that hold whoever calls, in whatever order. *)

\* Whatever mkdirp, the moves and the copies in the background do, nothing in
\* writable is ever left without its folder.
WritableIsTree == IsTree(writable)

\* What a deletion or a rename has hidden never shines through again: an
\* entry only reappears because writable now has something at its path.
DeletedStaysHidden ==
  [][\A p \in Path :
       Stat(writable, p) = Absent /\ Stat(writable, p)' # Absent => writable'[p] # Absent]_vars

\* A folder rename gives the lock back, whichever of its tasks fails.
RenameReleasesLock == renaming # NoRename ~> renaming = NoRename
=============================================================================
