---------------------------- MODULE FileService ----------------------------
(***************************************************************************)
(* The overlay under the calls the editor makes.  VS Code's file service   *)
(* checks a call against what it last saw before it hands it on: it makes  *)
(* no entry beneath a file and writes no file over a folder.  And          *)
(* WebIdeFileSystemBFS.rm unlinks what stat calls a file, and removes a    *)
(* folder after its children.                                              *)
(***************************************************************************)
EXTENDS OverlaySourceControl

ServiceCall ==
  LET seen == View IN
  \/ \E p \in Path : NoFileAbove(seen, p) /\ Mkdir(p)
  \/ \E p \in Path, content \in Content :
       NoFileAbove(seen, p) /\ seen[p] # Dir /\ WriteFile(p, content)
  \/ \E p \in Path : seen[p] \in Content /\ Unlink(p)
  \/ \E p \in Path : seen[p] = Dir /\ Children(seen, p) = {} /\ Rmdir(p)
  \/ \E old, new \in Path : NoFileAbove(seen, new) /\ Rename(old, new)

ServiceNext == ServiceCall \/ Background

ServiceSpec == Init /\ [][ServiceNext]_vars

-----------------------------------------------------------------------------
(* Safety. *)

\* No entry is visible beneath a missing folder or beneath a file: the two
\* trees and the log, three separate records, always merge into a tree.
ViewIsTree == IsTree(View)

\* readdir lists exactly the entries stat finds: its shortcut for a deleted
\* folder and its per-child filter agree with the per-path lookup.
ReaddirAgreesWithStat ==
  LET seen == View
  IN  \A d \in Path : seen[d] = Dir => Readdir(d) = Children(seen, d)

\* The status, derived from the log and from writable alone, is exactly the
\* difference between the repository and what the user sees.
StatusIsDiff == Status = Diff(Base, View)

\* The list of files for quick-open is exactly the visible files.
FileListIsVisibleFiles == AllBlobs = {p \in Path : Stat(writable, p) \in Content}

\* While a folder rename copies entries into writable, nothing the user sees
\* changes, deleted entries included.
CopyingIsInvisible ==
  [][renaming # NoRename /\ UNCHANGED <<renaming, strays>> => UNCHANGED View]_vars

-----------------------------------------------------------------------------
(* What the comments of OverlayFSImpl.ts claim, and the code does not do. *)

\* "Writable contains the most up-to-date changes" (OverlayFSImpl.ts:64): a
\* copy of a repository file, made for a rename, changes nothing the user
\* sees.  A stray copy does: it overwrites what was saved, or restores what
\* was deleted, after the rename had failed.
StrayCopyIsInvisible ==
  [][strays' # strays /\ UNCHANGED <<log, renaming, tasks>> => UNCHANGED View]_vars

\* "we need to move any missing children over to writable"
\* (OverlayFSImpl.ts:246): a folder rename that fails does so because of a
\* child it has to copy.  The code also fails at a child that is there.
RenameFailsOnlyAtCopies ==
  [][renaming # NoRename /\ renaming' = NoRename /\ writable' = writable =>
       tasks = {} \/ \E t \in tasks : t.stage = "copy"]_vars

-----------------------------------------------------------------------------
(* Refinement of the plain file system. *)

LatePaths ==
  {p \in Path : Base[p] # Absent /\ \E t \in strays : Within(t.path, p)}

Plain == INSTANCE PlainFS WITH tree <- View, late <- LatePaths

\* The overlay is a plain mutable file system: each call has the one effect
\* its name says, on the merged view, or none.
ImplementsPlainFS == Plain!Spec
=============================================================================
