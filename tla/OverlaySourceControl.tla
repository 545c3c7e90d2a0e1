------------------------ MODULE OverlaySourceControl ------------------------
(***************************************************************************)
(* The source-control status and the list of files, computed from the      *)
(* parts of the overlay: the log, the writable files and the repository    *)
(* (OverlaySourceControl.ts, readdirRecursive.ts, readAllFiles.ts,         *)
(* FileList.ts).  Here they are read while no call is under way.           *)
(***************************************************************************)
EXTENDS OverlayFS

\* Mutant: only the files right in a deleted folder are found.
DeletedPathsShallow ==
  {p \in Path : Base[p] \in Content /\ Dirname(p) \in deletedDirs} \union deletedFiles

\* readdirRecursive(readable, dir) for each "dir:" line, and the "file:" lines.
DeletedPaths ==
  {p \in Path : Base[p] \in Content /\ \E d \in deletedDirs : Beneath(d, p)}
    \union deletedFiles

\* readAllFiles(writable)
TouchedPaths == {p \in Path : writable[p] \in Content}

StatusOf(p) ==
  IF Base[p] \notin Content THEN {[path |-> p, type |-> "created"]}
  ELSE IF writable[p] # Base[p] THEN {[path |-> p, type |-> "modified"]}
  ELSE {}

Status ==
  {[path |-> p, type |-> "deleted"] : p \in DeletedPaths \ TouchedPaths}
    \union UNION {StatusOf(p) : p \in TouchedPaths}

\* Mutant: new files are left out.
AllBlobsOfBase ==
  LET status == Status IN
  {p \in Path : Base[p] \in Content /\ [path |-> p, type |-> "deleted"] \notin status}

\* DefaultFileList.listAllBlobs
AllBlobs ==
  LET status == Status IN
  {p \in Path : Base[p] \in Content /\ [path |-> p, type |-> "deleted"] \notin status}
    \union {p \in Path : [path |-> p, type |-> "created"] \in status}

\* What changed between two trees, file by file.
Diff(old, new) ==
  {[path |-> p, type |-> "deleted"] :
     p \in {q \in Path : old[q] \in Content /\ new[q] \notin Content}}
  \union
  {[path |-> p, type |-> "created"] :
     p \in {q \in Path : old[q] \notin Content /\ new[q] \in Content}}
  \union
  {[path |-> p, type |-> "modified"] :
     p \in {q \in Path : old[q] \in Content /\ new[q] \in Content /\ old[q] # new[q]}}
=============================================================================
