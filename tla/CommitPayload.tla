--------------------------- MODULE CommitPayload ---------------------------
(***************************************************************************)
(* What the extension sends for a commit: scm/commit/getCommitPayload.ts   *)
(* and getAmendCommitPayload.ts, as functions of the status (the changes   *)
(* the source control view lists) and, for an amend, of the diff of the    *)
(* commit it replaces.                                                     *)
(***************************************************************************)
EXTENDS Repository

FileStatus ==
  [path : File, type : {"created", "modified", "deleted"}, content : Content \union {Absent}]

StatusEntry(f, type, content) == [path |-> f, type |-> type, content |-> content]

\* The status of a working tree (see OverlaySourceControl for how it is computed).
StatusOf(base, tree) ==
  {StatusEntry(f, "created", tree[f]) : f \in Created(base, tree)}
  \union {StatusEntry(f, "modified", tree[f]) : f \in Modified(base, tree)}
  \union {StatusEntry(f, "deleted", Absent) : f \in Deleted(base, tree)}

GetCommitActionType(s) ==
  CASE s.type = "created" -> "create"
    [] s.type = "deleted" -> "delete"
    [] s.type = "modified" -> "update"

\* Mutant: no action names the commit it is meant for.
LastCommitIdNever(s, sha, isNewBranch, force) == 0

\* A deletion is not protected by last_commit_id.
LastCommitId(s, sha, isNewBranch, force) ==
  IF force \/ isNewBranch \/ s.type = "deleted" THEN 0 ELSE sha

GetCommitPayload(status, branchName, isNewBranch, sha, force) ==
  [branch |-> branchName,
   actions |-> {[action |-> GetCommitActionType(s), path |-> s.path,
                 last |-> LastCommitId(s, sha, isNewBranch, force),
                 content |-> s.content] : s \in status},
   start |-> IF isNewBranch \/ force THEN sha ELSE 0,
   force |-> force]

-----------------------------------------------------------------------------
(* Amend. *)

\* The files of the original commit.  A renamed file counts as modified at its
\* new path; nothing stands for its old one.
OriginalFiles(diff, tree) ==
  {CASE d.kind = "new_file" -> StatusEntry(d.new_path, "created", tree[d.new_path])
     [] d.kind = "deleted_file" -> StatusEntry(d.old_path, "deleted", Absent)
     [] OTHER -> StatusEntry(d.new_path, "modified", tree[d.new_path]) : d \in diff}

\* Mutant: a file that the original commit created stays in it.
MergedWithKeepingCreated(committed, s) ==
  IF committed.type = "created" /\ s.type = "deleted" THEN {committed} ELSE {s}

\* Mutant: a created file that is modified now counts as modified.
MergedWithAsIs(committed, s) ==
  IF committed.type = "created" /\ s.type = "deleted" THEN {} ELSE {s}

\* What becomes of a current change to a file that the original commit changed.
MergedWith(committed, s) ==
  CASE committed.type = "created" /\ s.type = "deleted" -> {}
    [] committed.type = "created" /\ s.type = "modified" -> {[s EXCEPT !.type = "created"]}
    [] OTHER -> {s}

\* Mutant: only the files of the original commit are committed.
MergeIntoOriginal(original, status) ==
  {o \in original : \A s \in status : s.path # o.path}
  \union UNION {MergedWith(p[1], p[2]) : p \in
                  {q \in original \X status : q[1].path = q[2].path}}

MergeOriginalAndCurrentChanges(original, status) ==
  {o \in original : \A s \in status : s.path # o.path}
  \union {s \in status : \A o \in original : o.path # s.path}
  \union UNION {MergedWith(p[1], p[2]) : p \in
                  {q \in original \X status : q[1].path = q[2].path}}

\* On top of the parent, or of the commit itself if it is the first.
GetAmendCommitPayload(commits, status, branchName, isNewBranch, sha) ==
  LET parent == ParentOf(commits, sha)
      parentSha == IF parent = 0 THEN sha ELSE parent
      tree == TreeAt(commits, sha)
      original == OriginalFiles(CommitDiff(TreeAt(commits, parent), tree), tree)
  IN  GetCommitPayload(MergeOriginalAndCurrentChanges(original, status),
                       branchName, isNewBranch, parentSha, TRUE)

=============================================================================
