----------------------------- MODULE Repository -----------------------------
(***************************************************************************)
(* The Git repository behind the API, as far as the extension's requests   *)
(* see it: what a commit holds, the diff it reports, and whether it takes  *)
(* a new commit.  The server is external: this is what the code that talks *)
(* to it, and the errors it knows, rely on.                                *)
(*                                                                         *)
(* A commit is named by its place in the sequence of all commits; 0 is no  *)
(* commit, as of a repository that is empty.                               *)
(***************************************************************************)
EXTENDS Integers, Sequences

CONSTANTS File, Content, Absent

ASSUME AbsentAssumption == Absent \notin Content

Tree == [File -> Content \union {Absent}]

EmptyTree == [f \in File |-> Absent]

\* author tells whose commit it is; the first ones are nobody's.
Commit ==
  [parent : Nat, count : Nat, tree : Tree, author : {"nobody", "user", "other"}]

TreeAt(commits, sha) == IF sha = 0 THEN EmptyTree ELSE commits[sha].tree

CountAt(commits, sha) == IF sha = 0 THEN 0 ELSE commits[sha].count

ParentOf(commits, sha) == IF sha = 0 THEN 0 ELSE commits[sha].parent

\* What is lost with a branch that is moved from commit sha to one on top of base.
History(commits, sha) ==
  LET history[s \in 0 .. Len(commits)] ==
        IF s = 0 THEN {} ELSE {s} \union history[commits[s].parent]
  IN  history[sha]

Discarded(commits, sha, base) == History(commits, sha) \ History(commits, base)

-----------------------------------------------------------------------------
(* The diff of a commit against its first parent. *)

Created(old, new) == {f \in File : old[f] = Absent /\ new[f] # Absent}

Deleted(old, new) == {f \in File : old[f] # Absent /\ new[f] = Absent}

Modified(old, new) == {f \in File : Absent \notin {old[f], new[f]} /\ old[f] # new[f]}

\* A file that is gone and one of the same content that is new are one entry.
Renamed(old, new) ==
  LET source(c) == CHOOSE d \in Deleted(old, new) : old[d] = new[c]
      target(d) == CHOOSE c \in Created(old, new) : old[d] = new[c]
  IN  {r \in Deleted(old, new) \X Created(old, new) :
         old[r[1]] = new[r[2]] /\ source(r[2]) = r[1] /\ target(r[1]) = r[2]}

Entry(old, new, kind) == [old_path |-> old, new_path |-> new, kind |-> kind]

CommitDiff(old, new) ==
  LET renamed == Renamed(old, new)
  IN  {Entry(r[1], r[2], "renamed_file") : r \in renamed}
      \union {Entry(f, f, "changed") : f \in Modified(old, new)}
      \union {Entry(f, f, "new_file") :
                f \in Created(old, new) \ {r[2] : r \in renamed}}
      \union {Entry(f, f, "deleted_file") :
                f \in Deleted(old, new) \ {r[1] : r \in renamed}}

-----------------------------------------------------------------------------
(* POST of a commit: a branch, actions, and maybe start_sha and force. *)

CommitAction == [action : {"create", "update", "delete"}, path : File,
                 last : Nat, content : Content \union {Absent}]

\* The commit that the actions are applied to.
BaseOf(branches, payload) ==
  IF payload.start # 0 THEN payload.start ELSE branches[payload.branch]

Changed(tree, actions) ==
  [f \in File |-> IF \E a \in actions : a.path = f
                  THEN (CHOOSE a \in actions : a.path = f).content ELSE tree[f]]

\* last_commit_id protects a file that has been changed since.
HasChanged(commits, base, a) ==
  a.action = "update" /\ a.last # 0
    /\ TreeAt(commits, a.last)[a.path] # TreeAt(commits, base)[a.path]

Conflicts(commits, base, a) ==
  \/ a.action = "create" <=> TreeAt(commits, base)[a.path] # Absent
  \/ HasChanged(commits, base, a)

BranchExists(branches, payload) ==
  payload.start # 0 /\ ~ payload.force /\ branches[payload.branch] # 0

BranchMissing(commits, branches, payload) ==
  payload.start = 0 /\ branches[payload.branch] = 0 /\ commits # <<>>

\* The user's payload as the next commit, on top of its base.
Added(commits, branches, payload) ==
  LET base == BaseOf(branches, payload)
  IN  Append(commits,
        [parent |-> base, count |-> CountAt(commits, base) + 1,
         tree |-> Changed(TreeAt(commits, base), payload.actions), author |-> "user"])

=============================================================================
