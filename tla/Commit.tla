------------------------------- MODULE Commit -------------------------------
(***************************************************************************)
(* The commit commands of the source control view (scm/commit/command.ts): *)
(* commit, commit and force push, amend and force push.  A command reads   *)
(* the status, counts what a force push would delete, asks, lets the user  *)
(* choose a branch, posts the commit, and reloads the workbench on the     *)
(* branch; between any two of these the user may edit, and others push, by *)
(* force or not: they may use the same commands.                           *)
(*                                                                         *)
(* Session has what a reload registers and disposes, and how the view      *)
(* follows the changes; here the view is up to date when a command begins. *)
(***************************************************************************)
EXTENDS CommitPayload, FiniteSets

CONSTANTS
  Branch,
  Default,      \* the default branch
  NoBranch,     \* the ref is a tag or a commit
  Idle,
  FirstTrees,   \* what the first two commits hold
  Typed,        \* bound: what the user writes to a file,
  Pushed,       \* and what others do
  MaxCommits,   \* bound: commits of the user's,
  MaxPushes     \* and of others

ASSUME BranchAssumption == Default \in Branch /\ NoBranch \notin Branch
ASSUME FirstTreesAssumption == FirstTrees \subseteq Tree \X Tree
ASSUME ContentAssumption == Typed \union Pushed \subseteq Content \union {Absent}

VARIABLES
  commits,     \* the repository: its commits,
  branches,    \* its branches, 0 for none of that name,
  pushable,    \* and those the user may push to
  ref,         \* what is checked out
  local,       \* the files as the user sees them
  preference,  \* the user has agreed to commit to the default branch
  command      \* the commit command that runs, or Idle

server == <<commits, branches>>
vars == <<server, pushable, ref, local, preference, command>>

Ref == [branch : Branch \union {NoBranch}, sha : Nat]

Mode == {"commit", "force", "amend"}

Selection == [branchName : Branch, isNewBranch : BOOLEAN]

Running ==
  [mode : Mode, prompt : BOOLEAN, snapshot : Tree,
   stage : {"counting", "confirming", "choosing", "naming", "posting",
            "rejected", "accepted"},
   difference : Int, counted : Nat, confirmed : BOOLEAN,
   selection : Selection \union {NoBranch},
   reason : {"none", "branch exists", "conflict", "forbidden", "other"},
   before : Nat, commit : Nat]

ASSUME IdleAssumption == Idle \notin Running

FirstCommits ==
  {<<[parent |-> 0, count |-> 1, tree |-> p[1], author |-> "nobody"],
     [parent |-> 1, count |-> 2, tree |-> p[2], author |-> "nobody"]>> : p \in FirstTrees}

Init ==
  /\ \/ /\ commits = <<>>
        /\ branches = [b \in Branch |-> 0]
        /\ ref = [branch |-> Default, sha |-> 0]
     \/ /\ commits \in FirstCommits
        /\ branches \in {[b \in Branch |-> IF b = Default THEN 2 ELSE other] : other \in {0, 1}}
        /\ ref \in {[branch |-> b, sha |-> branches[b]] : b \in {x \in Branch : branches[x] # 0}}
                   \union {[branch |-> NoBranch, sha |-> 1]}
  /\ pushable \in {Branch, Branch \ {Default}}
  /\ local = TreeAt(commits, ref.sha)
  /\ preference = FALSE
  /\ command = Idle

-----------------------------------------------------------------------------

Status == StatusOf(TreeAt(commits, ref.sha), local)

Goes(stage) == command' = [command EXCEPT !.stage = stage]

At(stage) == command # Idle /\ command.stage = stage

Begun(mode, prompt) ==
  [mode |-> mode, prompt |-> prompt, snapshot |-> local,
   stage |-> IF mode = "commit" THEN "choosing" ELSE "counting",
   difference |-> 0, counted |-> 0, confirmed |-> FALSE, selection |-> NoBranch,
   reason |-> "none", before |-> 0, commit |-> 0]

\* An amend may change the message only.
ChangeExists(mode) == Status # {} \/ mode = "amend"

\* How many commits of the repository are by whom.
By(author) == Cardinality({i \in DOMAIN commits : commits[i].author = author})

Ended == By("user") = MaxCommits /\ command = Idle

Begin(mode, prompt) ==
  /\ command = Idle
  /\ ~ Ended
  /\ ChangeExists(mode)
  /\ prompt => mode = "commit"
  /\ command' = Begun(mode, prompt)
  /\ UNCHANGED <<server, pushable, ref, local, preference>>

\* getRemoteCommitDifference counts commits.
Difference(head) == CountAt(commits, head) - CountAt(commits, ref.sha)

CountDifference ==
  /\ At("counting")
  /\ LET head == IF ref.branch = NoBranch \/ ref.sha = 0 THEN ref.sha ELSE branches[ref.branch]
     IN  command' = [command EXCEPT !.stage = "confirming", !.counted = head,
                                    !.difference = Difference(head)]
  /\ UNCHANGED <<server, pushable, ref, local, preference>>

CountFails ==
  /\ At("counting")
  /\ ref.branch # NoBranch /\ ref.sha # 0
  /\ command' = [command EXCEPT !.stage = "confirming", !.difference = 1]
  /\ UNCHANGED <<server, pushable, ref, local, preference>>

\* Mutant: an amend is announced by the number of commits, like a force push.
IsAnnouncedByCount(c) == c.difference > 1

IsAnnounced(c) == c.mode = "amend" \/ c.difference # 0

ConfirmForcePush ==
  /\ At("confirming")
  /\ command' = [command EXCEPT !.stage = "choosing", !.confirmed = IsAnnounced(command)]
  /\ UNCHANGED <<server, pushable, ref, local, preference>>

Select(name, isNew) ==
  command' = [command EXCEPT !.stage = "posting",
                !.selection = [branchName |-> name, isNewBranch |-> isNew]]

\* getBranchSelection, with the answers of its dialogs.
MustName == ref.branch = NoBranch \/ command.prompt

AsksForPreference ==
  /\ ~ MustName
  /\ ref.sha # 0
  /\ ref.branch \in pushable
  /\ ref.branch = Default
  /\ ~ preference

KeepBranch ==
  /\ At("choosing")
  /\ ~ MustName
  /\ ref.sha = 0 \/ ref.branch \in pushable
  /\ ~ AsksForPreference
  /\ Select(ref.branch, FALSE)
  /\ UNCHANGED <<server, pushable, ref, local, preference>>

ContinueOnDefault ==
  /\ At("choosing")
  /\ AsksForPreference
  /\ preference' = TRUE
  /\ Select(ref.branch, FALSE)
  /\ UNCHANGED <<server, pushable, ref, local>>

CreateNewBranch ==
  /\ At("choosing")
  /\ MustName \/ AsksForPreference \/ (ref.sha # 0 /\ ref.branch \notin pushable)
  /\ Goes("naming")
  /\ UNCHANGED <<server, pushable, ref, local, preference>>

\* The user may enter any name, also one that is taken.
PromptBranchName(name) ==
  /\ At("naming")
  /\ Select(name, TRUE)
  /\ UNCHANGED <<server, pushable, ref, local, preference>>

\* The user cancels a dialog, or closes the error.
Cancel ==
  /\ \/ At("confirming") /\ IsAnnounced(command)
     \/ At("choosing") /\ (AsksForPreference \/ ref.branch \notin pushable)
     \/ At("naming")
     \/ At("rejected")
  /\ command' = Idle
  /\ UNCHANGED <<server, pushable, ref, local, preference>>

-----------------------------------------------------------------------------

PayloadOf(c) ==
  LET status == StatusOf(TreeAt(commits, ref.sha), c.snapshot)
      name == c.selection.branchName
      isNew == c.selection.isNewBranch
  IN  IF c.mode = "amend"
      THEN GetAmendCommitPayload(commits, status, name, isNew, ref.sha)
      ELSE GetCommitPayload(status, name, isNew, ref.sha, c.mode = "force")

\* What the server answers.
Answer(payload) ==
  CASE BranchExists(branches, payload) -> "branch exists"
    [] ~ BranchExists(branches, payload)
       /\ \/ BranchMissing(commits, branches, payload)
          \/ \E a \in payload.actions : Conflicts(commits, BaseOf(branches, payload), a)
          \/ payload.actions = {} -> "conflict"
    [] OTHER -> "none"

Reject(reason) ==
  /\ command' = [command EXCEPT !.stage = "rejected", !.reason = reason]
  /\ UNCHANGED <<server, pushable, ref, local, preference>>

PostCommit ==
  /\ At("posting")
  /\ command.mode = "amend" => ref.sha # 0
  /\ LET payload == PayloadOf(command)
     IN  \/ /\ Answer(payload) # "none"
            /\ Reject(Answer(payload))
         \/ /\ Answer(payload) = "none"
            /\ branches[payload.branch] = 0 \/ payload.branch \in pushable
            /\ By("user") < MaxCommits
            /\ commits' = Added(commits, branches, payload)
            /\ branches' = [branches EXCEPT ![payload.branch] = Len(commits')]
            /\ command' = [command EXCEPT !.stage = "accepted",
                             !.before = branches[payload.branch], !.commit = Len(commits')]
            /\ UNCHANGED <<pushable, ref, local, preference>>

\* The user may not push there or the name is invalid; or the session has expired,
\* a hook refuses, the network fails, the commit to amend could not be read.
PostFails ==
  /\ At("posting")
  /\ Reject("other") \/ Reject("forbidden")

\* "Create new branch and commit": the commit command, whatever was run before.
CommitToNewBranch ==
  /\ At("rejected")
  /\ command.reason = "forbidden"
  /\ command' = IF ChangeExists("commit") THEN Begun("commit", TRUE) ELSE Idle
  /\ UNCHANGED <<server, pushable, ref, local, preference>>

\* The reload: it fetches the branch, and starts with its files.
Reload ==
  /\ At("accepted")
  /\ ref' = [branch |-> command.selection.branchName,
             sha |-> branches[command.selection.branchName]]
  /\ local' = TreeAt(commits, ref'.sha)
  /\ command' = Idle
  /\ UNCHANGED <<server, pushable, preference>>

-----------------------------------------------------------------------------

Edit(f, c) ==
  /\ ~ Ended
  /\ local[f] # c
  /\ local' = [local EXCEPT ![f] = c]
  /\ UNCHANGED <<server, pushable, ref, preference, command>>

\* Another user pushes a change of one file of the commit seen: on top of it, which
\* deletes those after it if there are any (a force push), or in its place (an amend).
OtherPushes(b, seen, base, f, c) ==
  /\ branches[b] # 0
  /\ By("other") < MaxPushes
  /\ seen \in History(commits, branches[b])
  /\ base \in {seen, ParentOf(commits, seen)} \ {0}
  /\ LET tree == [TreeAt(commits, seen) EXCEPT ![f] = c] IN
       /\ tree # TreeAt(commits, base)
       /\ commits' = Append(commits,
            [parent |-> base, count |-> CountAt(commits, base) + 1,
             tree |-> tree, author |-> "other"])
       /\ branches' = [branches EXCEPT ![b] = Len(commits')]
  /\ UNCHANGED <<pushable, ref, local, preference, command>>

Next ==
  \/ \E mode \in Mode, prompt \in BOOLEAN : Begin(mode, prompt)
  \/ CountDifference \/ CountFails \/ ConfirmForcePush
  \/ KeepBranch \/ ContinueOnDefault \/ CreateNewBranch
  \/ \E name \in Branch : PromptBranchName(name)
  \/ Cancel
  \/ PostCommit \/ PostFails \/ CommitToNewBranch \/ Reload
  \/ \E f \in File, c \in Typed : Edit(f, c)
  \/ \E b \in Branch, seen, base \in DOMAIN commits, f \in File, c \in Pushed :
       OtherPushes(b, seen, base, f, c)

Spec == Init /\ [][Next]_vars

-----------------------------------------------------------------------------
(* Properties. *)

Before(c) == TreeAt(commits, c.before)

\* A first commit is amended by one on top of it (getAmendCommitPayload.ts:94).
AmendsFirst == command.mode = "amend" /\ ParentOf(commits, ref.sha) = 0

\* A commit that is accepted holds what the user saw when the command began: on
\* a branch that others may have changed, in every file the user changed, and
\* by force, in every file; and an amended commit takes the place of the one it
\* amends, unless that is a first commit (getCommitPayload.ts:42-73,
\* getAmendCommitPayload.ts:17-117).
CommitIsWhatWasSeen ==
  At("accepted") /\ ~ AmendsFirst =>
    LET new == commits[command.commit]
        seen == TreeAt(commits, ref.sha)
    IN  /\ \A f \in File : new.tree[f] =
             IF command.mode = "commit" /\ ~ command.selection.isNewBranch
                /\ command.snapshot[f] = seen[f]
             THEN Before(command)[f] ELSE command.snapshot[f]
        /\ command.mode = "amend" => new.parent = ParentOf(commits, ref.sha)

\* A plain commit takes back nobody's change unseen, except in a file it deletes
\* (getCommitPayload.ts:58).
OthersChangesSurvive ==
  At("accepted") /\ command.mode = "commit" /\ ~ command.selection.isNewBranch =>
    \A f \in File :
      Before(command)[f] # TreeAt(commits, ref.sha)[f] =>
        \/ commits[command.commit].tree[f] = Before(command)[f]
        \/ command.snapshot[f] = Absent

\* The commits a push deletes, of those that were on the branch when it counted.
DeletedOfCounted ==
  Discarded(commits, command.before, commits[command.commit].parent)
    \intersect History(commits, command.counted)

\* How many commits the user has agreed to delete.
Announced(c) ==
  IF ~ c.confirmed THEN 0 ELSE IF c.mode = "amend" THEN c.difference + 1 ELSE c.difference

\* A push to the branch that is checked out deletes no more commits than the user
\* has agreed to, except those pushed since they were counted, and except as many as
\* others had taken from under what is checked out: only the numbers of commits are
\* compared (command.ts:60-74, getRemoteCommitDifference.ts:35).
OverwriteIsCounted ==
  At("accepted") /\ ~ command.selection.isNewBranch =>
    Cardinality(DeletedOfCounted) <= Announced(command) +
      Cardinality(Discarded(commits, ref.sha, command.counted))

\* The server refuses an amend for its contents only if it amends a first commit,
\* one that renamed a file, or one that deleted a file that is there again; or if
\* nothing is left of the commit (getAmendCommitPayload.ts:26-73).
AmendIsRefusedOnlyIf ==
  At("rejected") /\ command.mode = "amend" /\ command.reason = "conflict" =>
    LET parent == ParentOf(commits, ref.sha)
        old == TreeAt(commits, parent)
        new == TreeAt(commits, ref.sha)
    IN  \/ parent = 0
        \/ Renamed(old, new) # {}
        \/ \E f \in Deleted(old, new) : command.snapshot[f] # Absent
        \/ command.snapshot = old

\* What a reload drops of the user's changes was made after the command began, or
\* somebody else pushed another version; unless a first commit was amended
\* (command.ts:49, 136).
ReloadDropsOnlyLateChanges ==
  [][Reload /\ ~ AmendsFirst => \A f \in File :
       \/ local'[f] = local[f]
       \/ local[f] # command.snapshot[f]
       \/ local[f] = TreeAt(commits, ref.sha)[f]
       \/ local'[f] # commits[command.commit].tree[f]]_vars

\* "Show a warning before force committing" (command.ts:60): a force push nobody was
\* warned of deletes no commit that was there when it counted.
ForcePushIsWarned ==
  At("accepted") /\ command.mode = "force" /\ ~ command.selection.isNewBranch =>
    command.confirmed \/ DeletedOfCounted = {}

\* "Create a new branch and commit" (promptBranchName.ts:23): the branch is new.
NewBranchIsNew ==
  At("accepted") /\ command.selection.isNewBranch => command.before = 0

=============================================================================
