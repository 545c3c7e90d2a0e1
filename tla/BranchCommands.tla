--------------------------- MODULE BranchCommands ---------------------------
(***************************************************************************)
(* Checkout, creation and deletion of branches (commands/branchUtilities,  *)
(* checkoutBranch, createBranch, deleteBranch): the search behind the      *)
(* picker, the prompt that creates a branch, and the start command that    *)
(* finds out what the name chosen is and fetches its files.  Others create *)
(* and delete branches between any two requests.                           *)
(*                                                                         *)
(* Session has the changes that a load discards, and overlapping loads.    *)
(***************************************************************************)
EXTENDS Naturals

CONSTANTS
  Name,        \* names of refs, which are also what the user types,
  NoName,      \* and typing nothing,
  Text,        \* bound: what the user types into the picker
  Tag,         \* the names that are tags,
  CommitName,  \* the name that is the beginning of a commit's sha,
  DefaultName, \* the default branch
  NoJob,
  MaxOthers    \* bound: what others do

ASSUME NameAssumption ==
  /\ NoName \notin Name /\ Text \subseteq Name \union {NoName}
  /\ Tag \subseteq Name /\ CommitName \in Name \ Tag /\ DefaultName \in Name \ Tag
  /\ CommitName # DefaultName

VARIABLES
  heads,      \* the names that are branches of the repository
  project,    \* whether it has no commits, and whether the user may push
  others,     \* how often others have created or deleted a branch,
  lost,       \* and those they have deleted since the command began (history)
  picker,     \* the quick pick, while it is open
  box,        \* the input box
  job,        \* the command that runs, or NoJob
  loaded      \* what the workbench has loaded

branchVars == <<heads, project, others, lost, picker, box, job, loaded>>
remote == <<heads, project, others, lost>>

Item == [type : {"new-branch", "not-found", "existing-branch", "current"}, ref : Name \union {NoName}]

Closed ==
  [items |-> {}, shown |-> NoName, typed |-> NoName, debounced |-> FALSE,
   running |-> {}, queued |-> {}]

\* The box is neither closed nor hidden when its value has been accepted.
NoBox == [open |-> FALSE, submitted |-> NoName, answer |-> "none"]

BranchInit ==
  /\ project \in [empty : BOOLEAN, canPush : BOOLEAN]
  /\ heads \in IF project.empty THEN {{}}
               ELSE {h \in SUBSET (Name \ {CommitName}) : DefaultName \in h}
  /\ loaded \in IF project.empty THEN {[type |-> "branch", name |-> DefaultName]}
                ELSE {[type |-> "branch", name |-> n] : n \in heads}
                     \union {[type |-> "commit", name |-> CommitName]}
  /\ others = 0 /\ lost = {}
  /\ picker = Closed
  /\ box = NoBox
  /\ job = NoJob

-----------------------------------------------------------------------------
(* showSearchableQuickPick, and the queue of its searches. *)

Named(type, names) == {[type |-> type, ref |-> n] : n \in names}

\* What the commands call the current branch: of a tag or a commit, its sha.
Current == IF loaded.type = "branch" THEN loaded.name ELSE CommitName

DefaultItems(command) ==
  IF command # "checkout" THEN Named("current", {Current})
  ELSE IF project.canPush THEN Named("new-branch", {NoName}) ELSE {}

\* searchBranches: the branch of that name, and those that contain it.
Found(text) == {n \in heads : text \in {NoName, n}}

SearchItems(command, text) ==
  DefaultItems(command)
  \union IF command = "checkout" /\ Found(text) = {} THEN Named("not-found", {NoName})
         ELSE Named("existing-branch", Found(text))

\* Mutant: a call while another is pending is dropped if one waits already.
FirstQueued(text) ==
  IF picker.running = {} THEN [picker EXCEPT !.running = {text}, !.debounced = FALSE]
  ELSE IF picker.queued = {} THEN [picker EXCEPT !.queued = {text}, !.debounced = FALSE]
  ELSE [picker EXCEPT !.debounced = FALSE]

\* queueAsyncCalls: of the calls made while one is pending the latest waits.
Queued(text) ==
  IF picker.running = {} THEN [picker EXCEPT !.running = {text}, !.debounced = FALSE]
  ELSE [picker EXCEPT !.queued = {text}, !.debounced = FALSE]

Opened(command) ==
  [Closed EXCEPT !.items = DefaultItems(command), !.running = {NoName}]

At(stage) == job # NoJob /\ job.stage = stage

Type(text) ==
  /\ At("picking")
  /\ picker.typed # text
  /\ picker' = [picker EXCEPT !.typed = text, !.debounced = TRUE]
  /\ UNCHANGED <<remote, box, job, loaded>>

Debounced ==
  /\ At("picking")
  /\ picker.debounced
  /\ picker' = Queued(picker.typed)
  /\ UNCHANGED <<remote, box, job, loaded>>

\* When a search ends, the one that waits begins.
SearchEnds(answered) ==
  /\ At("picking")
  /\ \E text \in picker.running :
       picker' = [picker EXCEPT !.running = picker.queued, !.queued = {},
                    !.shown = text,
                    !.items = IF answered THEN SearchItems(job.command, text) ELSE @]
  /\ UNCHANGED <<remote, box, job, loaded>>

-----------------------------------------------------------------------------
(* The commands. *)

Begun(command) ==
  [command |-> command, stage |-> IF command = "create" THEN "naming" ELSE "picking",
   ref |-> NoName]

Goes(stage) == job' = [job EXCEPT !.stage = stage]

\* Opening either box hides what an older command has left open.
Run(command) ==
  /\ job = NoJob
  /\ command = "checkout" \/ project.canPush
  /\ job' = Begun(command)
  /\ picker' = IF command = "create" THEN Closed ELSE Opened(command)
  /\ box' = IF command = "create" THEN [NoBox EXCEPT !.open = TRUE] ELSE NoBox
  /\ lost' = {}
  /\ UNCHANGED <<heads, project, others, loaded>>

\* The prompt for a name; on top of which ref the branch is made is left out.
Prompt ==
  /\ job' = [job EXCEPT !.stage = "naming"]
  /\ box' = [NoBox EXCEPT !.open = TRUE]

\* What is done with the item selected: getRefFromBranchSelection, selectBranch.
Accept(item) ==
  /\ At("picking")
  /\ item \in picker.items
  /\ picker' = Closed
  /\ CASE item.type = "not-found" -> job' = NoJob /\ UNCHANGED box
       [] item.type = "new-branch" -> Prompt
       [] job.command = "createFrom" /\ item.ref # NoName -> Prompt
       [] job.command = "delete" /\ item.ref # NoName ->
            job' = [job EXCEPT !.stage = "checking", !.ref = item.ref] /\ UNCHANGED box
       [] OTHER -> job' = [job EXCEPT !.stage = "loading", !.ref = item.ref] /\ UNCHANGED box
  /\ UNCHANGED <<remote, loaded>>

HidePicker ==
  /\ At("picking")
  /\ picker' = Closed
  /\ job' = NoJob
  /\ UNCHANGED <<remote, box, loaded>>

-----------------------------------------------------------------------------
(* showInputBox, and the branch it creates. *)

\* A second name can be submitted when the first has been created, for as long
\* as the box is there.
Submit(name) ==
  /\ box.open
  /\ box.submitted = NoName
  /\ name \in Name \ {CommitName}
  /\ box' = [box EXCEPT !.submitted = name, !.answer = IF project.empty THEN "created" ELSE "none"]
  /\ UNCHANGED <<remote, picker, job, loaded>>

\* The server may refuse a name, and what it has done may get lost on the way back.
Create(answer) ==
  /\ box.submitted # NoName
  /\ box.answer = "none"
  /\ \/ /\ box.submitted \notin heads \union Tag
        /\ heads' = heads \union {box.submitted}
        /\ answer \in {"created", "error"}
     \/ /\ answer = "error"
        /\ UNCHANGED heads
  /\ box' = [box EXCEPT !.answer = answer]
  /\ UNCHANGED <<project, others, lost, picker, job, loaded>>

\* Mutant: an error is shown, and the name taken.
Accepted(answer) == TRUE

IsAccepted(answer) == answer = "created"

\* Only the first result counts: the prompt may have been answered, or hidden.
CreationEnds ==
  /\ box.answer # "none"
  /\ job' = IF IsAccepted(box.answer) /\ At("naming")
            THEN [job EXCEPT !.stage = "loading", !.ref = box.submitted] ELSE job
  /\ box' = [box EXCEPT !.submitted = NoName, !.answer = "none"]
  /\ UNCHANGED <<remote, picker, loaded>>

HideBox ==
  /\ box.open
  /\ box' = [box EXCEPT !.open = FALSE]
  /\ job' = IF At("naming") THEN NoJob ELSE job
  /\ UNCHANGED <<remote, picker, loaded>>

-----------------------------------------------------------------------------
(* deleteBranch. *)

\* The branch selected may be gone, or never have been one; then the request throws.
CheckProtected ==
  /\ At("checking")
  /\ \/ job.ref \in heads /\ Goes("confirming")
     \/ job' = NoJob
  /\ UNCHANGED <<remote, picker, box, loaded>>

ConfirmDeletion ==
  /\ At("confirming")
  /\ Goes("deleting") \/ job' = NoJob
  /\ UNCHANGED <<remote, picker, box, loaded>>

\* What is loaded then: the default branch, if it is the current one that is gone.
NextRef(deleted) == IF deleted = Current THEN DefaultName ELSE NoName

Delete ==
  /\ At("deleting")
  /\ \/ /\ job.ref \in heads
        /\ heads' = heads \ {job.ref}
        /\ job' = IF NextRef(job.ref) = NoName THEN NoJob
                  ELSE [job EXCEPT !.stage = "loading", !.ref = NextRef(job.ref)]
     \/ job' = NoJob /\ UNCHANGED heads
  /\ UNCHANGED <<project, others, lost, picker, box, loaded>>

-----------------------------------------------------------------------------
(* The load: start, with fetchRef. *)

Loads(type) ==
  /\ loaded' = [type |-> type, name |-> job.ref]
  /\ job' = NoJob

\* The user may keep the changes that a load would discard.
Keep ==
  /\ At("loading")
  /\ job' = NoJob
  /\ UNCHANGED <<remote, picker, box, loaded>>

LoadEmpty ==
  /\ At("loading")
  /\ project.empty
  /\ Loads("branch")
  /\ UNCHANGED <<remote, picker, box>>

FetchBranch ==
  /\ At("loading")
  /\ ~ project.empty
  /\ IF job.ref \in heads THEN Loads("branch")
     ELSE Goes("metadata") /\ UNCHANGED loaded
  /\ UNCHANGED <<remote, picker, box>>

\* Another error than 404 ends the load, which a reload does not survive.
FetchFails ==
  /\ At("loading") \/ At("metadata")
  /\ job' = NoJob
  /\ UNCHANGED <<remote, picker, box, loaded>>

\* A commit, a tag; a branch made meanwhile, which counts as a tag; or nothing.
FetchMetadata ==
  /\ At("metadata")
  /\ CASE job.ref = CommitName -> Loads("commit")
       [] job.ref \in Tag \union heads -> Loads("tag")
       [] OTHER -> job' = NoJob /\ UNCHANGED loaded
  /\ UNCHANGED <<remote, picker, box>>

-----------------------------------------------------------------------------

OtherCreates(name) ==
  /\ others < MaxOthers
  /\ ~ project.empty
  /\ name \in Name \ ({CommitName} \union heads \union Tag)
  /\ heads' = heads \union {name}
  /\ others' = others + 1
  /\ UNCHANGED <<project, lost, picker, box, job, loaded>>

OtherDeletes(name) ==
  /\ others < MaxOthers
  /\ name \in heads
  /\ heads' = heads \ {name}
  /\ lost' = lost \union {name}
  /\ others' = others + 1
  /\ UNCHANGED <<project, picker, box, job, loaded>>

BranchNext ==
  \/ \E command \in {"checkout", "create", "createFrom", "delete"} : Run(command)
  \/ \E text \in Text : Type(text)
  \/ Debounced \/ SearchEnds(TRUE) \/ SearchEnds(FALSE)
  \/ \E item \in Item : Accept(item)
  \/ HidePicker \/ HideBox
  \/ \E name \in Name : Submit(name) \/ OtherCreates(name) \/ OtherDeletes(name)
  \/ \E answer \in {"created", "error"} : Create(answer)
  \/ CreationEnds
  \/ CheckProtected \/ ConfirmDeletion \/ Delete
  \/ Keep \/ LoadEmpty \/ FetchBranch \/ FetchFails \/ FetchMetadata

\* Timers run out, and requests are answered or refused.
BranchFairness ==
  /\ WF_branchVars(Debounced)
  /\ WF_branchVars(SearchEnds(TRUE) \/ SearchEnds(FALSE))

BranchSpec == BranchInit /\ [][BranchNext]_branchVars /\ BranchFairness

-----------------------------------------------------------------------------
(* Properties. *)

\* What the picker lists is, in the end, for what the user has typed, or its search
\* has failed; however the answers and the typing overlap (queueAsyncCalls.ts:1-7,
\* showSearchableQuickPick.ts:38-49).
SearchCatchesUp ==
  <>[]At("picking") /\ <>[][picker'.typed = picker.typed]_picker
    => <>[](picker.shown = picker.typed)

\* A command loads a ref that there is: one that it listed, or created, or that is
\* loaded, unless somebody else has deleted it since (branchUtilities.ts:123-226).
ExistingRefIsLoaded ==
  At("loading") =>
    \/ job.ref \in heads \union lost \union {CommitName}
    \/ project.empty
    \/ job.command # "delete" /\ job.ref = Current
    \/ job.command = "delete" /\ job.ref = DefaultName

=============================================================================
