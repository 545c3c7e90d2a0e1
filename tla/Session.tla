------------------------------ MODULE Session ------------------------------
(***************************************************************************)
(* The extension in one workbench (packages/vscode-extension-web-ide).     *)
(* Every load of a ref (main.ts, initialize) makes a file system of its    *)
(* own and registers it, its commands and its source control view.  The    *)
(* reload command disposes whatever is registered, by whichever load, and  *)
(* begins another load without waiting for the ones that still run.  Each  *)
(* registers what it has left when the answers it waits for arrive.        *)
(*                                                                         *)
(* What a load does between two requests is one step.  VS Code is          *)
(* external: it refuses a second provider for a scheme and a second        *)
(* command of the same name by an exception, which ends the load.          *)
(***************************************************************************)
EXTENDS Integers

CONSTANTS
  Resource,  \* what the user can change
  MaxLoads,  \* bound: loads in one workbench
  Run,       \* bound: runs of status() for the view at once
  Command,   \* bound: commit and branch commands at once
  NotRunning

ASSUME MaxLoadsAssumption == MaxLoads \in Nat \ {0}

Load == 1 .. MaxLoads

NoLoad == 0

\* A run of the file watcher's callback, and (history) the runs of the same
\* load that began before it, and whether a later one has ended already.
StatusRun == [load : Load, status : SUBSET Resource, older : SUBSET Run, overtaken : BOOLEAN]

\* A command: a commit up to its answer, or a branch command up to loadRef,
\* in the status() of loadRef, or in the warning's dialog; and (history) what
\* was changed in the registered file system when loadRef began.
CommandRun ==
  [load : Load, stage : {"committing", "choosing", "checking", "asking"},
   status : SUBSET Resource, atRisk : SUBSET Resource]

ASSUME NotRunningAssumption == NotRunning \notin StatusRun /\ NotRunning \notin CommandRun

VARIABLES
  loads,       \* how many loads have begun
  stage,       \* how far each load is
  files,       \* the load whose file system and branch commands are registered
  scheme,      \* the load whose provider of original contents is registered
  watchers,    \* the loads whose file watcher is registered
  commitCommands,  \* the load whose commit commands are registered
  changes,     \* what status() finds in each load's file system
  debounced,   \* loads whose debounced callback waits
  runs,
  lastStatus,  \* #lastStatus of each load's view model
  hasStatus,
  prevent,     \* the page warns before it is left
  blind,       \* history: loads whose view has missed a change or lost a status
  commands

registered == <<loads, stage, files, scheme, watchers, commitCommands>>

view == <<debounced, runs, lastStatus, hasStatus, prevent, blind>>

sessionVars == <<registered, changes, view, commands>>

SessionTypeOK ==
  /\ loads \in Load
  /\ stage \in [Load -> {"unborn", "starting", "started", "opening", "ready", "failed", "refused"}]
  /\ {files, scheme, commitCommands} \subseteq Load \union {NoLoad}
  /\ watchers \subseteq Load
  /\ changes \in [Load -> SUBSET Resource]
  /\ debounced \subseteq Load
  /\ runs \in [Run -> StatusRun \union {NotRunning}]
  /\ lastStatus \in [Load -> SUBSET Resource]
  /\ hasStatus \in [Load -> BOOLEAN]
  /\ prevent \in BOOLEAN
  /\ blind \subseteq Load
  /\ commands \in [Command -> CommandRun \union {NotRunning}]

\* activate has begun the first load.
SessionInit ==
  /\ loads = 1
  /\ stage = [l \in Load |-> IF l = 1 THEN "starting" ELSE "unborn"]
  /\ files = NoLoad /\ scheme = NoLoad /\ watchers = {} /\ commitCommands = NoLoad
  /\ changes = [l \in Load |-> {}]
  /\ debounced = {}
  /\ runs = [k \in Run |-> NotRunning]
  /\ lastStatus = [l \in Load |-> {}]
  /\ hasStatus = [l \in Load |-> FALSE]
  /\ prevent = FALSE
  /\ blind = {}
  /\ commands = [c \in Command |-> NotRunning]

-----------------------------------------------------------------------------
(* Loads. *)

\* The reload command: dispose everything, begin again.
ReloadWorkbench ==
  /\ loads < MaxLoads
  /\ loads' = loads + 1
  /\ stage' = [stage EXCEPT ![loads + 1] = "starting"]
  /\ files' = NoLoad /\ scheme' = NoLoad /\ watchers' = {} /\ commitCommands' = NoLoad

\* Mutant: the last one to register wins.
StartAnyway(l) ==
  /\ stage[l] = "starting"
  /\ files' = l
  /\ stage' = [stage EXCEPT ![l] = "started"]
  /\ UNCHANGED <<loads, scheme, watchers, commitCommands, changes, view, commands>>

\* The start command answers: the file system provider is registered, unless
\* another load's is, and the branch commands.
Start(l) ==
  /\ stage[l] = "starting"
  /\ \/ /\ files = NoLoad
        /\ files' = l
        /\ stage' = [stage EXCEPT ![l] = "started"]
     \/ /\ files # NoLoad
        /\ stage' = [stage EXCEPT ![l] = "refused"]
        /\ UNCHANGED files
  /\ UNCHANGED <<loads, scheme, watchers, commitCommands, changes, view, commands>>

\* The start command fails.
StartFails(l) ==
  /\ stage[l] = "starting"
  /\ stage' = [stage EXCEPT ![l] = "failed"]
  /\ UNCHANGED <<loads, files, scheme, watchers, commitCommands, changes, view, commands>>

\* Mutant: a load that is refused takes back what it has registered.
OpenViewOrGiveUp(l) ==
  /\ stage[l] = "started"
  /\ \/ /\ scheme = NoLoad
        /\ scheme' = l
        /\ stage' = [stage EXCEPT ![l] = "opening"]
        /\ prevent' = FALSE
        /\ UNCHANGED files
     \/ /\ scheme # NoLoad
        /\ stage' = [stage EXCEPT ![l] = "refused"]
        /\ files' = NoLoad
        /\ UNCHANGED <<scheme, prevent>>
  /\ UNCHANGED <<loads, watchers, commitCommands, changes, debounced, runs, lastStatus, hasStatus,
                 blind, commands>>

\* getConfig answers: the provider of original contents is registered, unless
\* another load's is, the view model is made, and the page's warning is off.
OpenView(l) ==
  /\ stage[l] = "started"
  /\ \/ /\ scheme = NoLoad
        /\ scheme' = l
        /\ stage' = [stage EXCEPT ![l] = "opening"]
        /\ prevent' = FALSE
     \/ /\ scheme # NoLoad
        /\ stage' = [stage EXCEPT ![l] = "refused"]
        /\ UNCHANGED <<scheme, prevent>>
  /\ UNCHANGED
       <<loads, files, watchers, commitCommands, changes, debounced, runs, lastStatus, hasStatus,
         blind, commands>>

\* preventUnload answers: the watcher is registered, and the commit commands,
\* unless another load's are.
Watch(l) ==
  /\ stage[l] = "opening"
  /\ watchers' = watchers \union {l}
  /\ \/ /\ commitCommands = NoLoad
        /\ commitCommands' = l
        /\ stage' = [stage EXCEPT ![l] = "ready"]
     \/ /\ commitCommands # NoLoad
        /\ stage' = [stage EXCEPT ![l] = "refused"]
        /\ UNCHANGED commitCommands
  /\ UNCHANGED <<loads, files, scheme, changes, view, commands>>

-----------------------------------------------------------------------------
(* Changes and the source control view. *)

\* The user changes a file of the registered file system, or restores it.  The
\* watchers that are registered hear of it, by whichever load.
ChangeFile(f) ==
  /\ files # NoLoad
  /\ \E status \in {changes[files] \union {f}, changes[files] \ {f}} :
       /\ status # changes[files]
       /\ changes' = [changes EXCEPT ![files] = status]
  /\ debounced' = debounced \union watchers
  /\ blind' = IF files \in watchers THEN blind ELSE blind \union {files}
  /\ UNCHANGED <<registered, runs, lastStatus, hasStatus, prevent, commands>>

\* Mutant: a callback that finds another one under way leaves it to that.
BeginStatusUnlessBusy(l, k) ==
  /\ l \in debounced /\ runs[k] = NotRunning
  /\ debounced' = debounced \ {l}
  /\ runs' = IF \E j \in Run : runs[j] # NotRunning /\ runs[j].load = l THEN runs
             ELSE [runs EXCEPT ![k] =
                    [load |-> l, status |-> changes[l], overtaken |-> FALSE, older |-> {}]]
  /\ UNCHANGED <<registered, changes, lastStatus, hasStatus, prevent, blind, commands>>

\* The debounced callback: status() reads what the load's file system holds,
\* and then fetches the repository's contents to compare.
BeginStatus(l, k) ==
  /\ l \in debounced /\ runs[k] = NotRunning
  /\ debounced' = debounced \ {l}
  /\ runs' = [runs EXCEPT ![k] =
       [load |-> l, status |-> changes[l], overtaken |-> FALSE,
        older |-> {j \in Run : runs[j] # NotRunning /\ runs[j].load = l}]]
  /\ UNCHANGED <<registered, changes, lastStatus, hasStatus, prevent, blind, commands>>

\* The runs without k, which the ones older than k are too late for.
Without(k) ==
  [j \in Run |->
    IF j = k \/ runs[j] = NotRunning THEN NotRunning
    ELSE [runs[j] EXCEPT !.overtaken = @ \/ j \in runs[k].older, !.older = @ \ {k}]]

\* The callback goes on, whether its load is registered still or not.
EndStatus(k) ==
  /\ runs[k] # NotRunning
  /\ LET l == runs[k].load
         newHasStatus == runs[k].status # {}
     IN  /\ runs' = Without(k)
         /\ blind' = IF runs[k].overtaken THEN blind \union {l} ELSE blind \ {l}
         /\ lastStatus' = [lastStatus EXCEPT ![l] = runs[k].status]
         /\ hasStatus' = [hasStatus EXCEPT ![l] = newHasStatus]
         /\ prevent' = IF newHasStatus # hasStatus[l] THEN newHasStatus ELSE prevent
  /\ UNCHANGED <<registered, changes, debounced, commands>>

\* A content cannot be fetched.
StatusFails(k) ==
  /\ runs[k] # NotRunning
  /\ runs' = Without(k)
  /\ blind' = blind \union {runs[k].load}
  /\ UNCHANGED <<registered, changes, debounced, lastStatus, hasStatus, prevent, commands>>

-----------------------------------------------------------------------------
(* Commands.  One that has begun goes on when its load is disposed. *)

\* Commit, of what the view shows (the payload is left out); an amending one
\* needs only a message.
BeginCommit(c) ==
  /\ commands[c] = NotRunning /\ commitCommands # NoLoad
  /\ \E amend \in BOOLEAN : amend \/ lastStatus[commitCommands] # {}
  /\ commands' = [commands EXCEPT ![c] =
       [load |-> commitCommands, stage |-> "committing", status |-> {}, atRisk |-> {}]]
  /\ UNCHANGED <<registered, changes, view>>

EndCommit(c) ==
  /\ commands[c] # NotRunning /\ commands[c].stage = "committing"
  /\ commands' = [commands EXCEPT ![c] = NotRunning]
  /\ ReloadWorkbench
  /\ UNCHANGED <<changes, view>>

\* Checkout, creation or deletion of a branch, up to loadRef.
BeginBranch(c) ==
  /\ commands[c] = NotRunning /\ files # NoLoad
  /\ commands' = [commands EXCEPT ![c] =
       [load |-> files, stage |-> "choosing", status |-> {}, atRisk |-> {}]]
  /\ UNCHANGED <<registered, changes, view>>

\* loadRef asks for the status of the load the command was registered by.
BeginLoadRef(c) ==
  /\ commands[c] # NotRunning /\ commands[c].stage = "choosing"
  /\ commands' = [commands EXCEPT ![c] =
       [@ EXCEPT !.stage = "checking", !.status = changes[commands[c].load],
                 !.atRisk = IF files = NoLoad THEN {} ELSE changes[files]]]
  /\ UNCHANGED <<registered, changes, view>>

\* No changes: reload.
LoadRefUnasked(c) ==
  /\ commands[c] # NotRunning /\ commands[c].stage = "checking" /\ commands[c].status = {}
  /\ commands' = [commands EXCEPT ![c] = NotRunning]
  /\ ReloadWorkbench
  /\ UNCHANGED <<changes, view>>

\* Changes: ask first, by a command that must be registered.
AskBeforeReload(c) ==
  /\ commands[c] # NotRunning /\ commands[c].stage = "checking" /\ commands[c].status # {}
  /\ files # NoLoad
  /\ commands' = [commands EXCEPT ![c] = [@ EXCEPT !.stage = "asking", !.status = {}, !.atRisk = {}]]
  /\ UNCHANGED <<registered, changes, view>>

ReloadWithWarning(c) ==
  /\ commands[c] # NotRunning /\ commands[c].stage = "asking"
  /\ commands' = [commands EXCEPT ![c] = NotRunning]
  /\ ReloadWorkbench
  /\ UNCHANGED <<changes, view>>

\* The user cancels, a request fails, or the warning is not registered.
EndCommand(c) ==
  /\ commands[c] # NotRunning
  /\ commands' = [commands EXCEPT ![c] = NotRunning]
  /\ UNCHANGED <<registered, changes, view>>

SessionNext ==
  \/ \E l \in Load : Start(l) \/ StartFails(l) \/ OpenView(l) \/ Watch(l)
  \/ \E f \in Resource : ChangeFile(f)
  \/ \E l \in Load, k \in Run : BeginStatus(l, k)
  \/ \E k \in Run : EndStatus(k) \/ StatusFails(k)
  \/ \E c \in Command :
       \/ BeginCommit(c) \/ EndCommit(c)
       \/ BeginBranch(c) \/ BeginLoadRef(c) \/ LoadRefUnasked(c)
       \/ AskBeforeReload(c) \/ ReloadWithWarning(c) \/ EndCommand(c)

SessionSpec == SessionInit /\ [][SessionNext]_sessionVars

-----------------------------------------------------------------------------
(* Properties. *)

\* However loads overlap, the newest, if it is ready, has registered all that
\* is one's alone: an older load's file system or commands are never mixed with
\* it (main.ts:73-153).
NewestOwnsAll ==
  /\ stage[loads] \in {"started", "opening", "ready"} => files = loads
  /\ stage[loads] \in {"opening", "ready"} => scheme = loads
  /\ stage[loads] = "ready" => commitCommands = loads

\* When every load has come to its end the workbench has a file system and can
\* commit, by one load or by several, unless the newest could not start: loads
\* that refuse each other never leave it with neither (reload.ts:45-49,
\* main.ts:106-135).
WorkbenchIsUsable ==
  (\A l \in 1 .. loads : stage[l] \in {"ready", "failed", "refused"}) =>
    \/ stage[loads] = "failed"
    \/ files # NoLoad /\ commitCommands # NoLoad /\ watchers # {}

Quiet(l) == l \notin debounced /\ \A k \in Run : runs[k] # NotRunning => runs[k].load # l

\* When its updates have ended, a view shows what has changed; unless a file
\* changed before there was a watcher, or a run of status() failed or was
\* overtaken by a later one (scm/index.ts:83-95).
ViewFollowsChanges ==
  \A l \in Load : files = l /\ l \in watchers /\ l \notin blind /\ Quiet(l) =>
    /\ lastStatus[l] = changes[l]
    /\ hasStatus[l] <=> changes[l] # {}

\* "should show confirmation dialog when uncommitted changes would be lost"
\* (commands/branchUtilities.test.ts:266): a change that was there when loadRef
\* began to look is not discarded unasked.
LossIsConfirmed ==
  [][\A c \in Command : LoadRefUnasked(c) =>
       files = NoLoad \/ commands[c].atRisk \cap changes[files] = {}]_sessionVars

=============================================================================
