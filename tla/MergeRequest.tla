---------------------------- MODULE MergeRequest ----------------------------
(***************************************************************************)
(* What a load does when the workbench is ready (main.ts, initialize and   *)
(* initializeWithProgress): on the branch of the merge request it asks for *)
(* the changes, marks them and registers the files of the merge request's  *)
(* base; and when the first load has ended the file of the address is      *)
(* opened, or made.                                                        *)
(*                                                                         *)
(* A reload disposes what is registered and waits for nothing, so that a   *)
(* late answer registers among what the newer load has.  Session has what  *)
(* a load registers before: here it may fail in that.                      *)
(***************************************************************************)
EXTENDS Integers

CONSTANT MaxReloads  \* bound: how often the user loads another ref

ASSUME MaxReloadsAssumption == MaxReloads \in Nat

VARIABLES
  newest,      \* the load that began last
  onMr,        \* whether a load is of the merge request's branch,
  hasInit,     \* and whether its ref has the file of the address
  phase,       \* how far each load is
  files,       \* the load whose file system is registered,
  base,        \* whose provider of the base's files is,
  decorators,  \* and the loads whose decorations of the changes are
  menu,        \* the load whose changes the context of the menus names
  told,        \* the loads whose failure the user has been told of
  initFile,    \* how far openInitFile is,
  touched      \* and the load in whose file system it has made the file

mrVars ==
  <<newest, onMr, hasInit, phase, files, base, decorators, menu, told, initFile, touched>>

MrLoad == 1 .. MaxReloads + 1

NoMrLoad == 0

MergeRequestInit ==
  /\ newest = 1
  /\ onMr \in [MrLoad -> BOOLEAN] /\ hasInit \in [MrLoad -> BOOLEAN]
  /\ phase = [l \in MrLoad |-> IF l = 1 THEN "starting" ELSE "unborn"]
  /\ files = NoMrLoad /\ base = NoMrLoad /\ decorators = {} /\ menu = NoMrLoad
  /\ told = {}
  /\ initFile = "waits" /\ touched = NoMrLoad

Moves(l, to) == phase' = [phase EXCEPT ![l] = to]

\* The reload command.  The context stays as it is.
LoadAgain ==
  /\ newest <= MaxReloads
  /\ newest' = newest + 1
  /\ Moves(newest + 1, "starting")
  /\ files' = NoMrLoad /\ base' = NoMrLoad /\ decorators' = {}
  /\ UNCHANGED <<onMr, hasInit, menu, told, initFile, touched>>

\* The file system is registered, or refused because another load's is.
RegisterFiles(l) ==
  /\ phase[l] = "starting"
  /\ IF files = NoMrLoad THEN files' = l /\ Moves(l, "opening")
     ELSE Moves(l, "failed") /\ UNCHANGED files
  /\ UNCHANGED <<newest, onMr, hasInit, base, decorators, menu, told, initFile, touched>>

\* The start command fails, or what comes before the workbench is ready.
LoadFails(l) ==
  /\ phase[l] \in {"starting", "opening"}
  /\ Moves(l, "failed")
  /\ UNCHANGED <<newest, onMr, hasInit, files, base, decorators, menu, told, initFile, touched>>

\* ... which is when the changes of the merge request are asked for.
Ready(l) ==
  /\ phase[l] = "opening"
  /\ Moves(l, IF onMr[l] THEN "asking" ELSE "done")
  /\ UNCHANGED <<newest, onMr, hasInit, files, base, decorators, menu, told, initFile, touched>>

-----------------------------------------------------------------------------
(* initMergeRequestContext. *)

\* getMergeRequestChanges.
ChangesCome(l) ==
  /\ phase[l] = "asking"
  /\ Moves(l, "naming")
  /\ menu' = l
  /\ UNCHANGED <<newest, onMr, hasInit, files, base, decorators, told, initFile, touched>>

ChangesFail(l) ==
  /\ phase[l] = "asking"
  /\ Moves(l, "done")
  /\ told' = told \union {l}
  /\ UNCHANGED <<newest, onMr, hasInit, files, base, decorators, menu, initFile, touched>>

\* The first load opens the changes then, and waits for the editors.
AfterChanges(l) == IF l = 1 THEN "comparing" ELSE "done"

\* Mutant: the last one to register wins.
RegisterAnyway(l) ==
  /\ phase[l] = "naming"
  /\ decorators' = decorators \union {l}
  /\ base' = l
  /\ Moves(l, AfterChanges(l))
  /\ UNCHANGED <<newest, onMr, hasInit, files, menu, told, initFile, touched>>

\* VS Code refuses a second provider of the base; the decorations are there then.
RegisterBase(l) ==
  /\ phase[l] = "naming"
  /\ decorators' = decorators \union {l}
  /\ \/ /\ base = NoMrLoad
        /\ base' = l
        /\ Moves(l, AfterChanges(l))
        /\ UNCHANGED told
     \/ /\ base # NoMrLoad
        /\ Moves(l, "done")
        /\ told' = told \union {l}
        /\ UNCHANGED base
  /\ UNCHANGED <<newest, onMr, hasInit, files, menu, initFile, touched>>

\* compareWithMrBase, of up to ten files; all settle.
OpenChanges(l) ==
  /\ phase[l] = "comparing"
  /\ Moves(l, "done")
  /\ UNCHANGED <<newest, onMr, hasInit, files, base, decorators, menu, told, initFile, touched>>

-----------------------------------------------------------------------------
(* openInitFile, in whatever file system is registered then. *)

HasFile(l) == hasInit[l] \/ touched = l

\* Without a file system there is nothing to write to, nor if the user may not push;
\* and there may be no file in the address.
LookForInitFile ==
  /\ initFile = "waits"
  /\ phase[1] \in {"done", "failed"}
  /\ initFile' \in {"none"} \union
       IF files = NoMrLoad THEN {} ELSE IF HasFile(files) THEN {"shown"} ELSE {"missing"}
  /\ UNCHANGED <<newest, onMr, hasInit, phase, files, base, decorators, menu, told, touched>>

\* touchFile, which looks again.
TouchInitFile ==
  /\ initFile = "missing"
  /\ IF files = NoMrLoad THEN initFile' = "none" /\ UNCHANGED touched
     ELSE /\ touched' = IF HasFile(files) THEN touched ELSE files
          /\ initFile' = "shown"
  /\ UNCHANGED <<newest, onMr, hasInit, phase, files, base, decorators, menu, told>>

MergeRequestNext ==
  \/ LoadAgain
  \/ \E l \in MrLoad :
       \/ RegisterFiles(l) \/ LoadFails(l) \/ Ready(l)
       \/ ChangesCome(l) \/ ChangesFail(l) \/ RegisterBase(l) \/ OpenChanges(l)
  \/ LookForInitFile \/ TouchInitFile

MergeRequestSpec == MergeRequestInit /\ [][MergeRequestNext]_mrVars

-----------------------------------------------------------------------------
(* Properties. *)

\* When a load of the merge request's branch is done its files can be compared with
\* the base that it found, or the user has been told that they cannot; though older
\* loads register late, before it or after it (initMergeRequestContext.ts:117-146).
BaseIsOwnOrTold ==
  phase[newest] = "done" /\ onMr[newest] => base = newest \/ newest \in told

=============================================================================
