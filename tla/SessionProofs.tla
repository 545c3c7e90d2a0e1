--------------------------- MODULE SessionProofs ---------------------------
(***************************************************************************)
(* Proofs about the loads of the extension, for any number of loads, runs  *)
(* of status(), commands and files.                                        *)
(***************************************************************************)
EXTENDS Session, TLAPS

\* What is registered, and by which load.  Whoever registered the file system
\* since the last reload comes to open its view, or finds one there; and whoever
\* opened one comes to watch, or finds commands there.
Registration ==
  /\ \A l \in Load : stage[l] = "unborn" <=> l > loads
  /\ NewestOwnsAll
  /\ stage[loads] = "refused" => files # NoLoad
  /\ files # NoLoad =>
       /\ stage[files] \in {"started", "opening", "ready", "refused"}
       /\ stage[files] # "started" => scheme # NoLoad
  /\ scheme # NoLoad =>
       /\ stage[scheme] \in {"opening", "ready", "refused"}
       /\ stage[scheme] # "opening" => commitCommands # NoLoad
  /\ commitCommands # NoLoad => commitCommands \in watchers

\* The runs of one load are ordered by their beginnings.
RunsAreOrdered ==
  \A j, k \in Run : runs[k] # NotRunning /\ j \in runs[k].older =>
    /\ j # k /\ runs[j] # NotRunning /\ runs[j].load = runs[k].load
    /\ runs[j].older \subseteq runs[k].older

\* A run that has read what is there now, and that nothing has overtaken.
Current(k, l) ==
  runs[k] # NotRunning /\ runs[k].load = l /\ ~runs[k].overtaken /\ runs[k].status = changes[l]

\* The view of a load either knows or will know what is there now, and no run
\* that is behind a current one ends after it unnoticed.
ViewCatchesUp ==
  \A l \in Load : files = l /\ l \in watchers /\ l \notin debounced =>
    /\ l \notin blind => lastStatus[l] = changes[l] \/ \E k \in Run : Current(k, l)
    /\ \A j \in Run : runs[j] # NotRunning /\ runs[j].load = l /\ ~runs[j].overtaken =>
         Current(j, l) \/ \E k \in Run : Current(k, l) /\ j \in runs[k].older

\* The stages before a load watches.
Early == {"unborn", "starting", "started", "opening"}

\* Before it watches a load has seen nothing.
NothingSeenYet ==
  \A l \in Load : stage[l] \in Early =>
    /\ l \notin watchers /\ lastStatus[l] = {} /\ l \notin debounced
    /\ \A k \in Run : runs[k] # NotRunning => runs[k].load # l
    /\ l \notin blind => changes[l] = {}

ViewInvariant ==
  /\ RunsAreOrdered
  /\ ViewCatchesUp
  /\ NothingSeenYet
  /\ \A l \in Load : hasStatus[l] <=> lastStatus[l] # {}

-----------------------------------------------------------------------------
(* Types. *)

LEMMA ReloadTyping ==
  ASSUME SessionTypeOK, ReloadWorkbench
  PROVE  /\ loads' \in Load /\ {files', scheme', commitCommands'} \subseteq Load \union {NoLoad} /\ watchers' \subseteq Load
         /\ stage' \in [Load -> {"unborn", "starting", "started", "opening", "ready", "failed", "refused"}]
BY MaxLoadsAssumption DEF SessionTypeOK, ReloadWorkbench, Load

LEMMA WithoutTyping ==
  ASSUME SessionTypeOK, NEW k \in Run
  PROVE  Without(k) \in [Run -> StatusRun \union {NotRunning}]
<1> SUFFICES ASSUME NEW j \in Run, j # k, runs[j] # NotRunning
             PROVE  [runs[j] EXCEPT !.overtaken = @ \/ j \in runs[k].older, !.older = @ \ {k}]
                      \in StatusRun
  BY DEF Without
<1>1. runs[j] \in StatusRun
  BY DEF SessionTypeOK
<1>2. (runs[j].overtaken \/ j \in runs[k].older) \in BOOLEAN
  BY <1>1 DEF StatusRun
<1> QED
  BY <1>1, <1>2 DEF StatusRun

LEMMA Typing == SessionTypeOK /\ [SessionNext]_sessionVars => SessionTypeOK'
<1> SUFFICES ASSUME SessionTypeOK, [SessionNext]_sessionVars PROVE SessionTypeOK'
  OBVIOUS
<1>1. ASSUME NEW l \in Load, Start(l) \/ StartFails(l) \/ OpenView(l) \/ Watch(l) PROVE SessionTypeOK'
  <2>1. CASE Start(l)
    BY <2>1 DEF Start, SessionTypeOK, view
  <2>2. CASE StartFails(l)
    BY <2>2 DEF StartFails, SessionTypeOK, view
  <2>3. CASE OpenView(l)
    BY <2>3 DEF OpenView, SessionTypeOK, view
  <2>4. CASE Watch(l)
    BY <2>4 DEF Watch, SessionTypeOK, view
  <2> QED
    BY <1>1, <2>1, <2>2, <2>3, <2>4
<1>2. ASSUME NEW f \in Resource, ChangeFile(f) PROVE SessionTypeOK'
  <2>1. files \in Load
    BY <1>2 DEF ChangeFile, SessionTypeOK
  <2> QED
    BY <1>2, <2>1 DEF ChangeFile, SessionTypeOK, registered
<1>3. ASSUME NEW l \in Load, NEW k \in Run, BeginStatus(l, k) PROVE SessionTypeOK'
  <2>1. [load |-> l, status |-> changes[l], overtaken |-> FALSE,
         older |-> {j \in Run : runs[j] # NotRunning /\ runs[j].load = l}] \in StatusRun
    BY DEF StatusRun, SessionTypeOK
  <2> QED
    BY <1>3, <2>1 DEF BeginStatus, SessionTypeOK, registered
<1>4. ASSUME NEW k \in Run, EndStatus(k) \/ StatusFails(k) PROVE SessionTypeOK'
  <2>1. runs[k] \in StatusRun /\ Without(k) \in [Run -> StatusRun \union {NotRunning}]
    BY <1>4, WithoutTyping DEF EndStatus, StatusFails, SessionTypeOK
  <2>2. runs[k].load \in Load /\ runs[k].status \in SUBSET Resource /\ (runs[k].status # {}) \in BOOLEAN
    BY <2>1 DEF StatusRun
  <2>3. CASE EndStatus(k)
    BY <2>1, <2>2, <2>3 DEF EndStatus, SessionTypeOK, registered
  <2>4. CASE StatusFails(k)
    BY <2>1, <2>2, <2>4 DEF StatusFails, SessionTypeOK, registered
  <2> QED
    BY <1>4, <2>3, <2>4
<1>5. ASSUME NEW c \in Command,
             EndCommit(c) \/ LoadRefUnasked(c) \/ ReloadWithWarning(c)
      PROVE SessionTypeOK'
  BY <1>5, ReloadTyping DEF EndCommit, LoadRefUnasked, ReloadWithWarning, SessionTypeOK, view
<1>6. ASSUME NEW c \in Command, BeginCommit(c) \/ BeginBranch(c) PROVE SessionTypeOK'
  BY <1>6 DEF BeginCommit, BeginBranch, CommandRun, SessionTypeOK, registered, view
<1>7. ASSUME NEW c \in Command, BeginLoadRef(c) PROVE SessionTypeOK'
  <2>1. commands[c] \in CommandRun
    BY <1>7 DEF BeginLoadRef, SessionTypeOK
  <2>2. (IF files = NoLoad THEN {} ELSE changes[files]) \in SUBSET Resource
        /\ changes[commands[c].load] \in SUBSET Resource
    BY <2>1 DEF SessionTypeOK, CommandRun
  <2>3. commands'[c] \in CommandRun /\ commands' \in [Command -> CommandRun \union {NotRunning}]
    BY <1>7, <2>1, <2>2 DEF BeginLoadRef, SessionTypeOK, CommandRun
  <2> QED
    BY <1>7, <2>3 DEF BeginLoadRef, SessionTypeOK, registered, view
<1>8. ASSUME NEW c \in Command, AskBeforeReload(c) PROVE SessionTypeOK'
  <2>1. commands[c] \in CommandRun
    BY <1>8 DEF AskBeforeReload, SessionTypeOK
  <2>2. commands' \in [Command -> CommandRun \union {NotRunning}]
    BY <1>8, <2>1 DEF AskBeforeReload, SessionTypeOK, CommandRun
  <2> QED
    BY <1>8, <2>2 DEF AskBeforeReload, SessionTypeOK, registered, view
<1>9. ASSUME NEW c \in Command, EndCommand(c) PROVE SessionTypeOK'
  BY <1>9 DEF EndCommand, SessionTypeOK, registered, view
<1>10. CASE UNCHANGED sessionVars
  BY <1>10 DEF sessionVars, registered, view, SessionTypeOK
<1> QED
  BY <1>1, <1>2, <1>3, <1>4, <1>5, <1>6, <1>7, <1>8, <1>9, <1>10 DEF SessionNext

LEMMA InitTyping == SessionInit => SessionTypeOK
<1> SUFFICES ASSUME SessionInit PROVE SessionTypeOK
  OBVIOUS
<1>1. 1 \in Load
  BY MaxLoadsAssumption DEF Load
<1>2. /\ stage \in [Load -> {"unborn", "starting", "started", "opening", "ready", "failed", "refused"}]
      /\ changes \in [Load -> SUBSET Resource] /\ lastStatus \in [Load -> SUBSET Resource]
      /\ hasStatus \in [Load -> BOOLEAN]
  BY DEF SessionInit
<1>3. runs \in [Run -> StatusRun \union {NotRunning}] /\ commands \in [Command -> CommandRun \union {NotRunning}]
  BY DEF SessionInit
<1> QED
  BY <1>1, <1>2, <1>3 DEF SessionInit, SessionTypeOK

\* Every variable keeps its type.
THEOREM TypeCorrect == SessionSpec => []SessionTypeOK
BY InitTyping, Typing, PTL DEF SessionSpec

-----------------------------------------------------------------------------
(* What is registered. *)

LEMMA LoadFacts ==
  /\ 1 \in Load /\ NoLoad \notin Load
  /\ \A l \in Load : l \in Int
  /\ \A l \in Load : l < MaxLoads => l + 1 \in Load
BY MaxLoadsAssumption DEF Load, NoLoad

LEMMA InitRegistration == SessionInit => Registration
BY LoadFacts DEF SessionInit, Registration, NewestOwnsAll, Load

LEMMA ReloadRegistration ==
  ASSUME SessionTypeOK, Registration, ReloadWorkbench
  PROVE  Registration'
<1>1. loads + 1 \in Load /\ loads \in Int
  BY LoadFacts DEF SessionTypeOK, ReloadWorkbench
<1>2. stage'[loads'] = "starting"
  BY <1>1 DEF ReloadWorkbench, SessionTypeOK
<1>3. ASSUME NEW l \in Load PROVE stage'[l] = "unborn" <=> l > loads'
  BY <1>1, <1>3, LoadFacts DEF ReloadWorkbench, SessionTypeOK, Registration
<1> QED
  BY <1>2, <1>3 DEF ReloadWorkbench, Registration, NewestOwnsAll

LEMMA RegistrationStep == SessionTypeOK /\ Registration /\ [SessionNext]_sessionVars => Registration'
<1> SUFFICES ASSUME SessionTypeOK, Registration, [SessionNext]_sessionVars PROVE Registration'
  OBVIOUS
<1>1. ASSUME NEW l \in Load, Start(l) PROVE Registration'
  BY <1>1, LoadFacts DEF Start, Registration, NewestOwnsAll, SessionTypeOK
<1>2. ASSUME NEW l \in Load, StartFails(l) PROVE Registration'
  BY <1>2, LoadFacts DEF StartFails, Registration, NewestOwnsAll, SessionTypeOK
<1>3. ASSUME NEW l \in Load, OpenView(l) PROVE Registration'
  BY <1>3, LoadFacts DEF OpenView, Registration, NewestOwnsAll, SessionTypeOK
<1>7. ASSUME NEW l \in Load, Watch(l) PROVE Registration'
  BY <1>7, LoadFacts DEF Watch, Registration, NewestOwnsAll, SessionTypeOK
<1>4. ASSUME UNCHANGED registered PROVE Registration'
  BY <1>4 DEF registered, Registration, NewestOwnsAll
<1>5. ASSUME NEW c \in Command,
             EndCommit(c) \/ LoadRefUnasked(c) \/ ReloadWithWarning(c)
      PROVE Registration'
  BY <1>5, ReloadRegistration DEF EndCommit, LoadRefUnasked, ReloadWithWarning
<1>6. \/ \E l \in Load : Start(l) \/ StartFails(l) \/ OpenView(l) \/ Watch(l)
      \/ \E c \in Command : EndCommit(c) \/ LoadRefUnasked(c) \/ ReloadWithWarning(c)
      \/ UNCHANGED registered
  BY DEF SessionNext, sessionVars, ChangeFile, BeginStatus, EndStatus, StatusFails, BeginCommit, BeginBranch,
         BeginLoadRef, AskBeforeReload, EndCommand
<1> QED
  BY <1>1, <1>2, <1>3, <1>4, <1>5, <1>6, <1>7

\* Nothing of an older load is mixed with the newest one that is ready.
THEOREM NewestOwnsAllAlways == SessionSpec => []NewestOwnsAll
<1>1. SessionInit => SessionTypeOK /\ Registration
  BY InitTyping, InitRegistration
<1>2. SessionTypeOK /\ Registration /\ [SessionNext]_sessionVars => (SessionTypeOK /\ Registration)'
  BY Typing, RegistrationStep
<1>3. Registration => NewestOwnsAll
  BY DEF Registration
<1> QED
  BY <1>1, <1>2, <1>3, PTL DEF SessionSpec

\* Loads that refuse each other leave a file system, a watcher and commands.
THEOREM WorkbenchStaysUsable == SessionSpec => []WorkbenchIsUsable
<1>1. SessionInit => SessionTypeOK /\ Registration
  BY InitTyping, InitRegistration
<1>2. SessionTypeOK /\ Registration /\ [SessionNext]_sessionVars => (SessionTypeOK /\ Registration)'
  BY Typing, RegistrationStep
<1>3. SessionTypeOK /\ Registration => WorkbenchIsUsable
  <2> SUFFICES ASSUME SessionTypeOK, Registration,
                      \A l \in 1 .. loads : stage[l] \in {"ready", "failed", "refused"},
                      stage[loads] # "failed"
               PROVE  files # NoLoad /\ commitCommands # NoLoad /\ watchers # {}
    BY DEF WorkbenchIsUsable
  \* A load that has begun has ended, so none is on its way.
  <2>1. ASSUME NEW l \in Load, stage[l] # "unborn" PROVE stage[l] \notin {"started", "opening"}
    <3>1. l \in 1 .. loads
      BY <2>1 DEF SessionTypeOK, Registration, Load
    <3> QED
      BY <3>1
  <2>2. loads \in 1 .. loads /\ loads # NoLoad
    BY DEF SessionTypeOK, Load, NoLoad
  <2>3. files # NoLoad
    BY <2>2 DEF Registration, NewestOwnsAll
  <2>4. scheme # NoLoad
    BY <2>1, <2>3 DEF SessionTypeOK, Registration
  <2>5. commitCommands # NoLoad
    BY <2>1, <2>4 DEF SessionTypeOK, Registration
  <2> QED
    BY <2>3, <2>5 DEF Registration
<1> QED
  BY <1>1, <1>2, <1>3, PTL DEF SessionSpec

-----------------------------------------------------------------------------
(* What the view shows. *)

\* The end of a run leaves the other ones, less the one that has ended.
LEMMA WithoutEffect ==
  ASSUME SessionTypeOK, NEW k \in Run, runs' = Without(k)
  PROVE  /\ runs'[k] = NotRunning
         /\ \A j \in Run : j # k => (runs'[j] = NotRunning <=> runs[j] = NotRunning)
         /\ \A j \in Run : j # k /\ runs[j] # NotRunning =>
              /\ runs'[j].load = runs[j].load /\ runs'[j].status = runs[j].status
              /\ runs'[j].older = runs[j].older \ {k}
              /\ runs'[j].overtaken <=> runs[j].overtaken \/ j \in runs[k].older
<1>1. ASSUME NEW j \in Run, j # k, runs[j] # NotRunning
      PROVE  /\ runs'[j] = [runs[j] EXCEPT !.overtaken = @ \/ j \in runs[k].older, !.older = @ \ {k}]
             /\ runs'[j] \in StatusRun /\ runs[j] \in StatusRun
  <2>1. runs[j] \in StatusRun
    BY <1>1 DEF SessionTypeOK
  <2>2. runs'[j] = [runs[j] EXCEPT !.overtaken = @ \/ j \in runs[k].older, !.older = @ \ {k}]
    BY <1>1 DEF Without
  <2>3. runs'[j] \in StatusRun
    BY <2>1, <2>2 DEF StatusRun
  <2> QED
    BY <2>1, <2>2, <2>3
<1>2. ASSUME NEW j \in Run, j # k, runs[j] # NotRunning
      PROVE  /\ runs'[j] # NotRunning
             /\ runs'[j].load = runs[j].load /\ runs'[j].status = runs[j].status
             /\ runs'[j].older = runs[j].older \ {k}
             /\ runs'[j].overtaken <=> runs[j].overtaken \/ j \in runs[k].older
  BY <1>1, <1>2, NotRunningAssumption DEF StatusRun
<1>3. runs'[k] = NotRunning /\ \A j \in Run : j # k /\ runs[j] = NotRunning => runs'[j] = NotRunning
  BY DEF Without
<1> QED
  BY <1>2, <1>3

LEMMA InitView == SessionInit => ViewInvariant
BY LoadFacts DEF SessionInit, ViewInvariant, RunsAreOrdered, ViewCatchesUp, NothingSeenYet, NoLoad

\* Steps that leave the runs and what they read alone.
LEMMA OtherStepsKeepView ==
  ASSUME SessionTypeOK, Registration, ViewInvariant,
         UNCHANGED <<changes, runs, debounced, lastStatus, hasStatus, blind>>,
         \A l \in Load : stage'[l] \in Early =>
           stage[l] \in Early /\ (l \in watchers' => l \in watchers),
         \A l \in Load : files' = l /\ l \in watchers' =>
           (files = l /\ l \in watchers) \/ stage[l] \in Early
  PROVE  ViewInvariant'
<1>1. RunsAreOrdered'
  BY DEF ViewInvariant, RunsAreOrdered
<1>2. NothingSeenYet'
  BY DEF ViewInvariant, NothingSeenYet
<1>3. ViewCatchesUp'
  <2>1. \A k \in Run, l \in Load : Current(k, l)' <=> Current(k, l)
    BY DEF Current
  <2> SUFFICES ASSUME NEW l \in Load, files' = l, l \in watchers', l \notin debounced
               PROVE  /\ l \notin blind => lastStatus[l] = changes[l] \/ \E k \in Run : Current(k, l)
                      /\ \A j \in Run : runs[j] # NotRunning /\ runs[j].load = l /\ ~runs[j].overtaken =>
                           Current(j, l) \/ \E k \in Run : Current(k, l) /\ j \in runs[k].older
    BY <2>1 DEF ViewCatchesUp
  <2>2. CASE files = l /\ l \in watchers
    BY <2>2 DEF ViewInvariant, ViewCatchesUp
  <2>3. CASE stage[l] \in Early
    BY <2>3 DEF ViewInvariant, NothingSeenYet
  <2> QED
    BY <2>2, <2>3
<1> QED
  BY <1>1, <1>2, <1>3 DEF ViewInvariant

\* A change: the view of the load, if it has one, will look again.
LEMMA EditKeepsView ==
  ASSUME SessionTypeOK, Registration, ViewInvariant, NEW f \in Resource, ChangeFile(f)
  PROVE  ViewInvariant'
<1>1. RunsAreOrdered'
  BY DEF ChangeFile, ViewInvariant, RunsAreOrdered
<1>2. files \in Load /\ \A l \in Load : l # files => changes'[l] = changes[l]
  BY DEF ChangeFile, SessionTypeOK
<1>3. NothingSeenYet'
  BY <1>2 DEF ChangeFile, ViewInvariant, NothingSeenYet, registered, Registration
<1>4. ViewCatchesUp'
  <2> SUFFICES ASSUME NEW l \in Load, files' = l, l \in watchers', l \notin debounced' PROVE FALSE
    BY DEF ViewCatchesUp
  <2> QED
    BY LoadFacts DEF ChangeFile, registered
<1> QED
  BY <1>1, <1>3, <1>4 DEF ChangeFile, ViewInvariant

\* A run that begins is current, and all others are older.
LEMMA BeginKeepsView ==
  ASSUME SessionTypeOK, Registration, ViewInvariant, NEW l \in Load, NEW k \in Run, BeginStatus(l, k)
  PROVE  ViewInvariant'
<1> DEFINE run == [load |-> l, status |-> changes[l], overtaken |-> FALSE,
                   older |-> {j \in Run : runs[j] # NotRunning /\ runs[j].load = l}]
<1>1. run \in StatusRun /\ run # NotRunning
  <2>1. changes[l] \subseteq Resource
    BY DEF SessionTypeOK
  <2>2. run \in StatusRun
    BY <2>1 DEF StatusRun
  <2> QED
    BY <2>2, NotRunningAssumption
<1>2. runs'[k] = run /\ \A j \in Run : j # k => runs'[j] = runs[j]
  BY DEF BeginStatus, SessionTypeOK
<1>3. runs[k] = NotRunning /\ \A j \in Run : runs[j] # NotRunning => k \notin runs[j].older
  BY DEF BeginStatus, ViewInvariant, RunsAreOrdered
<1>4. RunsAreOrdered'
  <2> SUFFICES ASSUME NEW i \in Run, NEW j \in Run, runs'[j] # NotRunning, i \in runs'[j].older
               PROVE  /\ i # j /\ runs'[i] # NotRunning /\ runs'[i].load = runs'[j].load
                      /\ runs'[i].older \subseteq runs'[j].older
    BY DEF RunsAreOrdered
  <2>1. CASE j = k
    <3>1. runs[i] # NotRunning /\ runs[i].load = l /\ i # k /\ runs'[i] = runs[i]
      BY <1>2, <1>3, <2>1
    <3>2. runs[i].older \subseteq run.older
      <4>1. runs[i].older \subseteq Run
        BY <3>1 DEF SessionTypeOK, StatusRun
      <4> QED
        BY <3>1, <4>1 DEF ViewInvariant, RunsAreOrdered
    <3> QED
      BY <1>2, <2>1, <3>1, <3>2
  <2>2. CASE j # k
    BY <1>2, <1>3, <2>2 DEF ViewInvariant, RunsAreOrdered
  <2> QED
    BY <2>1, <2>2
<1>5. NothingSeenYet'
  BY <1>2 DEF BeginStatus, ViewInvariant, NothingSeenYet, registered
<1>6. ViewCatchesUp'
  <2> SUFFICES ASSUME NEW m \in Load, files = m, m \in watchers, m \notin debounced'
               PROVE  /\ m \notin blind =>
                           lastStatus[m] = changes[m] \/ \E j \in Run : Current(j, m)'
                      /\ \A j \in Run : runs'[j] # NotRunning /\ runs'[j].load = m /\ ~runs'[j].overtaken =>
                           Current(j, m)' \/ \E i \in Run : Current(i, m)' /\ j \in runs'[i].older
    BY DEF ViewCatchesUp, BeginStatus, registered
  <2>1. CASE m = l
    <3>1. Current(k, l)'
      BY <1>1, <1>2 DEF Current, BeginStatus
    <3>2. \A j \in Run : j # k /\ runs'[j] # NotRunning /\ runs'[j].load = l => j \in runs'[k].older
      BY <1>2
    <3> QED
      BY <2>1, <3>1, <3>2
  <2>2. CASE m # l
    <3>1. m \notin debounced
      BY <2>2 DEF BeginStatus
    <3>2. \A j \in Run : Current(j, m) => Current(j, m)' /\ runs'[j] = runs[j]
      BY <1>2, <1>3 DEF Current, BeginStatus
    <3>3. \A j \in Run : runs'[j] # NotRunning /\ runs'[j].load = m => runs'[j] = runs[j]
      BY <1>2, <2>2
    <3> QED
      BY <3>1, <3>2, <3>3 DEF ViewInvariant, ViewCatchesUp
  <2> QED
    BY <2>1, <2>2
<1> QED
  BY <1>4, <1>5, <1>6 DEF BeginStatus, ViewInvariant

\* A run that ends, well or not, marks the older ones; if it was current, or
\* is the last to know, the view shows what is there, or is blind.
LEMMA EndKeepsView ==
  ASSUME SessionTypeOK, Registration, ViewInvariant, NEW k \in Run, EndStatus(k) \/ StatusFails(k)
  PROVE  ViewInvariant'
<1>1. runs[k] # NotRunning /\ runs[k] \in StatusRun /\ runs' = Without(k)
      /\ UNCHANGED <<registered, changes, debounced>>
  BY DEF EndStatus, StatusFails, SessionTypeOK
<1>2. /\ runs'[k] = NotRunning
      /\ \A j \in Run : runs'[j] # NotRunning =>
           /\ j # k /\ runs[j] # NotRunning
           /\ runs'[j].load = runs[j].load /\ runs'[j].status = runs[j].status
           /\ runs'[j].older = runs[j].older \ {k}
           /\ runs'[j].overtaken <=> runs[j].overtaken \/ j \in runs[k].older
      /\ \A j \in Run : j # k /\ runs[j] # NotRunning => runs'[j] # NotRunning
  BY <1>1, WithoutEffect
<1>3. RunsAreOrdered'
  BY <1>2 DEF ViewInvariant, RunsAreOrdered
<1>4. stage[runs[k].load] \notin Early
  BY <1>1 DEF ViewInvariant, NothingSeenYet, StatusRun
<1>5. \A l \in Load : l # runs[k].load =>
        lastStatus'[l] = lastStatus[l] /\ hasStatus'[l] = hasStatus[l] /\ (l \in blind' <=> l \in blind)
  BY DEF EndStatus, StatusFails, SessionTypeOK
<1>6. NothingSeenYet'
  BY <1>1, <1>2, <1>4, <1>5 DEF ViewInvariant, NothingSeenYet, registered
<1>7. \A l \in Load : hasStatus'[l] <=> lastStatus'[l] # {}
  BY DEF EndStatus, StatusFails, SessionTypeOK, ViewInvariant
<1>8. ViewCatchesUp'
  <2> SUFFICES ASSUME NEW l \in Load, files = l, l \in watchers, l \notin debounced
               PROVE  /\ l \notin blind' =>
                           lastStatus'[l] = changes[l] \/ \E j \in Run : Current(j, l)'
                      /\ \A j \in Run : runs'[j] # NotRunning /\ runs'[j].load = l /\ ~runs'[j].overtaken =>
                           Current(j, l)' \/ \E i \in Run : Current(i, l)' /\ j \in runs'[i].older
    BY <1>1 DEF ViewCatchesUp, registered
  \* Who was current still is, unless it is the run that ends or older.
  <2>1. ASSUME NEW j \in Run, Current(j, l), j # k, j \notin runs[k].older PROVE Current(j, l)'
    BY <1>1, <1>2, <2>1 DEF Current
  <2>2. ASSUME NEW j \in Run, runs'[j] # NotRunning, runs'[j].load = l, ~runs'[j].overtaken
        PROVE Current(j, l)' \/ \E i \in Run : Current(i, l)' /\ j \in runs'[i].older
    <3>1. j # k /\ runs[j] # NotRunning /\ runs[j].load = l /\ ~runs[j].overtaken /\ j \notin runs[k].older
      BY <1>2, <2>2
    <3>2. CASE Current(j, l)
      BY <2>1, <3>1, <3>2
    <3>3. ASSUME NEW i \in Run, Current(i, l), j \in runs[i].older
          PROVE  \E i2 \in Run : Current(i2, l)' /\ j \in runs'[i2].older
      <4>1. i # k /\ i \notin runs[k].older
        BY <1>1, <3>1, <3>3 DEF ViewInvariant, RunsAreOrdered
      <4>2. Current(i, l)'
        BY <2>1, <3>3, <4>1
      <4> QED
        BY <1>2, <3>1, <3>3, <4>1, <4>2 DEF Current
    <3> QED
      BY <3>1, <3>2, <3>3 DEF ViewInvariant, ViewCatchesUp
  <2>3. ASSUME l \notin blind' PROVE lastStatus'[l] = changes[l] \/ \E j \in Run : Current(j, l)'
    <3>1. CASE runs[k].load # l
      <4>1. l \notin blind /\ lastStatus'[l] = lastStatus[l]
        BY <1>5, <2>3, <3>1
      <4>2. \A j \in Run : Current(j, l) => j # k /\ j \notin runs[k].older
        BY <1>1, <3>1 DEF Current, ViewInvariant, RunsAreOrdered
      <4> QED
        BY <2>1, <4>1, <4>2 DEF ViewInvariant, ViewCatchesUp
    <3>2. CASE runs[k].load = l
      <4>1. EndStatus(k) /\ ~runs[k].overtaken /\ lastStatus'[l] = runs[k].status
        BY <2>3, <3>2 DEF EndStatus, StatusFails, SessionTypeOK
      <4>2. CASE Current(k, l)
        BY <4>1, <4>2 DEF Current
      <4>3. ASSUME NEW i \in Run, Current(i, l), k \in runs[i].older PROVE Current(i, l)'
        BY <1>1, <2>1, <4>3 DEF ViewInvariant, RunsAreOrdered, Current
      <4> QED
        BY <1>1, <3>2, <4>1, <4>2, <4>3 DEF ViewInvariant, ViewCatchesUp
    <3> QED
      BY <3>1, <3>2
  <2> QED
    BY <2>2, <2>3
<1> QED
  BY <1>3, <1>6, <1>7, <1>8 DEF ViewInvariant

LEMMA ViewStep == SessionTypeOK /\ Registration /\ ViewInvariant /\ [SessionNext]_sessionVars => ViewInvariant'
<1> SUFFICES ASSUME SessionTypeOK, Registration, ViewInvariant, [SessionNext]_sessionVars PROVE ViewInvariant'
  OBVIOUS
<1>1. ASSUME NEW l \in Load, Start(l) \/ StartFails(l) \/ OpenView(l) \/ Watch(l) PROVE ViewInvariant'
  <2>1. UNCHANGED <<changes, runs, debounced, lastStatus, hasStatus, blind>>
    BY <1>1 DEF Start, StartFails, OpenView, Watch, view
  <2>2. \A m \in Load : stage'[m] \in Early =>
          stage[m] \in Early /\ (m \in watchers' => m \in watchers)
    BY <1>1 DEF Start, StartFails, OpenView, Watch, SessionTypeOK, Early
  <2>3. \A m \in Load : files' = m /\ m \in watchers' =>
          (files = m /\ m \in watchers) \/ stage[m] \in Early
    BY <1>1 DEF Start, StartFails, OpenView, Watch, SessionTypeOK, Early
  <2> QED
    BY <2>1, <2>2, <2>3, OtherStepsKeepView
<1>2. ASSUME NEW c \in Command,
             EndCommit(c) \/ LoadRefUnasked(c) \/ ReloadWithWarning(c)
      PROVE ViewInvariant'
  <2>1. UNCHANGED <<changes, runs, debounced, lastStatus, hasStatus, blind>> /\ ReloadWorkbench
    BY <1>2 DEF EndCommit, LoadRefUnasked, ReloadWithWarning, view
  <2>2. \A m \in Load : stage'[m] \in Early =>
          stage[m] \in Early /\ (m \in watchers' => m \in watchers)
    <3>1. loads + 1 \in Load /\ stage[loads + 1] = "unborn"
      BY <2>1, LoadFacts DEF ReloadWorkbench, SessionTypeOK, Registration
    <3> QED
      BY <2>1, <3>1 DEF ReloadWorkbench, SessionTypeOK, Early
  <2>3. \A m \in Load : files' # m
    BY <2>1, LoadFacts DEF ReloadWorkbench
  <2> QED
    BY <2>1, <2>2, <2>3, OtherStepsKeepView
<1>3. ASSUME UNCHANGED <<registered, changes, runs, debounced, lastStatus, hasStatus, blind>>
      PROVE ViewInvariant'
  BY <1>3, OtherStepsKeepView DEF registered
<1>4. \/ \E l \in Load : Start(l) \/ StartFails(l) \/ OpenView(l) \/ Watch(l)
      \/ \E f \in Resource : ChangeFile(f)
      \/ \E l \in Load, k \in Run : BeginStatus(l, k)
      \/ \E k \in Run : EndStatus(k) \/ StatusFails(k)
      \/ \E c \in Command : EndCommit(c) \/ LoadRefUnasked(c) \/ ReloadWithWarning(c)
      \/ UNCHANGED <<registered, changes, runs, debounced, lastStatus, hasStatus, blind>>
  BY DEF SessionNext, sessionVars, view, BeginCommit, BeginBranch, BeginLoadRef, AskBeforeReload, EndCommand
<1> QED
  BY <1>1, <1>2, <1>3, <1>4, EditKeepsView, BeginKeepsView, EndKeepsView

\* The view shows what has changed, but for the exceptions it names.
THEOREM ViewFollowsChangesAlways == SessionSpec => []ViewFollowsChanges
<1> DEFINE Inv == SessionTypeOK /\ Registration /\ ViewInvariant
<1>1. SessionInit => Inv
  BY InitTyping, InitRegistration, InitView
<1>2. Inv /\ [SessionNext]_sessionVars => Inv'
  BY Typing, RegistrationStep, ViewStep
<1>3. Inv => ViewFollowsChanges
  BY DEF ViewInvariant, ViewCatchesUp, ViewFollowsChanges, Quiet, Current
<1> QED
  BY <1>1, <1>2, <1>3, PTL DEF SessionSpec

=============================================================================
