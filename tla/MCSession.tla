----------------------------- MODULE MCSession -----------------------------
\* An instance of Session for TLC.
EXTENDS Session, TLC

CONSTANTS k1, k2

MCRun == {k1, k2}

Symmetry == Permutations(MCRun)

\* Loads whose view can still matter: the others have ended and registered
\* neither the file system nor the commit commands.
Seen ==
  {files, commitCommands}
    \union {l \in Load : stage[l] \in {"unborn", "starting", "started", "opening"}}

\* What a command in flight still reads.
PendingCommand(command) ==
  CASE command = NotRunning -> <<"idle">>
    [] command.stage = "choosing" -> <<"choosing", command.load>>
    [] command.stage = "checking" -> <<"checking", command.status = {}>>
    [] OTHER -> <<command.stage>>

\* What distinguishes states: nothing else is read by an action, or by an
\* invariant that is checked.
SessionObserved ==
  <<registered, changes, debounced, runs, blind \intersect Seen,
    [l \in Load |-> IF l \in Seen THEN <<lastStatus[l], hasStatus[l]>> ELSE <<>>],
    [c \in Command |-> PendingCommand(commands[c])]>>

=============================================================================
