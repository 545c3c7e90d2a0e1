------------------------------ MODULE MCCommit ------------------------------
(* Small instances of Commit: two files, three contents, two branches. *)
EXTENDS Commit

CONSTANTS f, g, x, y, z, main, patch

Holding(inF, inG) == [EmptyTree EXCEPT ![f] = inF, ![g] = inG]

\* A file is modified, renamed, added, deleted.
MCFirstTrees ==
  {<<Holding(x, Absent), Holding(y, Absent)>>,
   <<Holding(x, Absent), Holding(Absent, x)>>,
   <<Holding(x, Absent), Holding(x, x)>>,
   <<Holding(x, y), Holding(x, Absent)>>}

\* What distinguishes states, of a command: nothing else of it is read by a later
\* action, or by a property.
Pending ==
  CASE command = Idle -> <<>>
    [] command # Idle ->
       CASE command.stage \in {"counting", "naming"} -> <<command.mode>>
         [] command.stage = "confirming" ->
              <<command.mode, command.counted, command.difference>>
         [] command.stage = "choosing" ->
              <<command.mode, command.prompt, command.counted, Announced(command)>>
         [] command.stage = "rejected" -> <<command.reason, command.mode = "amend">>
         [] OTHER -> <<command.mode, command.selection, Announced(command),
                       command.counted, command.before, command.commit>>

Observed ==
  <<server, pushable, ref, local, preference, Pending,
    IF command = Idle THEN <<>> ELSE <<command.stage, command.snapshot>>>>

=============================================================================
