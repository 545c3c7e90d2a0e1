-------------------------- MODULE MCSourceControl --------------------------
(***************************************************************************)
(* Source control from two sides that share no state: the loads of the     *)
(* extension with the view they make (Session), and the commit commands    *)
(* (Commit).  In a behaviour one of them runs, and the other stays as it   *)
(* began.                                                                  *)
(***************************************************************************)
EXTENDS MCSession, MCCommit

VARIABLE part

SourceControlInit ==
  /\ part \in {"view", "commit"}
  /\ SessionInit /\ Init
  /\ part # "commit" => commits = <<>> /\ pushable = Branch

Views == part = "view" /\ SessionNext /\ UNCHANGED <<part, vars>>

Commits == part = "commit" /\ Next /\ UNCHANGED <<part, sessionVars>>

SourceControlSpec ==
  SourceControlInit /\ [][Views \/ Commits]_<<part, sessionVars, vars>>

PartObserved ==
  IF part = "view" THEN <<part, SessionObserved>> ELSE <<part, Observed>>

=============================================================================
