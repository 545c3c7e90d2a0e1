------------------------------- MODULE MCPage -------------------------------
(***************************************************************************)
(* Five parts of a page that share no state, checked side by side: its     *)
(* start (Boot: two embedders, two marketplace contexts), the token it is  *)
(* given (Tokens), the branch commands, the base of a merge request, and   *)
(* the hash.  In a behaviour one of them runs, and the others stay as they *)
(* began.                                                                  *)
(***************************************************************************)
EXTENDS Boot, Tokens, BranchCommands, MergeRequest, Sha256

CONSTANTS e1, e2, h1, h2, main, f, v1, c0

VARIABLE part

-----------------------------------------------------------------------------
(* The start. *)

Configuration(from, auth, crossOrigin, context) ==
  [from |-> from, auth |-> auth, crossOriginExtensionHost |-> crossOrigin,
   marketplace |-> TRUE, context |-> context]

MCConfigs == {
  Configuration(e1, "oauth", TRUE, h1),
  Configuration(e1, "token", TRUE, h2),
  Configuration(e1, "token", FALSE, h2),
  Configuration(e2, "oauth", TRUE, NoContext)}

-----------------------------------------------------------------------------

PageInit ==
  /\ part \in {"start", "tokens", "branches", "mergeRequest", "sha256"}
  /\ Init /\ (part # "start" => local = EmptyLocal)
  /\ TokenInit
  /\ BranchInit /\ (part # "branches" => project = [empty |-> TRUE, canPush |-> FALSE])
  /\ MergeRequestInit
  /\ part # "mergeRequest" => onMr = [l \in MrLoad |-> FALSE] /\ hasInit = onMr
  /\ ShaInit /\ (part # "sha256" => message = [length |-> 0, aligned |-> TRUE])

Starts ==
  /\ part = "start" /\ Next
  /\ UNCHANGED <<part, tokenVars, branchVars, mrVars, shaVars>>

TokensPassed ==
  /\ part = "tokens" /\ TokenNext
  /\ UNCHANGED <<part, vars, branchVars, mrVars, shaVars>>

Branches ==
  /\ part = "branches" /\ BranchNext
  /\ UNCHANGED <<part, vars, tokenVars, mrVars, shaVars>>

MergeRequests ==
  /\ part = "mergeRequest" /\ MergeRequestNext
  /\ UNCHANGED <<part, vars, tokenVars, branchVars, shaVars>>

Hashes ==
  /\ part = "sha256" /\ ShaNext
  /\ UNCHANGED <<part, vars, tokenVars, branchVars, mrVars>>

PageNext == Starts \/ TokensPassed \/ Branches \/ MergeRequests \/ Hashes

PageSpec ==
  /\ PageInit /\ [][PageNext]_<<part, vars, tokenVars, branchVars, mrVars, shaVars>>
  /\ Fairness /\ TokenFairness /\ BranchFairness
=============================================================================
