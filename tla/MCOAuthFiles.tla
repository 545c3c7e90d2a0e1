---------------------------- MODULE MCOAuthFiles ----------------------------
(***************************************************************************)
(* The OAuth token of a user's two tabs (OAuth), the token of one tab that *)
(* lasts longer and may find another user's token, and the calls to the    *)
(* file system (FileRequests).  They share no state; in a behaviour one of *)
(* them runs, and the others stay as they began.                           *)
(***************************************************************************)
EXTENDS OAuth, FileRequests

CONSTANTS t1, t2, u1, u2, a1, k1, k2, a, n, r1, r2, l1, TabsMaxTime

VARIABLE part

OAuthFilesInit ==
  /\ part \in {"tabs", "tab", "files"}
  /\ Init /\ FilesInit
  /\ part = "files" => storage = NoToken
  /\ owner = [t \in Tab |-> u1]
  /\ part = "tabs" /\ storage # NoToken => storage.owner = u1

\* Two tabs, and less time.
OAuthTabs ==
  /\ part = "tabs" /\ Next /\ now' <= TabsMaxTime
  /\ UNCHANGED <<part, fileVars>>

\* One tab.
OAuthTab ==
  /\ part = "tab" /\ Next /\ page'[t2] = "closed"
  /\ UNCHANGED <<part, fileVars>>

FileCalls == part = "files" /\ FilesNext /\ UNCHANGED <<part, vars>>

OAuthFilesNext == OAuthTabs \/ OAuthTab \/ FileCalls

OAuthFilesSpec ==
  OAuthFilesInit /\ [][OAuthFilesNext]_<<part, vars, fileVars>> /\ FilesFairness
=============================================================================
