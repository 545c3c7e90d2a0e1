------------------------------- MODULE Tokens -------------------------------
(***************************************************************************)
(* How the OAuth token gets from the embedder's page to the extension.     *)
(* The extension reads a secret, the workbench page asks for it through    *)
(* the auth port, the embedder answers; when the token changes the         *)
(* embedder says so, the page passes it on through the extension's port,   *)
(* and the extension reads the secret again.                               *)
(*                                                                         *)
(* A port keeps its order; the answer to a secret and the message that the *)
(* token has changed come to the extension by different ports.  That an    *)
(* answer has a request it belongs to is known to nobody: any answer is    *)
(* taken by all who wait (PortChannelAuthProvider).  OAuth has the client  *)
(* behind the port.                                                        *)
(***************************************************************************)
EXTENDS Integers, Sequences, SequencesExt

CONSTANTS
  MaxToken,   \* bound: how often the token changes
  MaxWaiting  \* bound: the messages and readers there are when another reader begins

ASSUME TokensAssumption == MaxToken \in Nat /\ MaxWaiting \in Nat

VARIABLES
  token,     \* the embedder's token: the number of times it has changed
  requests,  \* authentication-token-request: those not answered yet
  posted,    \* what the embedder has posted: "changed", or a token
  waiting,   \* the readers whose getToken waits in the page
  answers,   \* what the page has answered the extension
  changes,   \* webide_auth_change: those on their way to the extension
  stage,     \* how far activate has come
  session,   \* the session of the extension's authentication provider
  api,       \* the request to the API that is being made
  missed,    \* history: a change came when nobody listened yet, after the first read,
  unread     \* and the last read that a change has caused has failed

tokenVars ==
  <<token, requests, posted, waiting, answers, changes, stage, session, api, missed, unread>>

NoSession == MaxToken + 1
Failed == MaxToken + 2
Versions == 0 .. MaxToken

Changed == [key |-> "changed", token |-> NoSession]
Response(version) == [key |-> "response", token |-> version]

NoApiRequest == [stage |-> "none", token |-> NoSession, since |-> NoSession]

Reader == {"executor", "provider", "update", "api", "login"}

TokenInit ==
  /\ token = 0
  /\ requests = 0 /\ posted = <<>>
  /\ waiting = <<>> /\ answers = <<>> /\ changes = 0
  /\ stage = "inactive" /\ session = NoSession /\ api = NoApiRequest
  /\ missed = FALSE /\ unread = FALSE

-----------------------------------------------------------------------------
(* The embedder: AuthPortChannelController. *)

\* A refresh by the timer, or by another tab.
TokenChanges ==
  /\ token < MaxToken
  /\ token' = token + 1
  /\ posted' = Append(posted, Changed)
  /\ UNCHANGED <<requests, waiting, answers, changes, stage, session, api, missed, unread>>

\* getToken has a token, or has to refresh it first and tells its listeners.
HostAnswers ==
  /\ requests > 0
  /\ requests' = requests - 1
  /\ \/ /\ posted' = Append(posted, Response(token))
        /\ UNCHANGED token
     \/ /\ token < MaxToken
        /\ token' = token + 1
        /\ posted' = posted \o <<Changed, Response(token + 1)>>
  /\ UNCHANGED <<waiting, answers, changes, stage, session, api, missed, unread>>

\* getToken rejects: nothing is posted.
HostRejects ==
  /\ requests > 0
  /\ requests' = requests - 1
  /\ UNCHANGED <<token, posted, waiting, answers, changes, stage, session, api, missed, unread>>

-----------------------------------------------------------------------------
(* The page: PortChannelAuthProvider, and the secrets it provides. *)

\* getToken: post the request, then wait for whatever answer comes.
Ask(reader) ==
  /\ requests' = requests + 1
  /\ waiting' = Append(waiting, reader)

\* What the readers get: the login account is read by the workbench itself.
AnswersTo(readers, version) ==
  [i \in DOMAIN readers |-> [reader |-> readers[i], token |-> version]]

Remote(readers) ==
  LET remote[n \in 0 .. Len(readers)] ==
        IF n = 0 THEN <<>>
        ELSE IF readers[n] = "login" THEN remote[n - 1]
        ELSE Append(remote[n - 1], readers[n])
  IN  remote[Len(readers)]

StaysInBounds == requests + Len(posted) + Len(waiting) < MaxWaiting

\* The workbench reads khulnasoft-web-ide.loginAccount.
ReadLoginAccount ==
  /\ StaysInBounds
  /\ Ask("login")
  /\ UNCHANGED <<token, posted, answers, changes, stage, session, api, missed, unread>>

ReceiveResponse ==
  /\ posted # <<>> /\ Head(posted).key = "response"
  /\ posted' = Tail(posted)
  /\ answers' = answers \o AnswersTo(Remote(waiting), Head(posted).token)
  /\ waiting' = <<>>
  /\ UNCHANGED <<token, requests, changes, stage, session, api, missed, unread>>

\* onTokenChange.
ReceiveChanged ==
  /\ posted # <<>> /\ Head(posted).key = "changed"
  /\ posted' = Tail(posted)
  /\ changes' = changes + 1
  /\ UNCHANGED <<token, requests, waiting, answers, stage, session, api, missed, unread>>

\* Mutant: the reader never hears of it.
GiveUpSilently ==
  /\ waiting # <<>>
  /\ waiting' = Tail(waiting)
  /\ UNCHANGED
       <<token, requests, posted, answers, changes, stage, session, api, missed, unread>>

\* waitForMessage times out, for the one that has waited longest.
GiveUp ==
  /\ waiting # <<>>
  /\ waiting' = Tail(waiting)
  /\ answers' = answers \o AnswersTo(Remote(<<Head(waiting)>>), Failed)
  /\ UNCHANGED <<token, requests, posted, changes, stage, session, api, missed, unread>>

-----------------------------------------------------------------------------
(* The extension. *)

\* activate: the mediator's executor is the secure one if there is a token.
Activate ==
  /\ stage = "inactive"
  /\ stage' = "executor"
  /\ Ask("executor")
  /\ UNCHANGED <<token, posted, answers, changes, session, api, missed, unread>>

Receives(reader) ==
  /\ answers # <<>> /\ Head(answers).reader = reader
  /\ answers' = Tail(answers)

ActivationFails(reader) ==
  /\ Receives(reader)
  /\ reader \in {"executor", "provider"}
  /\ Head(answers).token = Failed
  /\ stage' = "failed"
  /\ UNCHANGED
       <<token, requests, posted, waiting, changes, session, api, missed, unread>>

\* registerAuthenticationProvider begins.
CreateExecutor ==
  /\ Receives("executor")
  /\ Head(answers).token # Failed
  /\ stage' = "provider"
  /\ Ask("provider")
  /\ missed' = FALSE
  /\ UNCHANGED <<token, posted, changes, session, api, unread>>

\* ... creates the session and subscribes to changes.
RegisterProvider ==
  /\ Receives("provider")
  /\ Head(answers).token # Failed
  /\ stage' = "active"
  /\ session' = Head(answers).token
  /\ UNCHANGED <<token, requests, posted, waiting, changes, api, missed, unread>>

\* Mutant: a change is passed over while one is being read.
HearChangeIfIdle ==
  /\ changes > 0
  /\ changes' = changes - 1
  /\ IF stage = "active" /\ \A i \in DOMAIN answers : answers[i].reader # "update"
     THEN Ask("update") /\ UNCHANGED missed
     ELSE missed' = (missed \/ stage # "active") /\ UNCHANGED <<requests, waiting>>
  /\ UNCHANGED <<token, posted, answers, stage, session, api, unread>>

\* subscribeProviderToChangeMessage.
HearChange ==
  /\ changes > 0
  /\ changes' = changes - 1
  /\ IF stage = "active" THEN Ask("update") /\ UNCHANGED missed
     ELSE missed' = TRUE /\ UNCHANGED <<requests, waiting>>
  /\ UNCHANGED <<token, posted, answers, stage, session, api, unread>>

\* updateToken; the reading that has failed is not repeated.
UpdateToken ==
  /\ Receives("update")
  /\ session' = IF Head(answers).token = Failed THEN session ELSE Head(answers).token
  /\ unread' = (Head(answers).token = Failed)
  /\ UNCHANGED <<token, requests, posted, waiting, changes, stage, api, missed>>

-----------------------------------------------------------------------------
(* The API client: the headers, the request, the response. *)

\* The token of the last change that the extension has been told of.
Told == token - changes - Cardinality({i \in DOMAIN posted : posted[i] = Changed})

GetHeaders ==
  /\ stage = "active" /\ api = NoApiRequest
  /\ StaysInBounds
  /\ Ask("api")
  /\ api' = [stage |-> "headers", token |-> NoSession, since |-> Told]
  /\ UNCHANGED <<token, posted, answers, changes, stage, session, missed, unread>>

\* Mutant: the token of the session is good enough.
FetchWithSession ==
  /\ Receives("api")
  /\ api' = IF Head(answers).token = Failed THEN NoApiRequest
            ELSE [api EXCEPT !.stage = "sent", !.token = session]
  /\ UNCHANGED
       <<token, requests, posted, waiting, changes, stage, session, missed, unread>>

FetchFromApi ==
  /\ Receives("api")
  /\ api' = IF Head(answers).token = Failed THEN NoApiRequest
            ELSE [api EXCEPT !.stage = "sent", !.token = Head(answers).token]
  /\ UNCHANGED
       <<token, requests, posted, waiting, changes, stage, session, missed, unread>>

\* With a body, without one, or with an error: none is repeated.
ApiResponds ==
  /\ api.stage = "sent"
  /\ api' = NoApiRequest
  /\ UNCHANGED
       <<token, requests, posted, waiting, answers, changes, stage, session, missed, unread>>

TokenNext ==
  \/ TokenChanges \/ HostAnswers \/ HostRejects
  \/ ReadLoginAccount \/ ReceiveResponse \/ ReceiveChanged \/ GiveUp
  \/ Activate \/ CreateExecutor \/ RegisterProvider \/ HearChange \/ UpdateToken
  \/ \E reader \in Reader : ActivationFails(reader)
  \/ GetHeaders \/ FetchFromApi \/ ApiResponds

\* Ports deliver, timers fire and the extension handles what it gets; the embedder
\* need not answer.
TokenFairness ==
  /\ WF_tokenVars(ReceiveResponse \/ ReceiveChanged)
  /\ WF_tokenVars(GiveUp)
  /\ WF_tokenVars(CreateExecutor \/ RegisterProvider \/ UpdateToken \/ FetchFromApi
                  \/ \E reader \in Reader : ActivationFails(reader))

TokenSpec == TokenInit /\ [][TokenNext]_tokenVars /\ TokenFairness

-----------------------------------------------------------------------------
(* Properties. *)

\* No change is on its way to the session.
Heard ==
  /\ ~Contains(posted, Changed) /\ changes = 0
  /\ ~Contains(waiting, "update")
  /\ \A i \in DOMAIN answers : answers[i].reader # "update"

\* When every change has been heard the session has the embedder's token, whichever
\* request an answer was for; unless a change came before the provider listened, or
\* its reading has failed (registerAuthenticationProvider.ts:14-26,
\* subscribeProviderToChangeMessage.ts:17-27).
SessionFollowsToken ==
  stage = "active" /\ Heard /\ ~missed /\ ~unread => session = token

\* A request that begins after the extension was told of a change has the changed
\* token, or a later one, though the answer that the request takes may be to an earlier
\* question (PortChannelAuthProvider.ts:34-41).
RequestsKeepUp == api.stage = "sent" => api.token >= api.since

\* The activation comes to an end, though the embedder may owe every answer
\* (AuthPortChannelController.ts:23-31, DefaultPortChannel.ts:59-75).
ActivationSettles == stage = "executor" ~> stage \in {"active", "failed"}

=============================================================================
