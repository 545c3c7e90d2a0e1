---------------------------- MODULE OAuthProofs ----------------------------
(***************************************************************************)
(* Proofs about the OAuth client in any number of tabs, with any number of *)
(* calls, tokens and users; and, at the end, about the hash that the       *)
(* client's code challenge is made with, for messages of any length.       *)
(***************************************************************************)
EXTENDS OAuth, Sha256, WellFoundedInduction, TLAPS

\* Calls and timers belong to pages that have a client, and a callback page
\* has nothing but its one call.
CallsHaveAPage ==
  /\ \A k \in Slot : calls[k] # Idle =>
       /\ page[calls[k].tab] \in {"running", "disposed", "callback"}
       /\ calls[k].why = "callback" <=> page[calls[k].tab] = "callback"
       /\ calls[k].why = "callback" => calls[k].stage # "frame"
       /\ \A j \in Slot : Of(j, calls[k].tab) /\ calls[k].why = "callback" => j = k
  /\ \A t \in Tab : armed[t] # NoTimer \/ leaked[t] # {} => page[t] \in {"running", "disposed"}
  /\ \A t \in Tab : page[t] \notin Alive => cache[t] = NoToken /\ mail[t] = 0

\* The mutex: one call at a time writes a tab's cache.
OneStore ==
  \A j, k \in Slot : Storing(j) /\ Storing(k) /\ calls[j].tab = calls[k].tab => j = k

StorageIsStored == storage # NoToken => Stored(storage) = storage

\* A tab that is about to write its cache writes what is in storage, or will
\* hear that another tab has written since.
StoringIsNewest ==
  \A k \in Slot : Storing(k) =>
    \/ Stored(calls[k].token) = storage
    \/ mail[calls[k].tab] > 0
    \/ \E j \in Slot : Storing(j) /\ calls[j].tab # calls[k].tab

Invariant ==
  TypeOK /\ CallsHaveAPage /\ OneStore /\ StorageIsStored /\ StoringIsNewest /\ CachesConverge
-----------------------------------------------------------------------------
(* What the operators do. *)

\* The calls are `others` and at most one more, which waits for the network.
AddsAtMostOne(t, why, others) ==
  /\ calls' \in [Slot -> Call \union {Idle}]
  /\ HaveTokens(calls')
  /\ \A k \in Slot :
       \/ calls'[k] = others[k]
       \/ /\ others[k] = Idle /\ calls'[k] # Idle
          /\ calls'[k].tab = t /\ calls'[k].why = why /\ calls'[k].stage \in {"frame", "sent"}

\* Refreshing a token begins one call.
LEMMA RefreshAdds ==
  ASSUME NEW t \in Tab, NEW why \in {"setup", "timer", "request"}, NEW token \in Token,
         NEW others \in [Slot -> Call \union {Idle}], HaveTokens(others),
         Refresh(t, why, token, others)
  PROVE  AddsAtMostOne(t, why, others)
<1>1. PICK k \in Slot :
        /\ others[k] = Idle
        /\ calls' = [others EXCEPT ![k] =
             [tab |-> t, why |-> why, token |-> NoToken,
              stage |-> IF token.refreshToken THEN "sent" ELSE "frame"]]
  BY DEF Refresh
<1> DEFINE new == [tab |-> t, why |-> why, token |-> NoToken,
                   stage |-> IF token.refreshToken THEN "sent" ELSE "frame"]
<1>2. new \in Call /\ new.stage \in {"frame", "sent"} /\ new # Idle
  BY NoneAssumption DEF Call
<1>3. calls' \in [Slot -> Call \union {Idle}]
  BY <1>1, <1>2
<1>4. \A j \in Slot : j # k => calls'[j] = others[j]
  BY <1>1
<1>5. calls'[k] = new
  BY <1>1
<1> HIDE DEF new
<1>6. HaveTokens(calls')
  BY <1>2, <1>4, <1>5 DEF HaveTokens
<1>7. new.tab = t /\ new.why = why
  BY DEF new
<1> QED
  BY <1>1, <1>2, <1>3, <1>4, <1>5, <1>6, <1>7 DEF AddsAtMostOne

LEMMA FireTimeIsInt ==
  ASSUME now \in Nat, NEW token \in Token
  PROVE  FireTime(token) \in Int
<1> DEFINE delay == token.expiresAt - now - RefreshBuffer
<1>1. delay \in Int
  BY BufferAssumption DEF Token
<1>2. (delay + TimerRange) % (2 * TimerRange) \in Int
  BY <1>1, BufferAssumption
<1> QED
  BY <1>1, <1>2, BufferAssumption DEF FireTime

\* A setup arms the tab's timer or disarms it, and begins at most one call.
LEMMA SetupEffect ==
  ASSUME now \in Nat, armed \in [Tab -> Int \union {NoTimer}], failed \subseteq Tab,
         NEW t \in Tab, NEW value \in Token \union {NoToken},
         NEW others \in [Slot -> Call \union {Idle}], HaveTokens(others),
         Setup(t, value, others)
  PROVE  /\ armed' \in [Tab -> Int \union {NoTimer}]
         /\ \A u \in Tab : u # t => armed'[u] = armed[u]
         /\ failed' \subseteq Tab
         /\ AddsAtMostOne(t, "setup", others)
<1>1. CASE value # NoToken /\ ~isValidToken(value, t)
  <2>1. AddsAtMostOne(t, "setup", others)
    BY <1>1, RefreshAdds DEF Setup
  <2> QED
    BY <1>1, <2>1 DEF Setup
<1>2. CASE value = NoToken
  BY <1>2 DEF Setup, AddsAtMostOne
<1>3. CASE value # NoToken /\ isValidToken(value, t)
  <2>1. FireTime(value) \in Int
    BY <1>3, FireTimeIsInt
  <2> QED
    BY <1>3, <2>1 DEF Setup, AddsAtMostOne
<1> QED
  BY <1>1, <1>2, <1>3

\* So does the event, and it leaves the timers of a page that does not run.
LEMMA TokenChangedEffect ==
  ASSUME now \in Nat, armed \in [Tab -> Int \union {NoTimer}], failed \subseteq Tab,
         NEW t \in Tab, NEW value \in Token \union {NoToken},
         NEW others \in [Slot -> Call \union {Idle}], HaveTokens(others),
         TokenChanged(t, value, others)
  PROVE  /\ armed' \in [Tab -> Int \union {NoTimer}]
         /\ \A u \in Tab : u # t => armed'[u] = armed[u]
         /\ page[t] # "running" => armed' = armed /\ calls' = others
         /\ failed' \subseteq Tab
         /\ AddsAtMostOne(t, "setup", others)
<1>1. CASE page[t] = "running"
  BY <1>1, SetupEffect DEF TokenChanged
<1>2. CASE page[t] # "running"
  BY <1>2 DEF TokenChanged, AddsAtMostOne
<1> QED
  BY <1>1, <1>2

\* getToken keeps what the tab holds, or takes what is stored.
LEMMA GetTokenEffect ==
  ASSUME TypeOK, NEW t \in Tab, NEW why \in {"timer", "request"}, GetToken(t, why)
  PROVE  /\ cache' = [cache EXCEPT ![t] = Value(t)]
         /\ Value(t) \in Token \union {NoToken}
         /\ AddsAtMostOne(t, why, calls)
<1>1. Value(t) \in Token \union {NoToken}
  BY DEF Value, TypeOK
<1>2. CASE Value(t) # NoToken /\ ~isValidToken(Value(t), t)
  <2>1. AddsAtMostOne(t, why, calls)
    BY <1>1, <1>2, RefreshAdds DEF GetToken, TypeOK
  <2> QED
    BY <1>1, <2>1 DEF GetToken
<1>3. CASE ~(Value(t) # NoToken /\ ~isValidToken(Value(t), t))
  BY <1>1, <1>3 DEF GetToken, AddsAtMostOne, TypeOK
<1> QED
  BY <1>2, <1>3

\* What is left of the calls when some of them end.
LEMMA EndingCalls ==
  ASSUME TypeOK, NEW S \in SUBSET Slot
  PROVE  LET others == [j \in Slot |-> IF j \in S THEN Idle ELSE calls[j]]
         IN  others \in [Slot -> Call \union {Idle}] /\ HaveTokens(others)
BY DEF TypeOK, HaveTokens

\* Rejecting calls moves callback pages only, to "stuck".
LEMMA RejectedEffect ==
  ASSUME TypeOK, NEW S \in SUBSET Slot, \A k \in S : calls[k] # Idle, Rejected(S)
  PROVE  /\ page' \in [Tab -> Page]
         /\ failed' \subseteq Tab
         /\ \A t \in Tab :
              \/ page'[t] = page[t]
              \/ page'[t] = "stuck" /\ \E k \in S : calls[k].tab = t /\ calls[k].why = "callback"
<1>1. \A k \in S : calls[k] \in Call
  BY DEF TypeOK
<1> QED
  BY <1>1 DEF Rejected, TypeOK, Page, Call

-----------------------------------------------------------------------------
(* Type correctness. *)

LEMMA InitTyping == Init => TypeOK
<1> SUFFICES ASSUME Init PROVE TypeOK
  OBVIOUS
<1>1. storage \in Token \union {NoToken}
  <2>1. Buffer \in Nat /\ (~ProtectRefreshToken) \in BOOLEAN
    BY BufferAssumption, ProtectAssumption
  <2> QED
    BY <2>1 DEF Init, Token
<1> QED
  BY <1>1 DEF Init, TypeOK, HaveTokens, Page

LEMMA Typing == TypeOK /\ [Next]_vars => TypeOK'
<1> SUFFICES ASSUME TypeOK, [Next]_vars PROVE TypeOK'
  OBVIOUS
<1>1. ASSUME NEW t \in Tab, Open(t) PROVE TypeOK'
  BY <1>1 DEF Open, TypeOK, Page, timers, HaveTokens
<1>2. ASSUME NEW t \in Tab, Start(t) PROVE TypeOK'
  <2>1. /\ armed' \in [Tab -> Int \union {NoTimer}] /\ failed' \subseteq Tab
        /\ AddsAtMostOne(t, "setup", calls)
    BY <1>2, SetupEffect DEF Start, TypeOK
  <2> QED
    BY <1>2, <2>1 DEF Start, TypeOK, Page, AddsAtMostOne
<1>3. ASSUME NEW t \in Tab, Callback(t) PROVE TypeOK'
  <2>1. CASE handshake = t
    <3>1. PICK k \in Slot : calls' = [calls EXCEPT ![k] =
            [tab |-> t, why |-> "callback", token |-> NoToken, stage |-> "sent"]]
      BY <1>3, <2>1 DEF Callback
    <3>2. [tab |-> t, why |-> "callback", token |-> NoToken, stage |-> "sent"] \in Call
      BY DEF Call
    <3>3. calls' \in [Slot -> Call \union {Idle}]
      BY <3>1, <3>2 DEF TypeOK
    <3>4. HaveTokens(calls')
      BY <3>1 DEF TypeOK, HaveTokens
    <3> QED
      BY <1>3, <2>1, <3>3, <3>4 DEF Callback, TypeOK, Page, timers
  <2>2. CASE handshake # t
    BY <1>3, <2>2 DEF Callback, TypeOK, Page, timers, HaveTokens
  <2> QED
    BY <2>1, <2>2
<1>4. ASSUME NEW t \in Tab, RequestToken(t) PROVE TypeOK'
  BY <1>4, GetTokenEffect DEF RequestToken, TypeOK, timers, AddsAtMostOne
<1>5. ASSUME NEW t \in Tab, Dispose(t) PROVE TypeOK'
  BY <1>5 DEF Dispose, TypeOK, Page, HaveTokens
<1>6. ASSUME NEW t \in Tab, Close(t) PROVE TypeOK'
  BY <1>6 DEF Close, TypeOK, Page, HaveTokens
<1>7. ASSUME NEW t \in Tab, Deliver(t) PROVE TypeOK'
  <2>1. /\ armed' \in [Tab -> Int \union {NoTimer}] /\ failed' \subseteq Tab
        /\ AddsAtMostOne(t, "setup", calls)
    BY <1>7, TokenChangedEffect DEF Deliver, TypeOK
  <2>2. mail' \in [Tab -> Nat]
    BY <1>7 DEF Deliver, TypeOK
  <2> QED
    BY <1>7, <2>1, <2>2 DEF Deliver, TypeOK, AddsAtMostOne
<1>8. ASSUME NEW t \in Tab, FireTimer(t) PROVE TypeOK'
  BY <1>8, GetTokenEffect DEF FireTimer, TypeOK, AddsAtMostOne
<1>9. ASSUME NEW t \in Tab, FireLeaked(t) PROVE TypeOK'
  BY <1>9, GetTokenEffect DEF FireLeaked, TypeOK, AddsAtMostOne
<1>10. ASSUME NEW k \in Slot, FrameReady(k) PROVE TypeOK'
  <2> DEFINE waiting == {j \in Slot : Of(j, calls[k].tab) /\ calls[j].stage = "frame"}
  <2>1. PICK early \in SUBSET (waiting \ {k}) :
          /\ calls' = [j \in Slot |->
               IF j \in early THEN Idle
               ELSE IF j \in waiting THEN [calls[j] EXCEPT !.stage = "sent"]
               ELSE calls[j]]
          /\ Rejected(early)
    BY <1>10 DEF FrameReady
  <2>2. \A j \in waiting : calls[j] \in Call /\ calls[j] # Idle
    BY DEF Of, TypeOK
  <2>3. calls' \in [Slot -> Call \union {Idle}] /\ HaveTokens(calls')
    BY <2>1, <2>2 DEF TypeOK, HaveTokens, Call
  <2>4. page' \in [Tab -> Page] /\ failed' \subseteq Tab
    BY <2>1, <2>2, RejectedEffect
  <2> QED
    BY <1>10, <2>3, <2>4 DEF FrameReady, TypeOK
<1>11. ASSUME NEW k \in Slot, Answer(k) PROVE TypeOK'
  <2>1. PICK accessToken \in AccessToken, lifetime \in Lifetime :
          calls' = [calls EXCEPT ![k].stage = "answered", ![k].token =
            [accessToken |-> accessToken, expiresAt |-> now + lifetime,
             refreshToken |-> TRUE, owner |-> owner[calls[k].tab]]]
    BY <1>11 DEF Answer
  <2> DEFINE token == [accessToken |-> accessToken, expiresAt |-> now + lifetime,
                       refreshToken |-> TRUE, owner |-> owner[calls[k].tab]]
  <2>2. calls[k] \in Call
    BY <1>11 DEF Answer, TypeOK
  <2>3. token \in Token
    BY <2>2, LifetimeAssumption DEF Token, Call, TypeOK
  <2>4. [calls[k] EXCEPT !.stage = "answered", !.token = token] \in Call
    BY <2>2, <2>3 DEF Call
  <2>5. calls' = [calls EXCEPT ![k] = [calls[k] EXCEPT !.stage = "answered", !.token = token]]
    BY <2>1 DEF TypeOK
  <2> HIDE DEF token
  <2>6. calls' \in [Slot -> Call \union {Idle}]
    BY <2>4, <2>5 DEF TypeOK
  <2>7. HaveTokens(calls')
    BY <2>2, <2>3, <2>5 DEF TypeOK, HaveTokens, Call
  <2> QED
    BY <1>11, <2>6, <2>7 DEF Answer, TypeOK, timers
<1>12. ASSUME NEW k \in Slot, Refuse(k) PROVE TypeOK'
  <2>1. page' \in [Tab -> Page] /\ failed' \subseteq Tab
    BY <1>12, RejectedEffect DEF Refuse
  <2> QED
    BY <1>12, <2>1 DEF Refuse, TypeOK, HaveTokens
<1>13. ASSUME NEW k \in Slot, Receive(k) PROVE TypeOK'
  <2>1. calls[k] \in Call /\ calls[k].token \in Token
    BY <1>13 DEF Receive, TypeOK, HaveTokens
  <2>2. CASE isExpiredToken(calls[k].token)
    <3>1. page' \in [Tab -> Page] /\ failed' \subseteq Tab
      BY <1>13, <2>2, RejectedEffect DEF Receive
    <3> QED
      BY <1>13, <2>2, <3>1 DEF Receive, TypeOK, HaveTokens
  <2>3. CASE ~isExpiredToken(calls[k].token)
    <3>1. Stored(calls[k].token) \in Token
      BY <2>1, ProtectAssumption DEF Stored, Token
    <3>2. calls' \in [Slot -> Call \union {Idle}] /\ HaveTokens(calls')
      BY <1>13, <2>1, <2>3 DEF Receive, TypeOK, HaveTokens, Call
    <3> QED
      BY <1>13, <2>3, <3>1, <3>2 DEF Receive, TypeOK
  <2> QED
    BY <2>2, <2>3
<1>14. ASSUME NEW k \in Slot, Finish(k) PROVE TypeOK'
  <2> DEFINE t == calls[k].tab
             token == calls[k].token
             others == [calls EXCEPT ![k] = Idle]
  <2>1. calls[k] \in Call /\ t \in Tab /\ token \in Token
    BY <1>14 DEF Finish, Storing, TypeOK, HaveTokens, Call
  <2>2. others \in [Slot -> Call \union {Idle}] /\ HaveTokens(others)
    BY DEF TypeOK, HaveTokens
  <2>3. /\ armed' \in [Tab -> Int \union {NoTimer}] /\ leaked' \in [Tab -> SUBSET Int]
        /\ failed' \subseteq Tab
        /\ calls' \in [Slot -> Call \union {Idle}] /\ HaveTokens(calls')
    <3>1. FireTime(token) \in Int
      BY <2>1, FireTimeIsInt DEF TypeOK
    <3>2. CASE TokenChanged(t, token, others)
      <4>1. /\ armed' \in [Tab -> Int \union {NoTimer}] /\ failed' \subseteq Tab
            /\ AddsAtMostOne(t, "setup", others)
        BY <2>1, <2>2, <3>2, TokenChangedEffect DEF TypeOK
      <4>2. leaked' = leaked \/ leaked' = [leaked EXCEPT ![t] = @ \union {FireTime(token)}]
            \/ leaked' = [leaked EXCEPT ![t] = @ \union ({armed[t]} \ {NoTimer})]
        BY <1>14 DEF Finish
      <4> QED
        BY <2>1, <3>1, <4>1, <4>2 DEF TypeOK, AddsAtMostOne
    <3>3. CASE ~TokenChanged(t, token, others)
      <4>1. /\ armed' = [armed EXCEPT ![t] = FireTime(token)]
            /\ leaked' = [leaked EXCEPT ![t] = @ \union ({armed[t]} \ {NoTimer})]
            /\ calls' = others /\ failed' = failed
        BY <1>14, <3>3 DEF Finish
      <4> QED
        BY <2>1, <2>2, <3>1, <4>1 DEF TypeOK
    <3> QED
      BY <3>2, <3>3
  <2>4. cache' \in [Tab -> Token \union {NoToken}] /\ page' \in [Tab -> Page]
        /\ handshake' \in Tab \union {NoHandshake}
    BY <1>14, <2>1 DEF Finish, TypeOK, Page
  <2>5. mail' \in [Tab -> Nat]
    BY <1>14 DEF Finish, TypeOK
  <2> QED
    BY <1>14, <2>3, <2>4, <2>5 DEF Finish, TypeOK
<1>15. ASSUME Tick PROVE TypeOK'
  BY <1>15 DEF Tick, TypeOK, timers, HaveTokens
<1>16. ASSUME UNCHANGED vars PROVE TypeOK'
  BY <1>16 DEF vars, TypeOK, HaveTokens
<1> QED
  BY <1>1, <1>2, <1>3, <1>4, <1>5, <1>6, <1>7, <1>8, <1>9, <1>10, <1>11, <1>12,
     <1>13, <1>14, <1>15, <1>16 DEF Next, TimerFires

\* Every variable keeps its type.
THEOREM TypeCorrect == Spec => []TypeOK
BY InitTyping, Typing, PTL DEF Spec

-----------------------------------------------------------------------------
(* The calls that are between storage and cache. *)

KeepsStores ==
  \A k \in Slot :
    /\ (calls'[k] # Idle /\ calls'[k].stage = "stored") <=> Storing(k)
    /\ Storing(k) => calls'[k] = calls[k]

LEMMA AddingKeepsStores ==
  ASSUME NEW t \in Tab, NEW why \in {"setup", "timer", "request"}, AddsAtMostOne(t, why, calls)
  PROVE  KeepsStores
BY DEF AddsAtMostOne, KeepsStores, Storing

\* Only receiving a token and finishing its call change them.
LEMMA OtherStepsKeepStores ==
  ASSUME TypeOK, [Next]_vars, \A k \in Slot : ~Receive(k) /\ ~Finish(k)
  PROVE  KeepsStores
<1>1. ASSUME UNCHANGED calls PROVE KeepsStores
  BY <1>1 DEF KeepsStores, Storing
<1>2. ASSUME NEW t \in Tab, Open(t) \/ Dispose(t) PROVE KeepsStores
  BY <1>1, <1>2 DEF Open, Dispose
<1>3. ASSUME NEW t \in Tab, Start(t) PROVE KeepsStores
  BY <1>3, SetupEffect, AddingKeepsStores DEF Start, TypeOK
<1>4. ASSUME NEW t \in Tab, Callback(t) PROVE KeepsStores
  BY <1>4 DEF Callback, KeepsStores, Storing, TypeOK
<1>5. ASSUME NEW t \in Tab, RequestToken(t) \/ FireTimer(t) \/ FireLeaked(t)
      PROVE KeepsStores
  BY <1>5, GetTokenEffect, AddingKeepsStores DEF RequestToken, FireTimer, FireLeaked
<1>6. ASSUME NEW t \in Tab, Close(t) PROVE KeepsStores
  BY <1>6 DEF Close, KeepsStores, Storing, Busy, Of, TypeOK
<1>7. ASSUME NEW t \in Tab, Deliver(t) PROVE KeepsStores
  BY <1>7, TokenChangedEffect, AddingKeepsStores DEF Deliver, TypeOK
<1>8. ASSUME NEW k \in Slot, FrameReady(k) PROVE KeepsStores
  <2> DEFINE waiting == {j \in Slot : Of(j, calls[k].tab) /\ calls[j].stage = "frame"}
  <2>1. PICK early \in SUBSET (waiting \ {k}) :
          calls' = [j \in Slot |->
            IF j \in early THEN Idle
            ELSE IF j \in waiting THEN [calls[j] EXCEPT !.stage = "sent"]
            ELSE calls[j]]
    BY <1>8 DEF FrameReady
  <2>2. \A j \in waiting : calls[j] \in Call /\ ~Storing(j)
    BY DEF Of, Storing, TypeOK
  <2>3. \A j \in waiting : calls'[j] = Idle \/ calls'[j].stage = "sent"
    BY <2>1, <2>2 DEF Call
  <2>4. \A j \in Slot \ waiting : calls'[j] = calls[j]
    BY <2>1
  <2> QED
    BY <2>2, <2>3, <2>4 DEF KeepsStores, Storing
<1>9. ASSUME NEW k \in Slot, Answer(k) PROVE KeepsStores
  <2>1. \A j \in Slot : j # k => calls'[j] = calls[j]
    BY <1>9 DEF Answer, TypeOK
  <2>2. calls[k] \in Call /\ calls[k].stage = "sent"
    BY <1>9 DEF Answer, TypeOK
  <2>3. calls'[k].stage = "answered"
    BY <1>9, <2>2 DEF Answer, TypeOK, Call
  <2> QED
    BY <2>1, <2>2, <2>3 DEF KeepsStores, Storing
<1>10. ASSUME NEW k \in Slot, Refuse(k) PROVE KeepsStores
  BY <1>10 DEF Refuse, KeepsStores, Storing, TypeOK
<1>11. ASSUME Tick \/ UNCHANGED vars PROVE KeepsStores
  BY <1>1, <1>11 DEF Tick, vars
<1> QED
  BY <1>2, <1>3, <1>4, <1>5, <1>6, <1>7, <1>8, <1>9, <1>10, <1>11 DEF Next, TimerFires

\* What receiving a token does to them: the token is not stored, or the call
\* joins them, in a tab that had none.
LEMMA ReceiveEffect ==
  ASSUME TypeOK, NEW k \in Slot, Receive(k)
  PROVE  \/ KeepsStores /\ storage' = storage
         \/ /\ storage' = Stored(calls[k].token)
            /\ calls'[k] # Idle /\ calls'[k].stage = "stored"
            /\ calls'[k].tab = calls[k].tab /\ calls'[k].token = calls[k].token
            /\ \A j \in Slot : Storing(j) => j # k /\ calls[j].tab # calls[k].tab
            /\ \A j \in Slot : j # k => calls'[j] = calls[j]
<1>1. calls[k] \in Call /\ calls[k].stage = "answered"
  BY DEF Receive, TypeOK
<1>2. CASE isExpiredToken(calls[k].token)
  BY <1>1, <1>2 DEF Receive, KeepsStores, Storing, TypeOK
<1>3. CASE ~isExpiredToken(calls[k].token)
  <2>1. calls' = [calls EXCEPT ![k] = [calls[k] EXCEPT !.stage = "stored"]]
    BY <1>3 DEF Receive, TypeOK
  <2>2. calls'[k] = [calls[k] EXCEPT !.stage = "stored"]
    BY <2>1 DEF TypeOK
  <2>3. calls'[k] # Idle
    BY <1>1, <2>2, NoneAssumption DEF Call
  <2>4. calls'[k].stage = "stored" /\ calls'[k].tab = calls[k].tab
        /\ calls'[k].token = calls[k].token
    BY <1>1, <2>2 DEF Call
  <2> QED
    BY <1>1, <1>3, <2>1, <2>3, <2>4 DEF Receive, Storing, Busy, TypeOK
<1> QED
  BY <1>2, <1>3

\* What finishing a call does to them: it leaves them, and the others stay.
LEMMA FinishEffect ==
  ASSUME TypeOK, NEW k \in Slot, Finish(k)
  PROVE  /\ calls[k] \in Call /\ calls[k].token \in Token
         /\ AddsAtMostOne(calls[k].tab, "setup", [calls EXCEPT ![k] = Idle])
         /\ ~(calls'[k] # Idle /\ calls'[k].stage = "stored")
         /\ \A j \in Slot : j # k =>
              /\ (calls'[j] # Idle /\ calls'[j].stage = "stored") <=> Storing(j)
              /\ Storing(j) => calls'[j] = calls[j]
<1> DEFINE t == calls[k].tab
           token == calls[k].token
           others == [calls EXCEPT ![k] = Idle]
<1>1. calls[k] \in Call /\ t \in Tab /\ token \in Token
  BY DEF Finish, Storing, TypeOK, HaveTokens, Call
<1>2. others \in [Slot -> Call \union {Idle}] /\ HaveTokens(others)
  BY DEF TypeOK, HaveTokens
<1>3. TokenChanged(t, token, others) \/ calls' = others
  BY DEF Finish
<1>4. AddsAtMostOne(t, "setup", others)
  <2>1. CASE TokenChanged(t, token, others)
    BY <1>1, <1>2, <2>1, TokenChangedEffect DEF TypeOK
  <2>2. CASE calls' = others
    BY <1>2, <2>2 DEF AddsAtMostOne
  <2> QED
    BY <1>3, <2>1, <2>2
<1>5. \A j \in Slot : j # k => others[j] = calls[j]
  BY DEF TypeOK
<1>6. others[k] = Idle
  BY DEF TypeOK
<1> HIDE DEF others
<1>7. \A j \in Slot :
        \/ calls'[j] = others[j]
        \/ others[j] = Idle /\ calls'[j].stage \in {"frame", "sent"}
  BY <1>4 DEF AddsAtMostOne
<1>8. ~(calls'[k] # Idle /\ calls'[k].stage = "stored")
  BY <1>6, <1>7
<1>9. \A j \in Slot : j # k =>
        /\ (calls'[j] # Idle /\ calls'[j].stage = "stored") <=> Storing(j)
        /\ Storing(j) => calls'[j] = calls[j]
  BY <1>5, <1>7 DEF Storing
<1> QED
  BY <1>1, <1>4, <1>8, <1>9 DEF others

\* One call at a time writes a tab's cache.
LEMMA OneStoreStep == TypeOK /\ OneStore /\ [Next]_vars => OneStore'
<1> SUFFICES ASSUME TypeOK, OneStore, [Next]_vars PROVE OneStore'
  OBVIOUS
<1>1. CASE KeepsStores
  BY <1>1 DEF KeepsStores, OneStore, Storing
<1>2. ASSUME NEW k \in Slot, Receive(k) PROVE OneStore'
  BY <1>1, <1>2, ReceiveEffect DEF OneStore, Storing
<1>3. ASSUME NEW k \in Slot, Finish(k) PROVE OneStore'
  BY <1>3, FinishEffect DEF OneStore, Storing
<1> QED
  BY <1>1, <1>2, <1>3, OtherStepsKeepStores

\* Local storage holds tokens as OAuthLocalStorage leaves them.
LEMMA StorageIsStoredStep ==
  TypeOK /\ StorageIsStored /\ [Next]_vars => StorageIsStored'
<1> SUFFICES ASSUME TypeOK, StorageIsStored, [Next]_vars PROVE StorageIsStored'
  OBVIOUS
<1>1. ASSUME UNCHANGED storage PROVE StorageIsStored'
  BY <1>1 DEF StorageIsStored, Stored
<1>2. ASSUME NEW k \in Slot, Receive(k) PROVE StorageIsStored'
  <2>1. calls[k].token \in Token
    BY <1>2 DEF Receive, TypeOK, HaveTokens
  <2>2. CASE storage' = Stored(calls[k].token)
    <3> DEFINE token == calls[k].token
    <3>1. storage' = [token EXCEPT !.refreshToken = token.refreshToken /\ ~ProtectRefreshToken]
      BY <2>2 DEF Stored
    <3> HIDE DEF token
    <3>2. storage' \in Token /\ storage'.refreshToken = (token.refreshToken /\ ~ProtectRefreshToken)
      BY <2>1, <3>1, ProtectAssumption DEF Token, token
    <3>3. [storage' EXCEPT !.refreshToken = storage'.refreshToken /\ ~ProtectRefreshToken] = storage'
      BY <3>2, ProtectAssumption DEF Token
    <3> QED
      BY <3>3 DEF StorageIsStored, Stored
  <2> QED
    BY <1>1, <1>2, <2>2, ReceiveEffect
<1> QED
  BY <1>1, <1>2 DEF Next, TimerFires, vars, Open, Start, Callback, RequestToken, Dispose, Close, Deliver,
     FireTimer, FireLeaked, FrameReady, Answer, Refuse, Finish, Tick

\* Calls and timers belong to pages that have a client.
LEMMA CallsHaveAPageStep ==
  TypeOK /\ CallsHaveAPage /\ [Next]_vars => CallsHaveAPage'
<1> SUFFICES ASSUME TypeOK, CallsHaveAPage, [Next]_vars PROVE CallsHaveAPage'
  OBVIOUS
<1> USE DEF Alive
<1>1. ASSUME NEW t \in Tab, Open(t) PROVE CallsHaveAPage'
  BY <1>1 DEF Open, CallsHaveAPage, Of, TypeOK, Call, timers
<1>2. ASSUME NEW t \in Tab, Start(t) PROVE CallsHaveAPage'
  <2>1. AddsAtMostOne(t, "setup", calls) /\ \A u \in Tab : u # t => armed'[u] = armed[u]
    BY <1>2, SetupEffect DEF Start, TypeOK
  <2> QED
    BY <1>2, <2>1 DEF Start, CallsHaveAPage, AddsAtMostOne, Of, TypeOK, Call
<1>3. ASSUME NEW t \in Tab, Callback(t) PROVE CallsHaveAPage'
  BY <1>3 DEF Callback, CallsHaveAPage, Of, TypeOK, Call, timers
<1>4. ASSUME NEW t \in Tab, RequestToken(t) PROVE CallsHaveAPage'
  <2>1. AddsAtMostOne(t, "request", calls)
    BY <1>4, GetTokenEffect DEF RequestToken
  <2> QED
    BY <1>4, <2>1 DEF RequestToken, GetToken, CallsHaveAPage, AddsAtMostOne, Of, TypeOK, Call, timers
<1>5. ASSUME NEW t \in Tab, Dispose(t) PROVE CallsHaveAPage'
  BY <1>5 DEF Dispose, CallsHaveAPage, Of, TypeOK, Call
<1>6. ASSUME NEW t \in Tab, Close(t) PROVE CallsHaveAPage'
  BY <1>6 DEF Close, CallsHaveAPage, Of, TypeOK, Call
<1>7. ASSUME NEW t \in Tab, Deliver(t) PROVE CallsHaveAPage'
  <2>1. /\ AddsAtMostOne(t, "setup", calls)
        /\ \A u \in Tab : u # t => armed'[u] = armed[u]
        /\ page[t] # "running" => armed' = armed /\ calls' = calls
    BY <1>7, TokenChangedEffect DEF Deliver, TypeOK
  <2> QED
    BY <1>7, <2>1 DEF Deliver, CallsHaveAPage, AddsAtMostOne, Of, TypeOK, Call
<1>8. ASSUME NEW t \in Tab, FireTimer(t) \/ FireLeaked(t) PROVE CallsHaveAPage'
  <2>1. AddsAtMostOne(t, "timer", calls) /\ page[t] \in {"running", "disposed"}
    BY <1>8, GetTokenEffect DEF FireTimer, FireLeaked, CallsHaveAPage
  <2> QED
    BY <1>8, <2>1 DEF FireTimer, FireLeaked, GetToken, CallsHaveAPage, AddsAtMostOne, Of, TypeOK, Call
<1>9. ASSUME NEW k \in Slot, FrameReady(k) PROVE CallsHaveAPage'
  <2> DEFINE waiting == {j \in Slot : Of(j, calls[k].tab) /\ calls[j].stage = "frame"}
  <2>1. PICK early \in SUBSET (waiting \ {k}) :
          /\ calls' = [j \in Slot |->
               IF j \in early THEN Idle
               ELSE IF j \in waiting THEN [calls[j] EXCEPT !.stage = "sent"]
               ELSE calls[j]]
          /\ Rejected(early)
    BY <1>9 DEF FrameReady
  <2>2. \A j \in waiting : calls[j] \in Call /\ calls[j] # Idle /\ calls[j].why # "callback"
    BY DEF Of, TypeOK, CallsHaveAPage
  <2>3. page' = page
    BY <2>1, <2>2 DEF Rejected, TypeOK
  <2>4. \A j \in Slot : calls'[j] # Idle =>
          /\ calls[j] # Idle
          /\ calls'[j].tab = calls[j].tab /\ calls'[j].why = calls[j].why
          /\ calls'[j].stage # calls[j].stage => calls'[j].stage = "sent"
    BY <2>1, <2>2 DEF Call
  <2> QED
    BY <1>9, <2>3, <2>4 DEF FrameReady, CallsHaveAPage, Of, TypeOK
<1>10. ASSUME NEW k \in Slot, Answer(k) PROVE CallsHaveAPage'
  <2>1. calls[k] \in Call
    BY <1>10 DEF Answer, TypeOK
  <2>2. \A j \in Slot : calls'[j] # Idle =>
          /\ calls[j] # Idle
          /\ calls'[j].tab = calls[j].tab /\ calls'[j].why = calls[j].why
          /\ calls'[j].stage # calls[j].stage => calls'[j].stage = "answered"
    BY <1>10, <2>1 DEF Answer, TypeOK, Call
  <2> QED
    BY <1>10, <2>2 DEF Answer, CallsHaveAPage, Of, TypeOK, timers
<1>11. ASSUME NEW k \in Slot, calls' = [calls EXCEPT ![k] = Idle], calls[k] # Idle, Rejected({k}),
              UNCHANGED <<cache, mail, armed, leaked>>
       PROVE CallsHaveAPage'
  <2>1. \A t \in Tab :
          \/ page'[t] = page[t]
          \/ page'[t] = "stuck" /\ calls[k].tab = t /\ calls[k].why = "callback"
    BY <1>11, RejectedEffect
  <2>2. \A j \in Slot : calls'[j] # Idle => j # k /\ calls'[j] = calls[j] /\ calls[j] # Idle
    BY <1>11 DEF TypeOK
  <2>3. \A j \in Slot : calls[j] # Idle => calls[j].tab \in Tab
    BY DEF TypeOK, Call
  <2>4. \A j \in Slot : calls'[j] # Idle => page'[calls[j].tab] = page[calls[j].tab]
    BY <1>11, <2>1, <2>2, <2>3 DEF CallsHaveAPage, Of
  <2> QED
    BY <1>11, <2>1, <2>2, <2>3, <2>4 DEF CallsHaveAPage, Of
<1>12. ASSUME NEW k \in Slot, Refuse(k) PROVE CallsHaveAPage'
  BY <1>11, <1>12 DEF Refuse
<1>13. ASSUME NEW k \in Slot, Receive(k) PROVE CallsHaveAPage'
  <2>1. CASE isExpiredToken(calls[k].token)
    BY <1>11, <1>13, <2>1 DEF Receive
  <2>2. CASE ~isExpiredToken(calls[k].token)
    <3>1. calls[k] \in Call
      BY <1>13 DEF Receive, TypeOK
    <3>2. \A j \in Slot : calls'[j] # Idle =>
            /\ calls[j] # Idle
            /\ calls'[j].tab = calls[j].tab /\ calls'[j].why = calls[j].why
            /\ calls'[j].stage # calls[j].stage => calls'[j].stage = "stored"
      BY <1>13, <2>2, <3>1 DEF Receive, TypeOK, Call
    <3> QED
      BY <1>13, <2>2, <3>2 DEF Receive, CallsHaveAPage, Of, TypeOK
  <2> QED
    BY <2>1, <2>2
<1>14. ASSUME NEW k \in Slot, Finish(k) PROVE CallsHaveAPage'
  <2> DEFINE t == calls[k].tab
             token == calls[k].token
             others == [calls EXCEPT ![k] = Idle]
  <2>1. /\ calls[k] \in Call /\ calls[k] # Idle /\ t \in Tab /\ token \in Token
        /\ AddsAtMostOne(t, "setup", others)
    BY <1>14, FinishEffect DEF Finish, Storing, Call
  <2>2. others \in [Slot -> Call \union {Idle}] /\ HaveTokens(others)
    BY DEF TypeOK, HaveTokens
  <2>3. \A j \in Slot : others[j] # Idle => j # k /\ others[j] = calls[j]
    BY DEF TypeOK
  <2>4. page[t] \in {"running", "disposed", "callback"}
        /\ (calls[k].why = "callback" <=> page[t] = "callback")
    BY <2>1 DEF CallsHaveAPage
  <2>5. TokenChanged(t, token, others) =>
          /\ \A u \in Tab : u # t => armed'[u] = armed[u]
          /\ page[t] # "running" => armed' = armed /\ calls' = others
    BY <2>1, <2>2, TokenChangedEffect DEF TypeOK
  <2>6. \A u \in Tab : page'[u] \notin Alive => mail'[u] = 0
    BY <1>14 DEF Finish, TypeOK
  <2>7. CASE calls[k].why = "callback"
    <3>1. /\ calls' = others /\ armed' = armed /\ leaked' = leaked
          /\ cache' = [cache EXCEPT ![t] = NoToken] /\ page' = [page EXCEPT ![t] = "closed"]
      BY <1>14, <2>4, <2>5, <2>7 DEF Finish
    <3>2. \A j \in Slot : calls'[j] # Idle => calls'[j] = calls[j] /\ calls[j].tab # t
      BY <2>1, <2>3, <2>7, <3>1 DEF CallsHaveAPage, Of
    <3>3. armed[t] = NoTimer /\ leaked[t] = {}
      BY <2>1, <2>4, <2>7 DEF CallsHaveAPage
    <3>4. \A u \in Tab : u # t => page'[u] = page[u] /\ cache'[u] = cache[u]
      BY <3>1
    <3>5. page'[t] = "closed" /\ cache'[t] = NoToken
      BY <2>1, <3>1 DEF TypeOK
    <3>6. \A j \in Slot : calls[j] # Idle => calls[j].tab \in Tab
      BY DEF TypeOK, Call
    <3> HIDE DEF others, t
    <3> QED
      BY <2>6, <3>1, <3>2, <3>3, <3>4, <3>5, <3>6 DEF CallsHaveAPage, Of
  <2>8. CASE calls[k].why # "callback"
    <3>1. page' = page /\ cache' = [cache EXCEPT ![t] = token]
      BY <1>14, <2>8 DEF Finish
    <3>2. \A u \in Tab : u # t => armed'[u] = armed[u] /\ leaked'[u] = leaked[u]
      BY <1>14, <2>1, <2>5 DEF Finish, TypeOK
    <3>3. page[t] \in {"running", "disposed"}
      BY <2>4, <2>8
    <3>4. \A j \in Slot : calls'[j] # Idle =>
            \/ calls[j] # Idle /\ calls'[j] = calls[j]
            \/ /\ calls'[j].tab = t /\ calls'[j].why = "setup"
    <4>1. \A j \in Slot :
            \/ calls'[j] = others[j]
            \/ calls'[j].tab = t /\ calls'[j].why = "setup"
      BY <2>1 DEF AddsAtMostOne
    <4> HIDE DEF others, t
    <4> QED
      BY <2>3, <4>1
    <3>5. \A u \in Tab : page[u] \notin Alive => u # t /\ cache'[u] = cache[u]
      BY <2>1, <3>1, <3>3
    <3> HIDE DEF others, t
    <3>6. \A u \in Tab : page[u] \notin Alive => cache'[u] = NoToken /\ mail'[u] = 0
      BY <2>6, <3>1, <3>5 DEF CallsHaveAPage
    <3>7. \A u \in Tab : armed'[u] # NoTimer \/ leaked'[u] # {} =>
            page[u] \in {"running", "disposed"}
      BY <3>2, <3>3 DEF CallsHaveAPage
    <3>8. \A j \in Slot : calls'[j] # Idle =>
            /\ page[calls'[j].tab] \in {"running", "disposed", "callback"}
            /\ calls'[j].why = "callback" <=> page[calls'[j].tab] = "callback"
            /\ calls'[j].why = "callback" => calls'[j].stage # "frame"
      BY <3>3, <3>4 DEF CallsHaveAPage
    <3>9. ASSUME NEW i \in Slot, NEW j \in Slot, calls'[i] # Idle, calls'[j] # Idle,
                 calls'[j].tab = calls'[i].tab, calls'[i].why = "callback"
          PROVE  j = i
      BY <3>3, <3>4, <3>9 DEF CallsHaveAPage, Of
    <3> QED
      BY <3>1, <3>6, <3>7, <3>8, <3>9 DEF CallsHaveAPage, Of
  <2> QED
    BY <2>7, <2>8
<1>15. ASSUME Tick \/ UNCHANGED vars PROVE CallsHaveAPage'
  BY <1>15 DEF Tick, vars, timers, CallsHaveAPage, Of
<1> QED
  BY <1>1, <1>2, <1>3, <1>4, <1>5, <1>6, <1>7, <1>8, <1>9, <1>10, <1>12, <1>13, <1>14,
     <1>15 DEF Next, TimerFires

-----------------------------------------------------------------------------
(* The caches. *)

LEMMA InitInvariant == Init => Invariant
<1> SUFFICES ASSUME Init PROVE Invariant
  OBVIOUS
<1>1. TypeOK
  BY InitTyping
<1>2. CallsHaveAPage /\ OneStore /\ StoringIsNewest /\ CachesConverge
  BY DEF Init, CallsHaveAPage, OneStore, StoringIsNewest, CachesConverge, Storing, Of, Alive
<1>3. StorageIsStored
  <2>1. storage # NoToken => storage \in Token /\ storage.refreshToken = ~ProtectRefreshToken
    BY BufferAssumption, ProtectAssumption DEF Init, Token
  <2> QED
    BY <2>1, ProtectAssumption DEF StorageIsStored, Stored, Token
<1> QED
  BY <1>1, <1>2, <1>3 DEF Invariant

\* While nobody writes storage or finishes a write, a tab only takes what is
\* in storage, and only a tab that is not writing handles a broadcast.
LEMMA QuietStep ==
  ASSUME Invariant, KeepsStores, UNCHANGED storage,
         \A t \in Tab :
           /\ \/ mail'[t] = mail[t] /\ cache'[t] = cache[t]
              \/ cache'[t] = storage /\ ~Busy(t)
              \/ cache'[t] = NoToken /\ ~Busy(t)
  PROVE  StoringIsNewest' /\ CachesConverge'
<1>1. \A t \in Tab : Busy(t) => mail'[t] = mail[t]
  OBVIOUS
<1>2. \A k \in Slot : Storing(k) => calls[k].tab \in Tab /\ Busy(calls[k].tab)
  BY DEF Invariant, TypeOK, Storing, Busy, Call
<1>3. StoringIsNewest'
  BY <1>1, <1>2 DEF Invariant, StoringIsNewest, KeepsStores, Storing, Stored
<1>4. \A t \in Tab : Busy(t)' <=> Busy(t)
  BY DEF KeepsStores, Storing, Busy
<1>5. CachesConverge'
  BY <1>4 DEF Invariant, CachesConverge, StorageIsStored, Stored
<1> QED
  BY <1>3, <1>5

\* A token that arrives is in storage and makes its tab busy.
LEMMA ReceiveConverges ==
  ASSUME Invariant, NEW k \in Slot, Receive(k)
  PROVE  StoringIsNewest' /\ CachesConverge'
<1>1. UNCHANGED <<cache, mail>>
  BY DEF Receive
<1>2. CASE KeepsStores /\ storage' = storage
  BY <1>1, <1>2, QuietStep
<1>3. CASE ~(KeepsStores /\ storage' = storage)
  <2>1. /\ storage' = Stored(calls[k].token)
        /\ calls'[k] # Idle /\ calls'[k].stage = "stored"
        /\ calls'[k].tab = calls[k].tab /\ calls'[k].token = calls[k].token
        /\ \A j \in Slot : Storing(j) => j # k /\ calls[j].tab # calls[k].tab
        /\ \A j \in Slot : j # k => calls'[j] = calls[j]
    BY <1>3, ReceiveEffect DEF Invariant
  <2>2. calls[k].tab \in Tab
    BY DEF Receive, Invariant, TypeOK, Call
  <2>3. CachesConverge'
    BY <2>1, <2>2 DEF CachesConverge, Busy, Storing
  <2>4. StoringIsNewest'
    BY <2>1 DEF StoringIsNewest, Storing, Stored
  <2> QED
    BY <2>3, <2>4
<1> QED
  BY <1>2, <1>3

\* A finished call tells every other tab that has a client.
LEMMA FinishConverges ==
  ASSUME Invariant, NEW k \in Slot, Finish(k)
  PROVE  StoringIsNewest' /\ CachesConverge'
<1> DEFINE t == calls[k].tab
<1> USE DEF Invariant
<1>1. /\ t \in Tab /\ Storing(k) /\ calls[k].token \in Token /\ UNCHANGED storage
      /\ ~(calls'[k] # Idle /\ calls'[k].stage = "stored")
      /\ \A j \in Slot : j # k =>
           /\ (calls'[j] # Idle /\ calls'[j].stage = "stored") <=> Storing(j)
           /\ Storing(j) => calls'[j] = calls[j]
  BY FinishEffect DEF Finish, Call
<1>2. \A u \in Tab :
        /\ page'[u] \notin Alive => mail'[u] = 0
        /\ u # t => page'[u] = page[u] /\ cache'[u] = cache[u]
        /\ u # t /\ page[u] \in Alive => mail'[u] = mail[u] + 1
        /\ page'[t] \in Alive => mail'[t] = mail[t]
  BY <1>1 DEF Finish, TypeOK, Alive
<1>3. \A j \in Slot : j # k /\ Storing(j) =>
        calls[j].tab \in Tab /\ calls[j].tab # t /\ mail'[calls[j].tab] > 0
  BY <1>1, <1>2 DEF OneStore, CallsHaveAPage, Storing, TypeOK, Call, Alive
<1>4. StoringIsNewest'
  BY <1>1, <1>3 DEF StoringIsNewest, Storing
<1>5. ASSUME \A u \in Tab : ~Busy(u)', NEW u \in Tab, cache'[u] # NoToken, mail'[u] = 0
      PROVE  Stored(cache'[u]) = storage
  <2>1. \A j \in Slot : j # k => ~Storing(j)
    BY <1>1, <1>3, <1>5 DEF Busy, Storing
  <2>2. CASE u # t
    <3>1. mail[u] \in Nat /\ (page[u] \notin Alive => cache[u] = NoToken)
      BY DEF CallsHaveAPage, TypeOK
    <3>2. page[u] \notin Alive
      BY <1>2, <1>5, <2>2, <3>1
    <3> QED
      BY <1>2, <1>5, <2>2, <3>1, <3>2
  <2>3. CASE u = t
    <3>1. cache'[t] = calls[k].token /\ page'[t] = page[t] /\ page[t] \in Alive
      BY <1>1, <1>5, <2>3 DEF Finish, CallsHaveAPage, Storing, TypeOK, Alive
    <3>2. mail[t] = 0
      BY <1>2, <1>5, <2>3, <3>1
    <3> QED
      BY <1>1, <2>1, <2>3, <3>1, <3>2 DEF StoringIsNewest
  <2> QED
    BY <2>2, <2>3
<1>6. CachesConverge'
  BY <1>1, <1>5 DEF CachesConverge, Stored
<1> QED
  BY <1>4, <1>6

LEMMA ConvergeStep == Invariant /\ [Next]_vars => StoringIsNewest' /\ CachesConverge'
<1> SUFFICES ASSUME Invariant, [Next]_vars PROVE StoringIsNewest' /\ CachesConverge'
  OBVIOUS
<1> DEFINE Quiet == \A k \in Slot : ~Receive(k) /\ ~Finish(k)
<1>1. Quiet => KeepsStores
  BY OtherStepsKeepStores DEF Invariant
<1>2. ASSUME Quiet, UNCHANGED <<storage, cache, mail>> PROVE StoringIsNewest' /\ CachesConverge'
  BY <1>1, <1>2, QuietStep
<1>3. ASSUME Quiet, NEW t \in Tab, Start(t) PROVE StoringIsNewest' /\ CachesConverge'
  <2>1. ~Busy(t)
    BY <1>3 DEF Start, Busy, Storing, Invariant, CallsHaveAPage
  <2> QED
    BY <1>1, <1>3, <2>1, QuietStep DEF Start, Invariant, TypeOK
<1>4. ASSUME Quiet, NEW t \in Tab, RequestToken(t) \/ TimerFires(t)
      PROVE StoringIsNewest' /\ CachesConverge'
  BY <1>1, <1>4, QuietStep
  DEF RequestToken, TimerFires, FireTimer, FireLeaked, GetToken, Value, Invariant, TypeOK
<1>5. ASSUME Quiet, NEW t \in Tab, Close(t) \/ Deliver(t)
      PROVE StoringIsNewest' /\ CachesConverge'
  BY <1>1, <1>5, QuietStep DEF Close, Deliver, Invariant, TypeOK
<1>6. CASE Quiet
  BY <1>2, <1>3, <1>4, <1>5, <1>6 DEF Next, vars, Open, Callback, Dispose, FrameReady, Answer,
     Refuse, Tick
<1> QED
  BY <1>6, ReceiveConverges, FinishConverges

\* Once nothing is being written and its broadcasts are handled, every tab
\* holds what is in storage, however the tabs' writes were ordered.
THEOREM CachesAgree == Spec => []CachesConverge
<1>1. Invariant /\ [Next]_vars => Invariant'
  BY Typing, CallsHaveAPageStep, OneStoreStep, StorageIsStoredStep, ConvergeStep DEF Invariant
<1>2. Invariant => CachesConverge
  BY DEF Invariant
<1> QED
  BY <1>1, <1>2, InitInvariant, PTL DEF Spec

-----------------------------------------------------------------------------
(***************************************************************************)
(* The refresh timers, for tokens short enough that no delay overflows     *)
(* setTimeout's integer.                                                   *)
(***************************************************************************)

ShortLifetimes == Buffer < TimerRange /\ \A lifetime \in Lifetime : lifetime < TimerRange

\* No token expires later than a timer can reach.
Reachable(token) == token.expiresAt - now < TimerRange

TokensAreReachable ==
  /\ storage # NoToken => Reachable(storage)
  /\ \A t \in Tab : cache[t] # NoToken => Reachable(cache[t])
  /\ \A k \in Slot : calls[k] # Idle /\ calls[k].stage \in {"answered", "stored"} =>
       Reachable(calls[k].token)

\* The timer that refreshTimeout holds is the one for the token a running tab holds.
\* (The timers it has let go of, `leaked`, are for older tokens and go on:
\* setupAutoRefresh.ts:14-24.)
TimerMatchesToken ==
  \A t \in Tab : page[t] = "running" /\ armed[t] # NoTimer =>
    cache[t] # NoToken /\ armed[t] = cache[t].expiresAt - RefreshBuffer

TimerInvariant ==
  TypeOK /\ CallsHaveAPage /\ TokensAreReachable /\ TimerMatchesToken /\ RefreshIsPlanned

\* A call of the tab that will set its refresh up again.
Plans(t, some) ==
  \E k \in Slot : some[k] # Idle /\ some[k].tab = t /\ some[k].why \in {"setup", "timer"}

-----------------------------------------------------------------------------
(* What the operators do. *)

\* A delay that fits is kept: the timer of a valid token fires when only the
\* smaller buffer is left.
LEMMA FireTimeOfValid ==
  ASSUME now \in Nat, NEW t \in Tab, NEW token \in Token, isValidToken(token, t), Reachable(token)
  PROVE  FireTime(token) = token.expiresAt - RefreshBuffer
<1> DEFINE delay == token.expiresAt - now - RefreshBuffer
<1>1. token.expiresAt \in Nat /\ delay \in Int /\ delay >= 0 /\ delay < TimerRange
  BY BufferAssumption DEF isValidToken, isExpiredToken, Reachable, Token
<1>2. ASSUME NEW a \in Nat, NEW b \in Nat \ {0}, a < b PROVE a % b = a
  BY <1>2
<1>3. (delay + TimerRange) % (2 * TimerRange) = delay + TimerRange
  <2>1. delay + TimerRange \in Nat /\ 2 * TimerRange \in Nat \ {0}
        /\ delay + TimerRange < 2 * TimerRange
    BY <1>1, BufferAssumption
  <2> QED
    BY <1>2, <2>1
<1> QED
  BY <1>1, <1>3, BufferAssumption DEF FireTime

\* After a setup the tab has the timer of its token, or none, and then it
\* waits for a refresh or has failed.
LEMMA SetupPlans ==
  ASSUME now \in Nat, armed \in [Tab -> Int \union {NoTimer}], failed \subseteq Tab,
         NEW t \in Tab, NEW value \in Token \union {NoToken},
         value # NoToken => Reachable(value),
         NEW others \in [Slot -> Call \union {Idle}], HaveTokens(others),
         Setup(t, value, others)
  PROVE  /\ armed'[t] # NoTimer => value # NoToken /\ armed'[t] = value.expiresAt - RefreshBuffer
         /\ armed'[t] # NoTimer \/ t \in failed' \/ Plans(t, calls')
         /\ \A u \in Tab : u # t => armed'[u] = armed[u] /\ (u \in failed => u \in failed')
         /\ \A k \in Slot : others[k] # Idle => calls'[k] = others[k]
<1>1. CASE value # NoToken /\ ~isValidToken(value, t)
  <2>1. armed' = [armed EXCEPT ![t] = NoTimer] /\ Refresh(t, "setup", value, others) /\ failed' = failed
    BY <1>1 DEF Setup
  <2>2. AddsAtMostOne(t, "setup", others)
    BY <1>1, <2>1, RefreshAdds
  <2>3. \E k \in Slot : others[k] = Idle /\ calls'[k] # others[k]
    <3>1. PICK k \in Slot :
            /\ others[k] = Idle
            /\ calls' = [others EXCEPT ![k] =
                 [tab |-> t, why |-> "setup", token |-> NoToken,
                  stage |-> IF value.refreshToken THEN "sent" ELSE "frame"]]
      BY <2>1 DEF Refresh
    <3>2. [tab |-> t, why |-> "setup", token |-> NoToken,
           stage |-> IF value.refreshToken THEN "sent" ELSE "frame"] \in Call
      BY DEF Call
    <3> QED
      BY <3>1, <3>2, NoneAssumption
  <2>4. Plans(t, calls')
    BY <2>2, <2>3 DEF AddsAtMostOne, Plans
  <2> QED
    BY <2>1, <2>2, <2>4 DEF AddsAtMostOne
<1>2. CASE value = NoToken
  BY <1>2 DEF Setup
<1>3. CASE value # NoToken /\ isValidToken(value, t)
  <2>1. FireTime(value) = value.expiresAt - RefreshBuffer
    BY <1>3, FireTimeOfValid
  <2>2. value.expiresAt - RefreshBuffer \in Int
    BY <1>3, BufferAssumption DEF Token
  <2>3. armed' = [armed EXCEPT ![t] = FireTime(value)] /\ failed' = failed \ {t} /\ calls' = others
    BY <1>3 DEF Setup
  <2> QED
    BY <1>3, <2>1, <2>2, <2>3, NoneAssumption
<1> QED
  BY <1>1, <1>2, <1>3

\* getToken begins a call when the token is not valid, and ends none.
LEMMA GetTokenPlans ==
  ASSUME TypeOK, NEW t \in Tab, NEW why \in {"timer", "request"}, GetToken(t, why)
  PROVE  /\ \A k \in Slot : calls[k] # Idle => calls'[k] = calls[k]
         /\ why = "timer" /\ Value(t) # NoToken /\ ~isValidToken(Value(t), t) => Plans(t, calls')
<1>1. Value(t) \in Token \union {NoToken} /\ AddsAtMostOne(t, why, calls)
  BY GetTokenEffect
<1>2. ASSUME why = "timer", Value(t) # NoToken, ~isValidToken(Value(t), t) PROVE Plans(t, calls')
  <2>1. PICK k \in Slot :
          calls[k] = Idle /\ calls' = [calls EXCEPT ![k] =
            [tab |-> t, why |-> why, token |-> NoToken,
             stage |-> IF Value(t).refreshToken THEN "sent" ELSE "frame"]]
    BY <1>2 DEF GetToken, Refresh
  <2>2. [tab |-> t, why |-> why, token |-> NoToken,
         stage |-> IF Value(t).refreshToken THEN "sent" ELSE "frame"] \in Call
    BY DEF Call
  <2>3. calls'[k] = [tab |-> t, why |-> why, token |-> NoToken,
                     stage |-> IF Value(t).refreshToken THEN "sent" ELSE "frame"]
    BY <2>1 DEF TypeOK
  <2>4. calls'[k] # Idle /\ calls'[k].tab = t /\ calls'[k].why = "timer"
    BY <1>2, <2>2, <2>3, NoneAssumption
  <2> QED
    BY <2>4 DEF Plans
<1> QED
  BY <1>1, <1>2 DEF AddsAtMostOne

-----------------------------------------------------------------------------
(* The steps. *)

\* The clock only brings a token's expiry nearer, and a new token's lifetime
\* is within reach.
LEMMA ReachableStep ==
  ASSUME ShortLifetimes, TypeOK, TokensAreReachable, [Next]_vars
  PROVE  TokensAreReachable'
<1> DEFINE CallsReachable ==
      \A k \in Slot : calls'[k] # Idle /\ calls'[k].stage \in {"answered", "stored"} =>
        Reachable(calls'[k].token)
<1>1. ASSUME UNCHANGED <<now, storage>>, CallsReachable,
             \A t \in Tab : cache'[t] \in {NoToken, cache[t], storage}
                           \/ \E k \in Slot : Storing(k) /\ cache'[t] = calls[k].token
      PROVE  TokensAreReachable'
  BY <1>1 DEF TokensAreReachable, Reachable, Storing
<1>2. ASSUME NEW t \in Tab, NEW why \in {"setup", "timer", "request"}, AddsAtMostOne(t, why, calls)
      PROVE  CallsReachable
  BY <1>2 DEF AddsAtMostOne, TokensAreReachable, Reachable
<1>3. UNCHANGED calls => CallsReachable
  BY DEF TokensAreReachable, Reachable
<1>4. ASSUME NEW t \in Tab, Open(t) \/ Dispose(t) PROVE TokensAreReachable'
  BY <1>1, <1>3, <1>4 DEF Open, Dispose
<1>5. ASSUME NEW t \in Tab, Start(t) PROVE TokensAreReachable'
  <2>1. CallsReachable
    BY <1>2, <1>5, SetupEffect DEF Start, TypeOK
  <2> QED
    BY <1>1, <1>5, <2>1 DEF Start, TypeOK
<1>6. ASSUME NEW t \in Tab, Callback(t) PROVE TokensAreReachable'
  <2>1. CallsReachable
    BY <1>6 DEF Callback, TokensAreReachable, Reachable, TypeOK
  <2> QED
    BY <1>1, <1>6, <2>1 DEF Callback
<1>7. ASSUME NEW t \in Tab, RequestToken(t) \/ FireTimer(t) \/ FireLeaked(t)
      PROVE TokensAreReachable'
  <2>1. CallsReachable /\ cache' = [cache EXCEPT ![t] = Value(t)]
    BY <1>2, <1>7, GetTokenEffect DEF RequestToken, FireTimer, FireLeaked
  <2> QED
    BY <1>1, <1>7, <2>1 DEF RequestToken, FireTimer, FireLeaked, Value, TypeOK
<1>8. ASSUME NEW t \in Tab, Close(t) PROVE TokensAreReachable'
  <2>1. CallsReachable
    BY <1>8 DEF Close, TokensAreReachable, Reachable, TypeOK
  <2> QED
    BY <1>1, <1>8, <2>1 DEF Close, TypeOK
<1>9. ASSUME NEW t \in Tab, Deliver(t) PROVE TokensAreReachable'
  <2>1. CallsReachable
    BY <1>2, <1>9, TokenChangedEffect DEF Deliver, TypeOK
  <2> QED
    BY <1>1, <1>9, <2>1 DEF Deliver, TypeOK
<1>10. ASSUME NEW k \in Slot, FrameReady(k) PROVE TokensAreReachable'
  <2> DEFINE waiting == {j \in Slot : Of(j, calls[k].tab) /\ calls[j].stage = "frame"}
  <2>1. PICK early \in SUBSET (waiting \ {k}) :
          calls' = [j \in Slot |->
            IF j \in early THEN Idle
            ELSE IF j \in waiting THEN [calls[j] EXCEPT !.stage = "sent"]
            ELSE calls[j]]
    BY <1>10 DEF FrameReady
  <2>2. \A j \in waiting : calls[j] \in Call
    BY DEF Of, TypeOK
  <2>3. \A j \in Slot : calls'[j] = Idle \/ calls'[j].stage = "sent" \/ calls'[j] = calls[j]
    BY <2>1, <2>2 DEF Call
  <2>4. CallsReachable
    BY <2>3 DEF TokensAreReachable, Reachable
  <2> QED
    BY <1>1, <1>10, <2>4 DEF FrameReady
<1>11. ASSUME NEW k \in Slot, Answer(k) PROVE TokensAreReachable'
  <2>1. PICK accessToken \in AccessToken, lifetime \in Lifetime :
          calls' = [calls EXCEPT ![k].stage = "answered", ![k].token =
            [accessToken |-> accessToken, expiresAt |-> now + lifetime,
             refreshToken |-> TRUE, owner |-> owner[calls[k].tab]]]
    BY <1>11 DEF Answer
  <2>2. calls[k] \in Call /\ now \in Nat /\ lifetime \in Nat /\ lifetime < TimerRange
    BY <1>11, LifetimeAssumption DEF Answer, TypeOK, ShortLifetimes
  <2>3. calls'[k].token.expiresAt = now + lifetime
    BY <2>1, <2>2 DEF TypeOK, Call
  <2>4. \A j \in Slot : j # k => calls'[j] = calls[j]
    BY <2>1 DEF TypeOK
  <2>5. CallsReachable
    BY <2>2, <2>3, <2>4 DEF TokensAreReachable, Reachable
  <2> QED
    BY <1>1, <1>11, <2>5 DEF Answer
<1>12. ASSUME NEW k \in Slot, Refuse(k) PROVE TokensAreReachable'
  <2>1. CallsReachable
    BY <1>12 DEF Refuse, TokensAreReachable, Reachable, TypeOK
  <2> QED
    BY <1>1, <1>12, <2>1 DEF Refuse
<1>13. ASSUME NEW k \in Slot, Receive(k) PROVE TokensAreReachable'
  <2>1. calls[k] \in Call /\ calls[k].token \in Token /\ Reachable(calls[k].token)
    BY <1>13 DEF Receive, TypeOK, HaveTokens, TokensAreReachable
  <2>2. CallsReachable
    BY <1>13, <2>1 DEF Receive, TokensAreReachable, Reachable, TypeOK, Call
  <2>3. storage' = storage \/ storage' = Stored(calls[k].token)
    BY <1>13 DEF Receive
  <2>4. Stored(calls[k].token).expiresAt = calls[k].token.expiresAt
    BY <2>1 DEF Stored, Token
  <2> QED
    BY <1>13, <2>1, <2>2, <2>3, <2>4 DEF Receive, TokensAreReachable, Reachable
<1>14. ASSUME NEW k \in Slot, Finish(k) PROVE TokensAreReachable'
  <2>1. CallsReachable
    BY <1>14, FinishEffect DEF AddsAtMostOne, TokensAreReachable, Reachable, TypeOK
  <2> QED
    BY <1>1, <1>14, <2>1 DEF Finish, TypeOK
<1>15. ASSUME Tick PROVE TokensAreReachable'
  <2>1. now' = now + 1 /\ UNCHANGED <<storage, cache, calls>>
    BY <1>15 DEF Tick
  <2>2. ASSUME NEW token \in Token, Reachable(token) PROVE token.expiresAt - now' < TimerRange
    BY <2>1, <2>2, BufferAssumption DEF Reachable, Token, TypeOK
  <2> QED
    BY <2>1, <2>2 DEF TokensAreReachable, Reachable, TypeOK, HaveTokens
<1>16. ASSUME UNCHANGED vars PROVE TokensAreReachable'
  BY <1>16 DEF vars, TokensAreReachable, Reachable
<1> QED
  BY <1>4, <1>5, <1>6, <1>7, <1>8, <1>9, <1>10, <1>11, <1>12, <1>13, <1>14, <1>15, <1>16 DEF Next, TimerFires

\* Timers of running tabs follow the tokens they hold, and no running tab is
\* left without a plan.
LEMMA TimerStep ==
  ASSUME TimerInvariant, [Next]_vars
  PROVE  TimerMatchesToken' /\ RefreshIsPlanned'
<1> DEFINE Matches(t) ==
             page'[t] = "running" /\ armed'[t] # NoTimer =>
               cache'[t] # NoToken /\ armed'[t] = cache'[t].expiresAt - RefreshBuffer
           Planned(t) ==
             page'[t] = "running" => armed'[t] # NoTimer \/ t \in failed' \/ Plans(t, calls')
<1> USE DEF TimerInvariant
<1>1. SUFFICES \A t \in Tab : Matches(t) /\ Planned(t)
  BY DEF TimerMatchesToken, RefreshIsPlanned, Plans, Of
<1>2. \A t \in Tab :
        /\ page[t] = "running" /\ armed[t] # NoTimer =>
             cache[t] # NoToken /\ armed[t] = cache[t].expiresAt - RefreshBuffer
        /\ page[t] = "running" => armed[t] # NoTimer \/ t \in failed \/ Plans(t, calls)
  BY DEF TimerMatchesToken, RefreshIsPlanned, Plans, Of
\* A tab whose timer, token and plans a step leaves alone.
<1>3. ASSUME NEW t \in Tab, page'[t] = "running" => page[t] = "running",
             armed'[t] = armed[t], cache'[t] = cache[t] \/ (cache[t] = NoToken /\ page[t] = "running"),
             t \in failed => t \in failed',
             Plans(t, calls) => Plans(t, calls') \/ t \in failed'
      PROVE  Matches(t) /\ Planned(t)
  BY <1>2, <1>3
<1>4. ASSUME NEW t \in Tab, \A k \in Slot : Of(k, t) => calls'[k] = calls[k]
      PROVE  Plans(t, calls) => Plans(t, calls')
  BY <1>4 DEF Plans, Of
<1>5. ASSUME NEW t \in Tab, Open(t) \/ Dispose(t) PROVE \A u \in Tab : Matches(u) /\ Planned(u)
  BY <1>2, <1>5 DEF Open, Dispose, timers, TypeOK, Plans
<1>6. ASSUME NEW t \in Tab, Start(t) PROVE \A u \in Tab : Matches(u) /\ Planned(u)
  <2>1. storage \in Token \union {NoToken} /\ (storage # NoToken => Reachable(storage))
    BY DEF TypeOK, TokensAreReachable
  <2>2. /\ armed'[t] # NoTimer => storage # NoToken /\ armed'[t] = storage.expiresAt - RefreshBuffer
        /\ armed'[t] # NoTimer \/ t \in failed' \/ Plans(t, calls')
        /\ \A u \in Tab : u # t => armed'[u] = armed[u] /\ (u \in failed => u \in failed')
        /\ \A k \in Slot : calls[k] # Idle => calls'[k] = calls[k]
    BY <1>6, <2>1, SetupPlans DEF Start, TypeOK
  <2>3. cache'[t] = storage /\ \A u \in Tab : u # t => cache'[u] = cache[u] /\ page'[u] = page[u]
    BY <1>6 DEF Start, TypeOK
  <2> QED
    BY <1>3, <1>4, <2>2, <2>3 DEF Of
<1>7. ASSUME NEW t \in Tab, Callback(t) PROVE \A u \in Tab : Matches(u) /\ Planned(u)
  <2>1. \A k \in Slot : calls[k] # Idle => calls'[k] = calls[k]
    BY <1>7 DEF Callback, TypeOK
  <2>2. \A u \in Tab : page'[u] = "running" => page[u] = "running"
    BY <1>7 DEF Callback, TypeOK
  <2> QED
    BY <1>3, <1>4, <1>7, <2>1, <2>2 DEF Callback, timers, Of
<1>8. ASSUME NEW t \in Tab, GetToken(t, "request") \/ GetToken(t, "timer"),
             UNCHANGED <<page, armed, failed>>,
             page[t] \in {"running", "disposed"}
      PROVE \A u \in Tab : Matches(u) /\ Planned(u)
  <2>1. \A k \in Slot : calls[k] # Idle => calls'[k] = calls[k]
    BY <1>8, GetTokenPlans
  <2>2. \A u \in Tab :
          \/ cache'[u] = cache[u]
          \/ u = t /\ cache[t] = NoToken
    BY <1>8 DEF GetToken, Value, TypeOK
  <2> QED
    BY <1>2, <1>4, <1>8, <2>1, <2>2 DEF Of
<1>9. ASSUME NEW t \in Tab, RequestToken(t) PROVE \A u \in Tab : Matches(u) /\ Planned(u)
  BY <1>8, <1>9 DEF RequestToken, timers
<1>10. ASSUME NEW t \in Tab, FireLeaked(t) PROVE \A u \in Tab : Matches(u) /\ Planned(u)
  <2>1. page[t] \in {"running", "disposed"}
    BY <1>10 DEF FireLeaked, CallsHaveAPage
  <2> QED
    BY <1>8, <1>10, <2>1 DEF FireLeaked
<1>11. ASSUME NEW t \in Tab, FireTimer(t) PROVE \A u \in Tab : Matches(u) /\ Planned(u)
  <2>1. \A k \in Slot : calls[k] # Idle => calls'[k] = calls[k]
    BY <1>11, GetTokenPlans DEF FireTimer
  <2>2. \A u \in Tab : u # t => armed'[u] = armed[u] /\ cache'[u] = cache[u]
    BY <1>11 DEF FireTimer, GetToken, TypeOK
  <2>3. armed'[t] = NoTimer
    BY <1>11 DEF FireTimer, TypeOK
  <2>4. ASSUME page[t] = "running" PROVE Plans(t, calls')
    <3>1. /\ cache[t] # NoToken /\ cache[t] \in Token /\ Value(t) = cache[t]
          /\ cache[t].expiresAt - RefreshBuffer <= now
      BY <1>2, <1>11, <2>4 DEF FireTimer, Value, TypeOK
    <3>2. ~isValidToken(cache[t], t)
      BY <3>1, BufferAssumption DEF isValidToken, isExpiredToken, Token, TypeOK
    <3> QED
      BY <1>11, <3>1, <3>2, GetTokenPlans DEF FireTimer
  <2>5. page' = page /\ \A u \in Tab : u \in failed => u \in failed'
    BY <1>11 DEF FireTimer
  <2> QED
    BY <1>3, <1>4, <2>1, <2>2, <2>3, <2>4, <2>5 DEF Of
<1>12. ASSUME NEW t \in Tab, Close(t) PROVE \A u \in Tab : Matches(u) /\ Planned(u)
  <2>1. page'[t] = "closed"
    BY <1>12 DEF Close, TypeOK
  <2>2. \A u \in Tab : u # t =>
          /\ page'[u] = page[u] /\ armed'[u] = armed[u] /\ cache'[u] = cache[u]
          /\ u \in failed => u \in failed'
          /\ \A k \in Slot : Of(k, u) => calls'[k] = calls[k]
    BY <1>12 DEF Close, Of, TypeOK
  <2> QED
    BY <1>3, <1>4, <2>1, <2>2
\* The event, in a step that leaves the other tabs alone.
<1>13. ASSUME NEW t \in Tab, NEW value \in Token \union {NoToken}, value # NoToken => Reachable(value),
              NEW others \in [Slot -> Call \union {Idle}], HaveTokens(others),
              \A k \in Slot : others[k] # calls[k] => calls[k].tab = t,
              TokenChanged(t, value, others),
              page'[t] = "running" => page[t] = "running" /\ cache'[t] = value,
              \A u \in Tab : u # t => page'[u] = page[u] /\ cache'[u] = cache[u]
       PROVE  \A u \in Tab : Matches(u) /\ Planned(u)
  <2>1. CASE page[t] = "running"
    <3>1. /\ armed'[t] # NoTimer => value # NoToken /\ armed'[t] = value.expiresAt - RefreshBuffer
          /\ armed'[t] # NoTimer \/ t \in failed' \/ Plans(t, calls')
          /\ \A u \in Tab : u # t => armed'[u] = armed[u] /\ (u \in failed => u \in failed')
          /\ \A k \in Slot : others[k] # Idle => calls'[k] = others[k]
      BY <1>13, <2>1, SetupPlans DEF TokenChanged, TypeOK
    <3>2. \A u \in Tab : u # t => \A k \in Slot : Of(k, u) => calls'[k] = calls[k]
      BY <1>13, <3>1 DEF Of
    <3> QED
      BY <1>3, <1>4, <1>13, <3>1, <3>2
  <2>2. CASE page[t] # "running"
    <3>1. calls' = others /\ armed' = armed /\ failed' = failed
      BY <1>13, <2>2 DEF TokenChanged
    <3>2. \A u \in Tab : u # t => \A k \in Slot : Of(k, u) => calls'[k] = calls[k]
      BY <1>13, <3>1 DEF Of
    <3> QED
      BY <1>3, <1>4, <1>13, <2>2, <3>1, <3>2
  <2> QED
    BY <2>1, <2>2
<1>14. ASSUME NEW t \in Tab, Deliver(t) PROVE \A u \in Tab : Matches(u) /\ Planned(u)
  <2>1. storage \in Token \union {NoToken} /\ (storage # NoToken => Reachable(storage))
        /\ calls \in [Slot -> Call \union {Idle}] /\ HaveTokens(calls)
    BY DEF TypeOK, TokensAreReachable
  <2>2. TokenChanged(t, storage, calls) /\ page' = page /\ cache'[t] = storage
        /\ \A u \in Tab : u # t => cache'[u] = cache[u]
    BY <1>14 DEF Deliver, TypeOK
  <2> QED
    BY <1>13, <2>1, <2>2
<1>15. ASSUME NEW k \in Slot, Finish(k) PROVE \A u \in Tab : Matches(u) /\ Planned(u)
  <2> DEFINE t == calls[k].tab
             token == calls[k].token
             others == [calls EXCEPT ![k] = Idle]
  <2>1. /\ t \in Tab /\ token \in Token /\ Reachable(token) /\ calls[k] # Idle
        /\ (calls[k].why = "callback" <=> page[t] = "callback")
    BY <1>15, FinishEffect DEF Finish, Storing, Call, TokensAreReachable, CallsHaveAPage
  <2>2. /\ others \in [Slot -> Call \union {Idle}] /\ HaveTokens(others)
        /\ \A j \in Slot : others[j] # calls[j] => calls[j].tab = t
    BY DEF TypeOK, HaveTokens
  <2>3. /\ page'[t] = "running" => page[t] = "running" /\ cache'[t] = token
        /\ \A u \in Tab : u # t => page'[u] = page[u] /\ cache'[u] = cache[u]
    BY <1>15, <2>1 DEF Finish, TypeOK
  <2>4. CASE TokenChanged(t, token, others)
    <3> HIDE DEF t, token, others
    <3> QED
      BY <1>13, <2>1, <2>2, <2>3, <2>4
  <2>5. CASE ~TokenChanged(t, token, others)
    <3>1. page[t] # "running" /\ armed' = [armed EXCEPT ![t] = FireTime(token)]
          /\ calls' = others /\ failed' = failed
      BY <1>15, <2>5 DEF Finish
    <3>2. \A u \in Tab : u # t => armed'[u] = armed[u]
      BY <3>1 DEF TypeOK
    <3>3. \A u \in Tab : u # t => \A j \in Slot : Of(j, u) => calls'[j] = calls[j]
      BY <2>2, <3>1 DEF Of
    <3> HIDE DEF t, token, others
    <3> QED
      BY <1>3, <1>4, <2>3, <3>1, <3>2, <3>3
  <2> QED
    BY <2>4, <2>5
\* Steps in which calls fail or move on.
<1>16. ASSUME UNCHANGED <<armed, cache>>,
              \A t \in Tab : page'[t] = "running" => page[t] = "running",
              failed \subseteq failed',
              \A k \in Slot : calls[k] # Idle =>
                \/ calls'[k] # Idle /\ calls'[k].tab = calls[k].tab /\ calls'[k].why = calls[k].why
                \/ calls[k].why \in {"setup", "timer"} => calls[k].tab \in failed'
       PROVE  \A u \in Tab : Matches(u) /\ Planned(u)
  <2>1. \A t \in Tab : Plans(t, calls) => Plans(t, calls') \/ t \in failed'
    BY <1>16 DEF Plans
  <2> QED
    BY <1>3, <1>16, <2>1
<1>17. ASSUME NEW S \in SUBSET Slot, \A j \in S : calls[j] # Idle, Rejected(S)
       PROVE  /\ failed \subseteq failed'
              /\ \A j \in S : calls[j].why \in {"setup", "timer"} => calls[j].tab \in failed'
              /\ \A t \in Tab : page'[t] = "running" => page[t] = "running"
  BY <1>17 DEF Rejected, TypeOK
<1>18. ASSUME NEW k \in Slot, FrameReady(k) PROVE \A u \in Tab : Matches(u) /\ Planned(u)
  <2> DEFINE waiting == {j \in Slot : Of(j, calls[k].tab) /\ calls[j].stage = "frame"}
  <2>1. PICK early \in SUBSET (waiting \ {k}) :
          /\ calls' = [j \in Slot |->
               IF j \in early THEN Idle
               ELSE IF j \in waiting THEN [calls[j] EXCEPT !.stage = "sent"]
               ELSE calls[j]]
          /\ Rejected(early)
    BY <1>18 DEF FrameReady
  <2>2. \A j \in waiting : calls[j] \in Call /\ calls[j] # Idle
    BY DEF Of, TypeOK
  <2>3. \A j \in waiting :
          [calls[j] EXCEPT !.stage = "sent"] \in Call
          /\ [calls[j] EXCEPT !.stage = "sent"].tab = calls[j].tab
          /\ [calls[j] EXCEPT !.stage = "sent"].why = calls[j].why
    BY <2>2 DEF Call
  <2>4. \A j \in Slot : calls[j] # Idle =>
          \/ calls'[j] # Idle /\ calls'[j].tab = calls[j].tab /\ calls'[j].why = calls[j].why
          \/ j \in early
    BY <2>1, <2>3, NoneAssumption
  <2>5. /\ failed \subseteq failed'
        /\ \A j \in early : calls[j].why \in {"setup", "timer"} => calls[j].tab \in failed'
        /\ \A t \in Tab : page'[t] = "running" => page[t] = "running"
    BY <1>17, <2>1, <2>2
  <2>6. UNCHANGED <<armed, cache>>
    BY <1>18 DEF FrameReady
  <2> QED
    BY <1>16, <2>4, <2>5, <2>6
<1>19. ASSUME NEW k \in Slot, calls[k] # Idle, calls' = [calls EXCEPT ![k] = Idle], Rejected({k}),
              UNCHANGED <<armed, cache>>
       PROVE  \A u \in Tab : Matches(u) /\ Planned(u)
  <2>1. /\ failed \subseteq failed'
        /\ calls[k].why \in {"setup", "timer"} => calls[k].tab \in failed'
        /\ \A t \in Tab : page'[t] = "running" => page[t] = "running"
    BY <1>17, <1>19
  <2>2. \A j \in Slot : j # k => calls'[j] = calls[j]
    BY <1>19 DEF TypeOK
  <2> QED
    BY <1>16, <1>19, <2>1, <2>2
<1>20. ASSUME NEW k \in Slot, Answer(k) PROVE \A u \in Tab : Matches(u) /\ Planned(u)
  <2>1. calls[k] \in Call
    BY <1>20 DEF Answer, TypeOK
  <2>2. calls'[k] \in Call /\ calls'[k].tab = calls[k].tab /\ calls'[k].why = calls[k].why
    <3>1. PICK accessToken \in AccessToken, lifetime \in Lifetime :
            calls' = [calls EXCEPT ![k].stage = "answered", ![k].token =
              [accessToken |-> accessToken, expiresAt |-> now + lifetime,
               refreshToken |-> TRUE, owner |-> owner[calls[k].tab]]]
      BY <1>20 DEF Answer
    <3> DEFINE token == [accessToken |-> accessToken, expiresAt |-> now + lifetime,
                         refreshToken |-> TRUE, owner |-> owner[calls[k].tab]]
    <3>2. token \in Token
      BY <2>1, LifetimeAssumption DEF Token, Call, TypeOK
    <3>3. [calls[k] EXCEPT !.stage = "answered", !.token = token] \in Call
          /\ [calls[k] EXCEPT !.stage = "answered", !.token = token].tab = calls[k].tab
          /\ [calls[k] EXCEPT !.stage = "answered", !.token = token].why = calls[k].why
      BY <2>1, <3>2 DEF Call
    <3>4. calls' = [calls EXCEPT ![k] = [calls[k] EXCEPT !.stage = "answered", !.token = token]]
      BY <3>1 DEF TypeOK
    <3> HIDE DEF token
    <3> QED
      BY <3>3, <3>4 DEF TypeOK
  <2>3. \A j \in Slot : j # k => calls'[j] = calls[j]
    BY <1>20 DEF Answer, TypeOK
  <2>4. UNCHANGED <<armed, cache, page, failed>>
    BY <1>20 DEF Answer, timers
  <2> QED
    BY <1>16, <2>2, <2>3, <2>4, NoneAssumption
<1>21. ASSUME NEW k \in Slot, Refuse(k) PROVE \A u \in Tab : Matches(u) /\ Planned(u)
  BY <1>19, <1>21 DEF Refuse
<1>22. ASSUME NEW k \in Slot, Receive(k) PROVE \A u \in Tab : Matches(u) /\ Planned(u)
  <2>1. CASE isExpiredToken(calls[k].token)
    BY <1>19, <1>22, <2>1 DEF Receive
  <2>2. CASE ~isExpiredToken(calls[k].token)
    <3>1. calls[k] \in Call /\ calls' = [calls EXCEPT ![k] = [calls[k] EXCEPT !.stage = "stored"]]
      BY <1>22, <2>2 DEF Receive, TypeOK
    <3>2. [calls[k] EXCEPT !.stage = "stored"] \in Call
          /\ [calls[k] EXCEPT !.stage = "stored"].tab = calls[k].tab
          /\ [calls[k] EXCEPT !.stage = "stored"].why = calls[k].why
      BY <3>1 DEF Call
    <3>3. \A j \in Slot : calls[j] # Idle =>
            calls'[j] # Idle /\ calls'[j].tab = calls[j].tab /\ calls'[j].why = calls[j].why
      BY <3>1, <3>2, NoneAssumption DEF TypeOK
    <3> QED
      BY <1>16, <1>22, <2>2, <3>3 DEF Receive
  <2> QED
    BY <2>1, <2>2
<1>23. ASSUME Tick \/ UNCHANGED vars PROVE \A u \in Tab : Matches(u) /\ Planned(u)
  BY <1>16, <1>23 DEF Tick, vars, timers
<1> QED
  BY <1>5, <1>6, <1>7, <1>9, <1>10, <1>11, <1>12, <1>14, <1>15, <1>18, <1>20, <1>21, <1>22,
     <1>23 DEF Next, TimerFires

-----------------------------------------------------------------------------
(* The theorems. *)

LEMMA InitTimers == ShortLifetimes /\ Init => TimerInvariant
<1> SUFFICES ASSUME ShortLifetimes, Init PROVE TimerInvariant
  OBVIOUS
<1>1. TypeOK
  BY InitTyping
<1>2. CallsHaveAPage
  BY InitInvariant DEF Invariant
<1>3. TokensAreReachable
  <2>1. ASSUME storage # NoToken PROVE Reachable(storage)
    BY <2>1, BufferAssumption DEF Init, ShortLifetimes, Reachable
  <2> QED
    BY <2>1 DEF Init, TokensAreReachable
<1>4. TimerMatchesToken /\ RefreshIsPlanned
  BY DEF Init, TimerMatchesToken, RefreshIsPlanned
<1> QED
  BY <1>1, <1>2, <1>3, <1>4 DEF TimerInvariant

LEMMA TimerInvariantStep ==
  ShortLifetimes /\ TimerInvariant /\ [Next]_vars => TimerInvariant'
<1> SUFFICES ASSUME ShortLifetimes, TimerInvariant, [Next]_vars PROVE TimerInvariant'
  OBVIOUS
<1>1. TypeOK' /\ CallsHaveAPage'
  BY Typing, CallsHaveAPageStep DEF TimerInvariant
<1>2. TokensAreReachable'
  BY ReachableStep DEF TimerInvariant
<1> QED
  BY <1>1, <1>2, TimerStep DEF TimerInvariant

\* A running tab always has a timer, or is refreshing, or has failed to, when
\* no lifetime overflows setTimeout's integer.
THEOREM RefreshesArePlanned == ASSUME ShortLifetimes PROVE Spec => []RefreshIsPlanned
<1>1. Init => TimerInvariant
  BY InitTimers
<1>2. TimerInvariant /\ [Next]_vars => TimerInvariant'
  BY TimerInvariantStep
<1>3. TimerInvariant => RefreshIsPlanned
  BY DEF TimerInvariant
<1> QED
  BY <1>1, <1>2, <1>3, PTL DEF Spec

\* A timer that refreshTimeout holds fires when no more than the smaller buffer
\* is left of the token that the tab holds, so that getToken finds it expired.
LEMMA TimerRefreshes ==
  ASSUME TimerInvariant, NEW t \in Tab, page[t] = "running", FireTimer(t)
  PROVE  calls' # calls
<1>1. /\ cache[t] # NoToken /\ cache[t] \in Token
      /\ armed[t] = cache[t].expiresAt - RefreshBuffer /\ armed[t] <= now
  BY DEF FireTimer, TimerInvariant, TimerMatchesToken, TypeOK
<1>2. Value(t) = cache[t]
  BY <1>1 DEF Value
<1>3. cache[t].expiresAt \in Nat /\ now \in Nat
  BY <1>1 DEF Token, TimerInvariant, TypeOK
<1>4. isExpiredToken(Value(t))
  BY <1>1, <1>2, <1>3, BufferAssumption DEF isExpiredToken
<1>5. Refresh(t, "timer", Value(t), calls)
  BY <1>1, <1>2, <1>4 DEF FireTimer, GetToken, isValidToken
<1>6. PICK k \in Slot :
        /\ calls[k] = Idle
        /\ calls' = [calls EXCEPT ![k] =
             [tab |-> t, why |-> "timer", token |-> NoToken,
              stage |-> IF Value(t).refreshToken THEN "sent" ELSE "frame"]]
  BY <1>5 DEF Refresh
<1>7. [tab |-> t, why |-> "timer", token |-> NoToken,
       stage |-> IF Value(t).refreshToken THEN "sent" ELSE "frame"] # Idle
  BY NoneAssumption DEF Call
<1>8. calls'[k] # calls[k]
  BY <1>6, <1>7 DEF TimerInvariant, TypeOK
<1> QED
  BY <1>8

\* When the timer of a running tab fires a refresh is sent, when no lifetime
\* overflows setTimeout's integer ("we are guaranteed to refresh").
THEOREM TimersRefresh == ASSUME ShortLifetimes PROVE Spec => TimerGuaranteesRefresh
<1>1. Init => TimerInvariant
  BY InitTimers
<1>2. TimerInvariant /\ [Next]_vars => TimerInvariant'
  BY TimerInvariantStep
<1>3. TimerInvariant /\ [Next]_vars =>
        [\A t \in Tab : page[t] = "running" /\ FireTimer(t) => calls' # calls]_vars
  BY TimerRefreshes
<1> QED
  BY <1>1, <1>2, <1>3, PTL DEF Spec, TimerGuaranteesRefresh

-----------------------------------------------------------------------------
(* Disposed pages: they begin no setup and arm no timer. *)

\* The call in slot k is not a setup that this step begins for tab t.
NotBegun(t, k) ==
  \/ calls'[k] = Idle
  \/ calls[k] # Idle /\ calls'[k].tab = calls[k].tab /\ calls'[k].why = calls[k].why
  \/ calls'[k].tab # t \/ calls'[k].why # "setup"

\* What DisposedComesToRest says of one page.
Rests(t) ==
  /\ Setups(t)' \subseteq Setups(t)
  /\ Timers(t)' \subseteq Timers(t) \/ Setups(t)' # Setups(t)

LEMMA FewerSetups ==
  ASSUME NEW t \in Tab, \A k \in Slot : NotBegun(t, k)
  PROVE  Setups(t)' \subseteq Setups(t)
BY DEF NotBegun, Setups, Of

LEMMA FewerTimers ==
  ASSUME NEW t \in Tab, armed'[t] = armed[t] \/ armed'[t] = NoTimer, leaked'[t] \subseteq leaked[t]
  PROVE  Timers(t)' \subseteq Timers(t)
BY DEF Timers

\* A step that begins no setup for the page and arms no timer of it.
LEMMA QuietRests ==
  ASSUME NEW t \in Tab, \A k \in Slot : NotBegun(t, k),
         armed'[t] = armed[t] \/ armed'[t] = NoTimer, leaked'[t] \subseteq leaked[t]
  PROVE  Rests(t)
BY FewerSetups, FewerTimers DEF Rests

\* The call that an operator adds is another tab's, or no setup.
LEMMA AddedIsNotBegun ==
  ASSUME NEW t \in Tab, NEW u \in Tab, NEW why \in {"setup", "timer", "request"},
         u # t \/ why # "setup",
         NEW others, \A k \in Slot : others[k] \in {Idle, calls[k]},
         AddsAtMostOne(u, why, others)
  PROVE  \A k \in Slot : NotBegun(t, k)
<1> TAKE k \in Slot
<1>1. others[k] = Idle \/ others[k] = calls[k]
  OBVIOUS
<1>2. \/ calls'[k] = others[k]
      \/ calls'[k].tab = u /\ calls'[k].why = why
  BY DEF AddsAtMostOne
<1> QED
  BY <1>1, <1>2 DEF NotBegun

\* Other tabs finish their calls without touching the page's timers, and one
\* of its own that arms a timer ends the setup that waited for the token.
LEMMA FinishRests ==
  ASSUME TypeOK, NEW k \in Slot, Finish(k), NEW t \in Tab, page[t] = "disposed"
  PROVE  Rests(t)
<1> DEFINE u == calls[k].tab
           token == calls[k].token
           others == [calls EXCEPT ![k] = Idle]
<1>1. calls[k] \in Call /\ calls[k] # Idle /\ u \in Tab /\ token \in Token
  BY FinishEffect DEF Finish, Storing, Call
<1>2. others \in [Slot -> Call \union {Idle}] /\ HaveTokens(others)
  BY DEF TypeOK, HaveTokens
<1>3. \A j \in Slot : others[j] \in {Idle, calls[j]}
  BY DEF TypeOK
<1>4. others[k] = Idle
  BY DEF TypeOK
<1>5. TokenChanged(u, token, others) =>
        /\ \A w \in Tab : w # u => armed'[w] = armed[w]
        /\ page[u] # "running" => armed' = armed /\ calls' = others
  BY <1>1, <1>2, TokenChangedEffect DEF TypeOK
<1>6. AddsAtMostOne(u, "setup", others)
  BY FinishEffect
<1>7. CASE u # t
  <2>1. \A j \in Slot : NotBegun(t, j)
    <3> HIDE DEF others
    <3> QED
      BY <1>1, <1>3, <1>6, <1>7, AddedIsNotBegun
  <2>2. armed'[t] = armed[t] /\ leaked'[t] = leaked[t]
    BY <1>5, <1>7 DEF Finish, TypeOK
  <2> QED
    BY <2>1, <2>2, QuietRests
<1>8. CASE u = t
  <2>1. calls' = others
    BY <1>5, <1>8 DEF Finish
  <2> HIDE DEF others
  <2>2. \A j \in Slot : NotBegun(t, j)
    BY <1>3, <2>1 DEF NotBegun
  <2>3. CASE calls[k].why = "setup"
    <3>1. k \in Setups(t)
      BY <1>1, <1>8, <2>3 DEF Setups, Of
    <3>2. k \notin Setups(t)'
      BY <1>4, <2>1 DEF Setups, Of
    <3> QED
      BY <2>2, <3>1, <3>2, FewerSetups DEF Rests
  <2>4. CASE calls[k].why # "setup"
    <3>1. TokenChanged(u, token, others) /\ leaked' = leaked
      BY <2>4 DEF Finish, others
    <3>2. armed' = armed
      BY <1>5, <1>8, <3>1
    <3> QED
      BY <2>2, <3>1, <3>2, QuietRests
  <2> QED
    BY <2>3, <2>4
<1> QED
  BY <1>7, <1>8

LEMMA DisposedStep ==
  ASSUME TypeOK, [Next]_vars, NEW t \in Tab, page[t] = "disposed", page'[t] = "disposed"
  PROVE  Rests(t)
<1>1. \A k \in Slot : calls[k] \in {Idle, calls[k]}
  OBVIOUS
\* A step that leaves the timers alone and every call's tab and reason.
<1>2. ASSUME armed' = armed, leaked' = leaked,
             \A k \in Slot : calls'[k] = Idle \/ calls'[k] = calls[k]
      PROVE  Rests(t)
  <2>1. \A k \in Slot : NotBegun(t, k)
    BY <1>2 DEF NotBegun
  <2> QED
    BY <1>2, <2>1, QuietRests
<1>3. ASSUME NEW u \in Tab, Open(u) PROVE Rests(t)
  BY <1>2, <1>3 DEF Open, timers
<1>4. ASSUME NEW u \in Tab, Start(u) PROVE Rests(t)
  <2>1. u # t
    BY <1>4 DEF Start
  <2>2. AddsAtMostOne(u, "setup", calls) /\ armed'[t] = armed[t]
    BY <1>4, <2>1, SetupEffect DEF Start, TypeOK
  <2>3. \A k \in Slot : NotBegun(t, k)
    BY <1>1, <2>1, <2>2, AddedIsNotBegun
  <2> QED
    BY <1>4, <2>2, <2>3, QuietRests DEF Start
<1>5. ASSUME NEW u \in Tab, Callback(u) PROVE Rests(t)
  <2>1. CASE handshake = u
    <3>1. PICK k \in Slot : calls' = [calls EXCEPT ![k] =
            [tab |-> u, why |-> "callback", token |-> NoToken, stage |-> "sent"]]
      BY <1>5, <2>1 DEF Callback
    <3>2. \A j \in Slot : calls'[j] = calls[j] \/ calls'[j].why = "callback"
      BY <3>1 DEF TypeOK
    <3>3. \A j \in Slot : NotBegun(t, j)
      BY <3>2 DEF NotBegun
    <3> QED
      BY <1>5, <3>3, QuietRests DEF Callback, timers
  <2>2. CASE handshake # u
    BY <1>2, <1>5, <2>2 DEF Callback, timers
  <2> QED
    BY <2>1, <2>2
<1>6. ASSUME NEW u \in Tab, RequestToken(u) PROVE Rests(t)
  <2>1. AddsAtMostOne(u, "request", calls)
    BY <1>6, GetTokenEffect DEF RequestToken
  <2>2. \A k \in Slot : NotBegun(t, k)
    BY <1>1, <2>1, AddedIsNotBegun
  <2> QED
    BY <1>6, <2>2, QuietRests DEF RequestToken, timers
<1>7. ASSUME NEW u \in Tab, Dispose(u) PROVE Rests(t)
  <2>1. armed'[t] = armed[t] \/ armed'[t] = NoTimer
    BY <1>7 DEF Dispose, TypeOK
  <2>2. \A k \in Slot : NotBegun(t, k)
    BY <1>7 DEF Dispose, NotBegun
  <2> QED
    BY <1>7, <2>1, <2>2, QuietRests DEF Dispose
<1>8. ASSUME NEW u \in Tab, Close(u) PROVE Rests(t)
  <2>1. u # t
    BY <1>8 DEF Close, TypeOK
  <2>2. armed'[t] = armed[t] /\ leaked'[t] = leaked[t]
    BY <1>8, <2>1 DEF Close, TypeOK
  <2>3. \A k \in Slot : NotBegun(t, k)
    BY <1>8 DEF Close, NotBegun
  <2> QED
    BY <2>2, <2>3, QuietRests
<1>9. ASSUME NEW u \in Tab, Deliver(u) PROVE Rests(t)
  <2>1. /\ AddsAtMostOne(u, "setup", calls)
        /\ \A w \in Tab : w # u => armed'[w] = armed[w]
        /\ page[u] # "running" => armed' = armed /\ calls' = calls
    BY <1>9, TokenChangedEffect DEF Deliver, TypeOK
  <2>2. CASE u = t
    BY <1>2, <1>9, <2>1, <2>2 DEF Deliver
  <2>3. CASE u # t
    <3>1. \A k \in Slot : NotBegun(t, k)
      BY <1>1, <2>1, <2>3, AddedIsNotBegun
    <3> QED
      BY <1>9, <2>1, <2>3, <3>1, QuietRests DEF Deliver
  <2> QED
    BY <2>2, <2>3
<1>10. ASSUME NEW u \in Tab, FireTimer(u) \/ FireLeaked(u) PROVE Rests(t)
  <2>1. AddsAtMostOne(u, "timer", calls)
    BY <1>10, GetTokenEffect DEF FireTimer, FireLeaked
  <2>2. \A k \in Slot : NotBegun(t, k)
    BY <1>1, <2>1, AddedIsNotBegun
  <2>3. armed'[t] = armed[t] \/ armed'[t] = NoTimer
    BY <1>10 DEF FireTimer, FireLeaked, TypeOK
  <2>4. leaked'[t] \subseteq leaked[t]
    BY <1>10 DEF FireTimer, FireLeaked, TypeOK
  <2> QED
    BY <2>2, <2>3, <2>4, QuietRests
<1>11. ASSUME NEW k \in Slot, FrameReady(k) PROVE Rests(t)
  <2> DEFINE waiting == {j \in Slot : Of(j, calls[k].tab) /\ calls[j].stage = "frame"}
  <2>1. PICK early \in SUBSET (waiting \ {k}) :
          calls' = [j \in Slot |->
               IF j \in early THEN Idle
               ELSE IF j \in waiting THEN [calls[j] EXCEPT !.stage = "sent"]
               ELSE calls[j]]
    BY <1>11 DEF FrameReady
  <2>2. \A j \in waiting : calls[j] \in Call /\ calls[j] # Idle
    BY DEF Of, TypeOK
  <2>3. \A j \in Slot : NotBegun(t, j)
    BY <2>1, <2>2 DEF NotBegun, Call
  <2>4. armed' = armed /\ leaked' = leaked
    BY <1>11 DEF FrameReady
  <2> HIDE DEF waiting
  <2> QED
    BY <2>3, <2>4, QuietRests
<1>12. ASSUME NEW k \in Slot, Answer(k) PROVE Rests(t)
  <2>1. \A j \in Slot :
          \/ calls'[j] = calls[j]
          \/ calls[j] # Idle /\ calls'[j].tab = calls[j].tab /\ calls'[j].why = calls[j].why
    BY <1>12 DEF Answer, TypeOK, Call
  <2>2. \A j \in Slot : NotBegun(t, j)
    BY <2>1 DEF NotBegun
  <2> QED
    BY <1>12, <2>2, QuietRests DEF Answer, timers
<1>13. ASSUME NEW k \in Slot, Refuse(k) PROVE Rests(t)
  BY <1>2, <1>13 DEF Refuse, TypeOK
<1>14. ASSUME NEW k \in Slot, Receive(k) PROVE Rests(t)
  <2>1. \A j \in Slot :
          \/ calls'[j] = calls[j]
          \/ calls'[j] = Idle
          \/ calls[j] # Idle /\ calls'[j].tab = calls[j].tab /\ calls'[j].why = calls[j].why
    <3>1. calls[k] \in Call /\ calls[k] # Idle
      BY <1>14 DEF Receive, TypeOK
    <3>2. \/ calls' = [calls EXCEPT ![k] = Idle]
          \/ calls' = [calls EXCEPT ![k].stage = "stored"]
      BY <1>14 DEF Receive
    <3>3. CASE calls' = [calls EXCEPT ![k] = Idle]
      BY <3>3 DEF TypeOK
    <3>4. CASE calls' = [calls EXCEPT ![k].stage = "stored"]
      <4>1. calls'[k].tab = calls[k].tab /\ calls'[k].why = calls[k].why
        BY <3>1, <3>4 DEF TypeOK, Call
      <4>2. \A j \in Slot : j # k => calls'[j] = calls[j]
        BY <3>4 DEF TypeOK
      <4> QED
        BY <3>1, <4>1, <4>2
    <3> QED
      BY <3>2, <3>3, <3>4
  <2>2. \A j \in Slot : NotBegun(t, j)
    BY <2>1 DEF NotBegun
  <2> QED
    BY <1>14, <2>2, QuietRests DEF Receive
<1>15. ASSUME NEW k \in Slot, Finish(k) PROVE Rests(t)
  BY <1>15, FinishRests
<1>16. ASSUME Tick \/ UNCHANGED vars PROVE Rests(t)
  BY <1>2, <1>16 DEF Tick, vars, timers
<1> QED
  BY <1>3, <1>4, <1>5, <1>6, <1>7, <1>8, <1>9, <1>10, <1>11, <1>12, <1>13, <1>14, <1>15,
     <1>16 DEF Next, TimerFires

\* What a disposed page has left comes to rest, in any number of tabs and for
\* any lifetimes: only a setup that had begun before still arms a timer, once.
THEOREM DisposedPagesRest == Spec => DisposedComesToRest
<1>1. TypeOK /\ [Next]_vars =>
        [\A t \in Tab : page[t] = "disposed" /\ page'[t] = "disposed" =>
           /\ Setups(t)' \subseteq Setups(t)
           /\ Timers(t)' \subseteq Timers(t) \/ Setups(t)' # Setups(t)]_vars
  BY DisposedStep DEF Rests
<1> QED
  BY <1>1, TypeCorrect, PTL DEF Spec, DisposedComesToRest

-----------------------------------------------------------------------------
(* The hash: what is hashed is the padded message. *)

\* One of some numbers is the least.
LEMMA LeastNumber ==
  ASSUME NEW S \in SUBSET Nat, S # {}
  PROVE  \E n \in S : \A m \in S : n <= m
<1> DEFINE Less == OpToRel(<, Nat)
<1>1. \A i, j \in Nat : <<i, j>> \in Less <=> i < j
  BY DEF OpToRel
<1>2. IsWellFoundedOn(Less, Nat)
  BY NatLessThanWellFounded
<1> HIDE DEF Less
<1>3. PICK n \in S : \A m \in S : ~ (<<m, n>> \in Less)
  BY <1>2, WFMin
<1>4. ASSUME NEW m \in S
      PROVE  n <= m
  <2>1. m \in Nat /\ n \in Nat
    OBVIOUS
  <2>2. ~ (m < n)
    BY <1>1, <1>3, <2>1
  <2> QED
    BY <2>1, <2>2
<1> QED
  BY <1>4

\* f has what the first i of some blocks are together.
IsFlat(s, f) ==
  f = [i \in 1 .. Len(s) |-> IF i = 1 THEN s[i] ELSE f[i - 1] \o s[i]]

\* Blocks that are put together as far as n can be put together further.
FlatUpTo(s, f, n) ==
  f = [i \in 1 .. n |-> IF i = 1 THEN s[i] ELSE f[i - 1] \o s[i]]

LEMMA FlatGrows ==
  ASSUME NEW s, NEW n \in Nat, NEW f, FlatUpTo(s, f, n)
  PROVE  \E g : FlatUpTo(s, g, n + 1)
<1> DEFINE Step(g, i) == IF i = 1 THEN s[i] ELSE g[i - 1] \o s[i]
    g == [i \in 1 .. n + 1 |-> IF i = n + 1 THEN Step(f, i) ELSE f[i]]
<1>1. ASSUME NEW i \in 1 .. n + 1
      PROVE  g[i] = Step(g, i)
  <2>1. i # 1 => i - 1 \in 1 .. n /\ g[i - 1] = f[i - 1]
    OBVIOUS
  <2>2. g[i] = Step(f, i)
    <3>1. CASE i = n + 1
      BY <3>1
    <3>2. CASE i # n + 1
      <4>1. i \in 1 .. n /\ g[i] = f[i]
        BY <3>2
      <4> QED
        BY <4>1 DEF FlatUpTo
    <3> QED
      BY <3>1, <3>2
  <2> HIDE DEF g
  <2> QED
    BY <2>1, <2>2
<1>2. FlatUpTo(s, g, n + 1)
  BY <1>1 DEF FlatUpTo
<1> QED
  BY <1>2

LEMMA FlatExists ==
  ASSUME NEW s, NEW n \in Nat
  PROVE  \E f : FlatUpTo(s, f, n)
<1> DEFINE S == {m \in 0 .. n : ~ \E f : FlatUpTo(s, f, m)}
<1>1. S \subseteq Nat
  OBVIOUS
<1>2. CASE S # {}
  <2> HIDE DEF S
  <2>1. PICK m \in S : \A k \in S : m <= k
    BY <1>1, <1>2, LeastNumber
  <2>2. m \in 0 .. n /\ ~ \E f : FlatUpTo(s, f, m)
    BY <2>1 DEF S
  <2>3. m # 0
    <3> DEFINE f == [i \in 1 .. 0 |-> s]
    <3>1. FlatUpTo(s, f, 0)
      BY DEF FlatUpTo
    <3> QED
      BY <2>2, <3>1
  <2>4. m - 1 \in Nat /\ m - 1 \in 0 .. n /\ m - 1 \notin S /\ m = (m - 1) + 1
    BY <2>1, <2>2, <2>3
  <2>5. PICK f : FlatUpTo(s, f, m - 1)
    BY <2>4 DEF S
  <2>6. \E g : FlatUpTo(s, g, m)
    BY <2>4, <2>5, FlatGrows
  <2> QED
    BY <2>2, <2>6
<1> QED
  BY <1>2

\* What the operator of the library says of its last element.
LEMMA FlattenSteps ==
  ASSUME NEW s \in Seq(Seq(Nat)), Len(s) # 0
  PROVE  \E f : IsFlat(s, f) /\ FlattenSeq(s) = f[Len(s)]
<1> DEFINE f == CHOOSE f : f = [i \in 1 .. Len(s) |-> IF i = 1 THEN s[i] ELSE f[i - 1] \o s[i]]
<1>1. FlattenSeq(s) = f[Len(s)] /\ Len(s) \in Nat
  <2>1. FlattenSeq(s) = f[Len(s)]
    BY Zenon DEF FlattenSeq
  <2>2. Len(s) \in Nat
    OBVIOUS
  <2> QED
    BY <2>1, <2>2
<1>2. \E g : g = [i \in 1 .. Len(s) |-> IF i = 1 THEN s[i] ELSE g[i - 1] \o s[i]]
  BY <1>1, FlatExists DEF FlatUpTo
<1>3. f = [i \in 1 .. Len(s) |-> IF i = 1 THEN s[i] ELSE f[i - 1] \o s[i]]
  BY <1>2, Zenon
<1> HIDE DEF f
<1>4. IsFlat(s, f)
  BY <1>3 DEF IsFlat
<1> QED
  BY <1>1, <1>4

Begins(s, t) == Len(s) <= Len(t) /\ \A i \in 1 .. Len(s) : s[i] = t[i]

\* What the first blocks are together does not depend on those behind them.
LEMMA FlatAgrees ==
  ASSUME NEW s \in Seq(Seq(Nat)), NEW t \in Seq(Seq(Nat)), NEW f, NEW g,
         IsFlat(s, f), IsFlat(t, g), Begins(s, t), Len(s) # 0
  PROVE  f[Len(s)] = g[Len(s)]
<1> USE DEF Begins
<1> DEFINE S == {i \in 1 .. Len(s) : f[i] # g[i]}
<1>1. S \subseteq Nat
  OBVIOUS
<1>2. CASE S # {}
  <2> HIDE DEF S
  <2>1. PICK i \in S : \A k \in S : i <= k
    BY <1>1, <1>2, LeastNumber
  <2>2. i \in 1 .. Len(s) /\ f[i] # g[i]
    BY <2>1 DEF S
  <2>3. CASE i = 1
    <3>1. i \in 1 .. Len(t) /\ s[i] = t[i]
      BY <2>2
    <3>2. f[i] = s[i]
      BY <2>2, <2>3, Zenon DEF IsFlat
    <3>3. g[i] = t[i]
      BY <2>3, <3>1, Zenon DEF IsFlat
    <3> QED
      BY <2>2, <3>1, <3>2, <3>3
  <2>4. CASE i # 1
    <3>1. i - 1 \in 1 .. Len(s) /\ i - 1 \notin S
      BY <2>1, <2>2, <2>4
    <3>2. f[i - 1] = g[i - 1]
      BY <3>1 DEF S
    <3>3. i \in 1 .. Len(t) /\ s[i] = t[i]
      BY <2>2
    <3>4. f[i] = f[i - 1] \o s[i]
      BY <2>2, <2>4, Zenon DEF IsFlat
    <3>5. g[i] = g[i - 1] \o t[i]
      BY <2>4, <3>3, Zenon DEF IsFlat
    <3> QED
      BY <2>2, <3>2, <3>3, <3>4, <3>5
  <2> QED
    BY <2>3, <2>4
<1>3. Len(s) \in 1 .. Len(s)
  OBVIOUS
<1> QED
  BY <1>2, <1>3

\* One more block comes behind the others.
LEMMA FlattenAppend ==
  ASSUME NEW s \in Seq(Seq(Nat)), NEW block \in Seq(Nat)
  PROVE  FlattenSeq(Append(s, block)) = FlattenSeq(s) \o block
<1> DEFINE t == Append(s, block)
<1>1. /\ t \in Seq(Seq(Nat)) /\ Len(s) \in Nat /\ Len(t) = Len(s) + 1
      /\ t[Len(s) + 1] = block
      /\ \A i \in 1 .. Len(s) : s[i] = t[i]
  OBVIOUS
<1> HIDE DEF t
<1>2. PICK g : IsFlat(t, g) /\ FlattenSeq(t) = g[Len(t)]
  <2>1. Len(t) # 0
    BY <1>1
  <2> QED
    BY <1>1, <2>1, FlattenSteps
<1>3. CASE Len(s) = 0
  <2>1. s = <<>> /\ FlattenSeq(s) = <<>>
    BY <1>3 DEF FlattenSeq
  <2>2. g[1] = block
    <3>1. Len(t) \in Nat /\ 1 \in 1 .. Len(t) /\ t[1] = block
      BY <1>1, <1>3
    <3> QED
      BY <1>2, <3>1, Zenon DEF IsFlat
  <2>3. <<>> \o block = block
    OBVIOUS
  <2> QED
    BY <1>1, <1>2, <1>3, <2>1, <2>2, <2>3 DEF t
<1>4. CASE Len(s) # 0
  <2>1. PICK f : IsFlat(s, f) /\ FlattenSeq(s) = f[Len(s)]
    BY <1>4, FlattenSteps
  <2>2. f[Len(s)] = g[Len(s)]
    <3>1. Len(t) \in Nat /\ Len(s) <= Len(t) /\ Len(s) \in 1 .. Len(s)
      BY <1>1, <1>4
    <3>2. Begins(s, t)
      BY <1>1, <3>1 DEF Begins
    <3> QED
      BY <1>1, <1>2, <1>4, <2>1, <3>2, FlatAgrees
  <2>3. g[Len(t)] = g[Len(s)] \o block
    <3>1. Len(t) \in Nat /\ Len(t) \in 1 .. Len(t) /\ Len(t) # 1 /\ Len(t) - 1 = Len(s)
      BY <1>1, <1>4
    <3>2. g[Len(t)] = g[Len(t) - 1] \o t[Len(t)]
      BY <1>2, <3>1, Zenon DEF IsFlat
    <3> QED
      BY <1>1, <3>1, <3>2
  <2> QED
    BY <1>2, <2>1, <2>2, <2>3 DEF t
<1> QED
  BY <1>3, <1>4

\* A block has whole words, and room for the size and a mark.
LEMMA BlockIsWords ==
  /\ InputBytes \in Nat /\ InputBytes >= 12
  /\ HighIndex \in Nat /\ LowIndex \in Nat
  /\ 4 * HighIndex = InputBytes - 8 /\ 4 * LowIndex = InputBytes - 4
BY Sha256Assumption DEF InputWords, HighIndex, LowIndex

LEMMA QuotientIsUnique ==
  ASSUME NEW B \in Nat \ {0}, NEW q \in Int, NEW p \in Int,
         NEW d \in 0 .. B - 1, NEW r \in 0 .. B - 1, B * q + d = B * p + r
  PROVE  q = p
<1>1. ASSUME NEW m \in Nat \ {0} PROVE B * m >= B
  OBVIOUS
<1>2. CASE q > p
  <2>1. q - p \in Nat \ {0}
    BY <1>2
  <2>2. B * (q - p) >= B
    BY <1>1, <2>1
  <2>3. B * (q - p) = r - d
    OBVIOUS
  <2> QED
    BY <2>2, <2>3
<1>3. CASE q < p
  <2>1. p - q \in Nat \ {0}
    BY <1>3
  <2>2. B * (p - q) >= B
    BY <1>1, <2>1
  <2>3. B * (p - q) = d - r
    OBVIOUS
  <2> QED
    BY <2>2, <2>3
<1> QED
  BY <1>2, <1>3

LEMMA QuotientAndRest ==
  ASSUME NEW B \in Nat \ {0}, NEW a \in Nat
  PROVE  a = B * (a \div B) + (a % B) /\ a % B \in 0 .. B - 1 /\ a \div B \in Nat
OBVIOUS

LEMMA RestIsUnique ==
  ASSUME NEW B \in Nat \ {0}, NEW q \in Nat, NEW d \in 0 .. B - 1
  PROVE  (B * q + d) % B = d
<1>1. B * q + d \in Nat
  OBVIOUS
<1>2. PICK a \in Nat : a = B * q + d
  BY <1>1
<1>3. a = B * (a \div B) + (a % B) /\ a % B \in 0 .. B - 1 /\ a \div B \in Int
  BY QuotientAndRest
<1>4. a \div B = q
  BY <1>2, <1>3, QuotientIsUnique
<1> QED
  BY <1>2, <1>3, <1>4

\* Where a block is when d more bytes are in.
LEMMA RestGrows ==
  ASSUME NEW a \in Nat, NEW d \in Nat, (a % InputBytes) + d <= InputBytes
  PROVE  /\ a % InputBytes \in 0 .. InputBytes - 1 /\ a % InputBytes <= a
         /\ (a % InputBytes) + d < InputBytes => (a + d) % InputBytes = (a % InputBytes) + d
         /\ (a % InputBytes) + d = InputBytes => (a + d) % InputBytes = 0
<1> DEFINE B == InputBytes
           q == a \div InputBytes
           r == a % InputBytes
<1>1. B \in Nat \ {0}
  BY BlockIsWords
<1>2. a = B * q + r /\ r \in 0 .. B - 1 /\ q \in Nat
  BY <1>1, QuotientAndRest
<1> HIDE DEF B, q, r
<1>3. r <= a
  <2>1. B * q \in Nat
    BY <1>1, <1>2
  <2> QED
    BY <1>2, <2>1
<1>4. ASSUME r + d < B PROVE (a + d) % B = r + d
  <2>1. a + d = B * q + (r + d) /\ r + d \in 0 .. B - 1
    BY <1>1, <1>2, <1>4
  <2> QED
    BY <1>1, <1>2, <2>1, RestIsUnique
<1>5. ASSUME r + d = B PROVE (a + d) % B = 0
  <2>1. a + d = B * (q + 1) + 0 /\ q + 1 \in Nat /\ 0 \in 0 .. B - 1
    BY <1>1, <1>2, <1>5
  <2>2. (B * (q + 1) + 0) % B = 0
    BY <1>1, <2>1, RestIsUnique
  <2> QED
    BY <2>1, <2>2
<1> QED
  BY <1>2, <1>3, <1>4, <1>5 DEF B, r

\* One and only one number of zeros makes a padded message whole.
LEMMA RestOfSum ==
  ASSUME NEW a \in Nat, NEW k \in Nat,
         (a % InputBytes) + k = InputBytes \/ (a % InputBytes) + k = 2 * InputBytes
  PROVE  (a + k) % InputBytes = 0
<1> DEFINE B == InputBytes
           q == a \div InputBytes
           r == a % InputBytes
<1>1. B \in Nat \ {0}
  BY BlockIsWords
<1>2. a = B * q + r /\ r \in 0 .. B - 1 /\ q \in Nat
  BY <1>1, QuotientAndRest
<1>3. PICK m \in 1 .. 2 : r + k = m * B
  <2>1. r + k = 1 * B \/ r + k = 2 * B
    BY <1>1
  <2> QED
    BY <2>1
<1> HIDE DEF B, q, r
<1>4. a + k = B * (q + m) + 0 /\ q + m \in Nat /\ 0 \in 0 .. B - 1
  <2>1. CASE m = 1
    BY <1>1, <1>2, <1>3, <2>1
  <2>2. CASE m = 2
    BY <1>1, <1>2, <1>3, <2>2
  <2> QED
    BY <2>1, <2>2
<1>5. (B * (q + m) + 0) % B = 0
  BY <1>1, <1>4, RestIsUnique
<1> QED
  BY <1>4, <1>5 DEF B

LEMMA RestsAgree ==
  ASSUME NEW a \in Nat, NEW k \in 0 .. InputBytes - 1, NEW l \in 0 .. InputBytes - 1,
         (a + k) % InputBytes = 0, (a + l) % InputBytes = 0
  PROVE  k = l
<1> DEFINE B == InputBytes
           p == (a + k) \div InputBytes
           q == (a + l) \div InputBytes
<1>1. B \in Nat \ {0} /\ k \in Nat /\ l \in Nat /\ k - l < B /\ l - k < B
  BY BlockIsWords
<1>2. a + k = B * p + 0 /\ a + l = B * q + 0 /\ p \in Nat /\ q \in Nat
  <2>1. a + k = B * p + ((a + k) % B) /\ p \in Nat
    BY <1>1, QuotientAndRest
  <2>2. a + l = B * q + ((a + l) % B) /\ q \in Nat
    BY <1>1, QuotientAndRest
  <2> QED
    BY <2>1, <2>2
<1> HIDE DEF B, p, q
<1>3. CASE k >= l
  <2>1. B * p + 0 = B * q + (k - l) /\ k - l \in 0 .. B - 1 /\ 0 \in 0 .. B - 1
    BY <1>1, <1>2, <1>3
  <2>2. p = q
    BY <1>1, <1>2, <2>1, QuotientIsUnique
  <2> QED
    BY <1>1, <1>2, <2>2
<1>4. CASE l >= k
  <2>1. B * q + 0 = B * p + (l - k) /\ l - k \in 0 .. B - 1 /\ 0 \in 0 .. B - 1
    BY <1>1, <1>2, <1>4
  <2>2. q = p
    BY <1>1, <1>2, <2>1, QuotientIsUnique
  <2> QED
    BY <1>1, <1>2, <2>2
<1> QED
  BY <1>1, <1>3, <1>4

LEMMA SameBytes ==
  ASSUME NEW s \in Seq(Nat), NEW t \in Seq(Nat), Len(s) = Len(t),
         \A k \in 1 .. Len(s) : s[k] = t[k]
  PROVE  s = t
OBVIOUS

LEMMA BlockIsSeq ==
  ASSUME NEW block \in [1 .. InputBytes -> Nat]
  PROVE  block \in Seq(Nat) /\ Len(block) = InputBytes
BY BlockIsWords

\* The first n bytes of a message.
AreBytes(s, n) ==
  /\ s \in Seq(Nat) /\ Len(s) = n
  /\ \A k \in 1 .. n : s[k] = 1000 + k

LEMMA BytesAre ==
  ASSUME NEW n \in Nat
  PROVE  AreBytes(Bytes(n), n)
BY DEF Bytes, AreBytes

\* The bytes of the block behind the first n.
IsBlockAt(block, n) ==
  /\ block \in [1 .. InputBytes -> Nat]
  /\ \A k \in 1 .. InputBytes : block[k] = 1000 + n + k

LEMMA BytesGrow ==
  ASSUME NEW n \in Nat, NEW block, IsBlockAt(block, n)
  PROVE  Bytes(n) \o block = Bytes(n + InputBytes)
<1>1. block \in Seq(Nat) /\ Len(block) = InputBytes /\ InputBytes \in Nat
  BY BlockIsSeq, BlockIsWords DEF IsBlockAt
<1>2. n + InputBytes \in Nat
  BY <1>1
<1> DEFINE s == Bytes(n)
           t == Bytes(n + InputBytes)
<1>3. /\ s \in Seq(Nat) /\ Len(s) = n
      /\ \A k \in 1 .. n : s[k] = 1000 + k
  BY BytesAre DEF AreBytes
<1>4. /\ t \in Seq(Nat) /\ Len(t) = n + InputBytes
      /\ \A k \in 1 .. n + InputBytes : t[k] = 1000 + k
  <2>1. PICK m \in Nat : m = n + InputBytes
    BY <1>2
  <2>2. AreBytes(Bytes(m), m)
    BY BytesAre
  <2> QED
    BY <2>1, <2>2 DEF AreBytes
<1> HIDE DEF s, t
<1>5. s \o block \in Seq(Nat) /\ Len(s \o block) = n + InputBytes
  BY <1>1, <1>3
<1> DEFINE u == s \o block
<1>6. ASSUME NEW k \in 1 .. n + InputBytes
      PROVE  (s \o block)[k] = t[k]
  <2>1. CASE k <= n
    BY <1>1, <1>3, <1>4, <2>1
  <2>2. CASE k > n
    <3>1. k - n \in 1 .. InputBytes /\ (s \o block)[k] = block[k - n]
      BY <1>1, <1>3, <2>2
    <3>2. block[k - n] = 1000 + n + (k - n)
      BY <3>1 DEF IsBlockAt
    <3> QED
      BY <1>1, <1>4, <3>1, <3>2
  <2>3. k <= n \/ k > n
    BY <1>1
  <2> QED
    BY <2>1, <2>2, <2>3
<1>7. \A k \in 1 .. Len(u) : u[k] = t[k]
  BY <1>5, <1>6
<1>8. u \in Seq(Nat) /\ Len(u) = Len(t)
  BY <1>4, <1>5
<1> HIDE DEF u
<1>9. u = t
  BY <1>4, <1>7, <1>8, SameBytes
<1> QED
  BY <1>9 DEF s, t, u

IsPiece(piece, from, room) ==
  \E n \in Nat :
    /\ piece \in Seq(Nat) /\ Len(piece) = n
    /\ n <= room /\ from + n <= message.length
    /\ n < room => from + n = message.length
    /\ \A k \in 1 .. n : piece[k] = 1000 + from + k

\* A piece is the bytes from a place on, as many as there are and there is room for.
LEMMA PieceIs ==
  ASSUME NEW from \in Nat, NEW room \in Nat, message.length \in Nat, from <= message.length
  PROVE  IsPiece(Piece(from, room), from, room)
<1> DEFINE last == IF from + room < message.length THEN from + room ELSE message.length
           s == Bytes(message.length)
<1>1. /\ last \in Nat /\ from <= last /\ last <= message.length /\ last <= from + room
      /\ last - from < room => last = message.length
  OBVIOUS
<1>2. /\ s \in Seq(Nat) /\ Len(s) = message.length
      /\ \A k \in 1 .. message.length : s[k] = 1000 + k
  <2>1. PICK m \in Nat : m = message.length
    OBVIOUS
  <2>2. AreBytes(Bytes(m), m)
    BY BytesAre
  <2> QED
    BY <2>1, <2>2 DEF AreBytes
<1>3. Piece(from, room) = SubSeq(s, from + 1, last)
  BY DEF Piece
<1> HIDE DEF s, last
<1>4. PICK length \in Nat : length = message.length
  OBVIOUS
<1> DEFINE p == SubSeq(s, from + 1, last)
<1>5. /\ p \in Seq(Nat) /\ Len(p) = last - from
      /\ \A k \in 1 .. last - from : p[k] = s[from + k]
  BY <1>1, <1>2, <1>4
<1> HIDE DEF p
<1>6. \A k \in 1 .. last - from : p[k] = 1000 + from + k
  <2>1. ASSUME NEW k \in 1 .. last - from
        PROVE  p[k] = 1000 + from + k
    <3>1. from + k \in 1 .. message.length
      BY <1>1, <1>4
    <3>2. s[from + k] = 1000 + (from + k)
      BY <1>2, <3>1
    <3> QED
      BY <1>1, <1>5, <3>2
  <2> QED
    BY <2>1
<1>7. Piece(from, room) = p
  BY <1>3 DEF p
<1>8. last - from \in Nat /\ last - from <= room /\ from + (last - from) = last
  BY <1>1
<1> QED
  BY <1>1, <1>5, <1>6, <1>7, <1>8 DEF IsPiece

LEMMA WordBytesAre ==
  ASSUME NEW n \in Nat
  PROVE  /\ WordBytes(n) \in Seq(Nat) /\ Len(WordBytes(n)) = 4
         /\ \A k \in 1 .. 4 : WordBytes(n)[k] \in Nat
         /\ n = 0 => \A k \in 1 .. 4 : WordBytes(n)[k] = 0
<1>1. (n \div 256) % 256 \in Nat /\ n % 256 \in Nat
  OBVIOUS
<1>2. n = 0 => (n \div 256) % 256 = 0 /\ n % 256 = 0
  OBVIOUS
<1> QED
  BY <1>1, <1>2 DEF WordBytes

LEMMA WithWordIs ==
  ASSUME NEW bytes \in [1 .. InputBytes -> Nat], NEW word \in {HighIndex, LowIndex}, NEW n \in Nat,
         \A k \in 1 .. 4 : bytes[4 * word + k] = 0
  PROVE  /\ WithWord(bytes, word, n) \in [1 .. InputBytes -> Nat]
         /\ \A k \in 1 .. 4 : WithWord(bytes, word, n)[4 * word + k] = WordBytes(n)[k]
         /\ \A j \in 1 .. InputBytes : j \notin 4 * word + 1 .. 4 * word + 4 =>
              WithWord(bytes, word, n)[j] = bytes[j]
<1> DEFINE w == WordBytes(n)
<1>1. /\ \A k \in 1 .. 4 : w[k] \in Nat
      /\ n = 0 => \A k \in 1 .. 4 : w[k] = 0
  BY WordBytesAre
<1>2. word \in Nat /\ 4 * word + 4 <= InputBytes /\ InputBytes \in Nat
  BY BlockIsWords
<1>3. CASE n = 0
  BY <1>1, <1>3 DEF WithWord
<1>4. CASE n # 0
  <2> DEFINE r == [j \in 1 .. InputBytes |->
                     IF (j - 1) \div 4 = word THEN w[j - 4 * word] ELSE bytes[j]]
  <2>1. WithWord(bytes, word, n) = r
    BY <1>4 DEF WithWord
  <2> HIDE DEF w
  <2>2. ASSUME NEW j \in 1 .. InputBytes
        PROVE  /\ (j - 1) \div 4 = word <=> j \in 4 * word + 1 .. 4 * word + 4
               /\ j \in 4 * word + 1 .. 4 * word + 4 => j - 4 * word \in 1 .. 4
    BY <1>2
  <2>3. r \in [1 .. InputBytes -> Nat]
    BY <1>1, <2>2
  <2>4. ASSUME NEW k \in 1 .. 4
        PROVE  r[4 * word + k] = w[k]
    <3>1. 4 * word + k \in 1 .. InputBytes /\ 4 * word + k \in 4 * word + 1 .. 4 * word + 4
      BY <1>2
    <3>2. r[4 * word + k] = w[(4 * word + k) - 4 * word]
      BY <2>2, <3>1
    <3> QED
      BY <1>2, <3>2
  <2>5. \A j \in 1 .. InputBytes : j \notin 4 * word + 1 .. 4 * word + 4 => r[j] = bytes[j]
    BY <2>2
  <2> HIDE DEF r
  <2> QED
    BY <2>1, <2>3, <2>4, <2>5 DEF w
<1> QED
  BY <1>3, <1>4

\* The size is in the last eight bytes.
HasSize(bytes, bits) ==
  \A k \in 1 .. 4 :
    /\ bytes[InputBytes - 8 + k] = WordBytes(bits \div Wrap)[k]
    /\ bytes[InputBytes - 4 + k] = WordBytes(bits % Wrap)[k]

HasRoom(bytes) ==
  /\ bytes \in [1 .. InputBytes -> Nat]
  /\ \A j \in InputBytes - 7 .. InputBytes : bytes[j] = 0

IsSized(sized, bytes) ==
  /\ sized \in [1 .. InputBytes -> Nat]
  /\ HasSize(sized, size * 8)
  /\ \A j \in 1 .. InputBytes - 8 : sized[j] = bytes[j]

LEMMA WithSizeIs ==
  ASSUME NEW bytes, HasRoom(bytes), size \in Nat
  PROVE  IsSized(WithSize(bytes), bytes)
<1>0. bytes \in [1 .. InputBytes -> Nat] /\ \A j \in InputBytes - 7 .. InputBytes : bytes[j] = 0
  BY DEF HasRoom
<1>1. PICK high \in Nat : high = (size * 8) \div Wrap
  BY Sha256Assumption
<1>2. PICK low \in Nat : low = (size * 8) % Wrap
  BY Sha256Assumption
<1> DEFINE b == WithWord(bytes, HighIndex, high)
           c == WithWord(b, LowIndex, low)
<1>3. WithSize(bytes) = c
  BY <1>1, <1>2 DEF WithSize
<1>4. /\ InputBytes \in Nat /\ InputBytes >= 12
      /\ HighIndex \in Nat /\ LowIndex \in Nat
      /\ 4 * HighIndex = InputBytes - 8 /\ 4 * LowIndex = InputBytes - 4
  BY BlockIsWords
<1>5. \A k \in 1 .. 4 : bytes[4 * HighIndex + k] = 0
  BY <1>0, <1>4
<1>6. /\ b \in [1 .. InputBytes -> Nat]
      /\ \A k \in 1 .. 4 : b[4 * HighIndex + k] = WordBytes(high)[k]
      /\ \A j \in 1 .. InputBytes : j \notin 4 * HighIndex + 1 .. 4 * HighIndex + 4 => b[j] = bytes[j]
  BY <1>0, <1>5, WithWordIs
<1> HIDE DEF b
<1>7. \A k \in 1 .. 4 : b[4 * LowIndex + k] = 0
  <2>1. ASSUME NEW k \in 1 .. 4
        PROVE  /\ 4 * LowIndex + k \in 1 .. InputBytes
               /\ 4 * LowIndex + k \notin 4 * HighIndex + 1 .. 4 * HighIndex + 4
               /\ bytes[4 * LowIndex + k] = 0
    BY <1>0, <1>4
  <2> QED
    BY <1>6, <2>1
<1>8. /\ c \in [1 .. InputBytes -> Nat]
      /\ \A k \in 1 .. 4 : c[4 * LowIndex + k] = WordBytes(low)[k]
      /\ \A j \in 1 .. InputBytes : j \notin 4 * LowIndex + 1 .. 4 * LowIndex + 4 => c[j] = b[j]
  BY <1>6, <1>7, WithWordIs
<1> HIDE DEF c
<1>9. HasSize(c, size * 8)
  <2>1. ASSUME NEW k \in 1 .. 4
        PROVE  c[4 * HighIndex + k] = WordBytes(high)[k] /\ c[4 * LowIndex + k] = WordBytes(low)[k]
    <3>1. /\ 4 * HighIndex + k \in 1 .. InputBytes
          /\ 4 * HighIndex + k \notin 4 * LowIndex + 1 .. 4 * LowIndex + 4
      BY <1>4
    <3> QED
      BY <1>6, <1>8, <3>1
  <2> QED
    BY <1>1, <1>2, <1>4, <2>1 DEF HasSize
<1>10. \A j \in 1 .. InputBytes - 8 : c[j] = bytes[j]
  <2>1. ASSUME NEW j \in 1 .. InputBytes - 8
        PROVE  /\ j \in 1 .. InputBytes
               /\ j \notin 4 * HighIndex + 1 .. 4 * HighIndex + 4
               /\ j \notin 4 * LowIndex + 1 .. 4 * LowIndex + 4
    BY <1>4
  <2> QED
    BY <1>6, <1>8, <2>1
<1> QED
  BY <1>3, <1>8, <1>9, <1>10 DEF IsSized

RestOf(length) == length % InputBytes

\* The rest of a message, a mark, and the size are in one block.
OneIsLast(length) == RestOf(length) <= InputBytes - 9

LastBytes(length) == IF OneIsLast(length) THEN InputBytes ELSE InputBytes + InputBytes

\* A mark, zeros, and the size.
IsPadding(padding, length) ==
  LET n == LastBytes(length) - RestOf(length)
  IN  /\ padding \in Seq(Nat) /\ Len(padding) = n
      /\ padding[1] = 128
      /\ \A k \in 2 .. n - 8 : padding[k] = 0
      /\ \A k \in 1 .. 4 :
           /\ padding[n - 8 + k] = WordBytes((length * 8) \div Wrap)[k]
           /\ padding[n - 4 + k] = WordBytes((length * 8) % Wrap)[k]

LEMMA ZerosAre ==
  ASSUME NEW n \in Nat
  PROVE  /\ Zeros(n) \in Seq(Nat) /\ Len(Zeros(n)) = n
         /\ \A k \in 1 .. n : Zeros(n)[k] = 0
BY DEF Zeros

IsConcat(s, t, u) ==
  /\ u \in Seq(Nat) /\ Len(u) = Len(s) + Len(t)
  /\ \A k \in 1 .. Len(s) : u[k] = s[k]
  /\ \A k \in 1 .. Len(t) : u[Len(s) + k] = t[k]

LEMMA ConcatIs ==
  ASSUME NEW s \in Seq(Nat), NEW t \in Seq(Nat)
  PROVE  IsConcat(s, t, s \o t)
BY DEF IsConcat

\* A mark, zeros, and two words.
IsMarked(p, h, l) ==
  /\ p \in Seq(Nat)
  /\ p[1] = 128
  /\ \A k \in 2 .. Len(p) - 8 : p[k] = 0
  /\ \A k \in 1 .. 4 : p[Len(p) - 8 + k] = h[k] /\ p[Len(p) - 4 + k] = l[k]

Joined(one, z, h, l) == one \o z \o h \o l

IsMark(one) == one \in Seq(Nat) /\ Len(one) = 1 /\ one[1] = 128

IsWord(word) == word \in Seq(Nat) /\ Len(word) = 4

IsBlank(z) == z \in Seq(Nat) /\ \A k \in 1 .. Len(z) : z[k] = 0

LEMMA ConcatOfFour ==
  ASSUME NEW one, NEW z, NEW h, NEW l, NEW p,
         IsMark(one), IsBlank(z), IsWord(h), IsWord(l), p = Joined(one, z, h, l)
  PROVE  IsMarked(p, h, l) /\ Len(p) = Len(z) + 9
<1> USE DEF IsMark, IsWord
<1> z \in Seq(Nat)
  BY DEF IsBlank
<1>0. PICK n \in Nat : n = Len(z) + 9
  OBVIOUS
<1>2. PICK a : a = one \o z
  OBVIOUS
<1>3. /\ a \in Seq(Nat) /\ Len(a) = n - 8 /\ a[1] = 128
      /\ \A k \in 2 .. n - 8 : a[k] = z[k - 1]
  <2>1. IsConcat(one, z, a)
    BY <1>2, ConcatIs
  <2>2. /\ a \in Seq(Nat) /\ Len(a) = 1 + Len(z) /\ a[1] = one[1]
        /\ \A k \in 1 .. Len(z) : a[1 + k] = z[k]
    BY <2>1 DEF IsConcat
  <2>3. ASSUME NEW k \in 2 .. n - 8
        PROVE  a[k] = z[k - 1]
    <3>1. k - 1 \in 1 .. Len(z) /\ 1 + (k - 1) = k
      BY <1>0
    <3> QED
      BY <2>2, <3>1
  <2> QED
    BY <1>0, <2>2, <2>3
<1>4. \A k \in 2 .. n - 8 : a[k] = 0
  <2>1. ASSUME NEW k \in 2 .. n - 8
        PROVE  a[k] = 0
    <3>1. k - 1 \in 1 .. Len(z)
      BY <1>0
    <3>2. z[k - 1] = 0
      BY <3>1 DEF IsBlank
    <3> QED
      BY <1>3, <3>2
  <2> QED
    BY <2>1
<1>5. PICK b : b = a \o h
  OBVIOUS
<1>6. /\ b \in Seq(Nat) /\ Len(b) = n - 4
      /\ \A k \in 1 .. n - 8 : b[k] = a[k]
      /\ \A k \in 1 .. 4 : b[n - 8 + k] = h[k]
  <2>1. IsConcat(a, h, b)
    BY <1>3, <1>5, ConcatIs
  <2> QED
    BY <1>0, <1>3, <2>1 DEF IsConcat
<1>7. p = b \o l
  BY <1>2, <1>5 DEF Joined
<1>8. /\ p \in Seq(Nat) /\ Len(p) = n
      /\ \A k \in 1 .. n - 4 : p[k] = b[k]
      /\ \A k \in 1 .. 4 : p[n - 4 + k] = l[k]
  <2>1. IsConcat(b, l, p)
    BY <1>6, <1>7, ConcatIs
  <2>2. Len(b) = n - 4
    BY <1>6
  <2>3. p \in Seq(Nat) /\ Len(p) = n
    BY <1>0, <2>1, <2>2 DEF IsConcat
  <2>4. \A k \in 1 .. n - 4 : p[k] = b[k]
    BY <2>1, <2>2 DEF IsConcat
  <2>5. \A k \in 1 .. 4 : p[n - 4 + k] = l[k]
    BY <2>1, <2>2 DEF IsConcat
  <2> QED
    BY <2>3, <2>4, <2>5
<1>10. p[1] = 128
  <2>1. 1 \in 1 .. n - 8 /\ 1 \in 1 .. n - 4
    BY <1>0
  <2>2. p[1] = b[1] /\ b[1] = a[1]
    BY <1>6, <1>8, <2>1
  <2> QED
    BY <1>3, <2>2
<1>11. ASSUME NEW k \in 2 .. n - 8
       PROVE  p[k] = 0
  <2>1. k \in 1 .. n - 8 /\ k \in 1 .. n - 4
    BY <1>0
  <2>2. p[k] = b[k]
    BY <1>8, <2>1
  <2>3. b[k] = a[k]
    BY <1>6, <2>1
  <2>4. a[k] = 0
    BY <1>4
  <2> QED
    BY <2>2, <2>3, <2>4
<1>12. ASSUME NEW k \in 1 .. 4
       PROVE  p[n - 8 + k] = h[k]
  <2>1. n - 8 + k \in 1 .. n - 4
    BY <1>0
  <2>2. p[n - 8 + k] = b[n - 8 + k]
    BY <1>8, <2>1
  <2>3. b[n - 8 + k] = h[k]
    BY <1>6
  <2> QED
    BY <2>2, <2>3
<1> QED
  <2>1. p \in Seq(Nat) /\ Len(p) = n
    BY <1>8
  <2>2. \A k \in 2 .. Len(p) - 8 : p[k] = 0
    BY <1>11, <2>1
  <2>3. ASSUME NEW k \in 1 .. 4
        PROVE  p[Len(p) - 8 + k] = h[k] /\ p[Len(p) - 4 + k] = l[k]
    <3>1. p[n - 8 + k] = h[k]
      BY <1>12
    <3>2. p[n - 4 + k] = l[k]
      BY <1>8
    <3> QED
      BY <2>1, <3>1, <3>2
  <2> QED
    BY <1>0, <1>10, <2>1, <2>2, <2>3 DEF IsMarked

LEMMA PaddingIs ==
  ASSUME NEW length \in Nat
  PROVE  IsPadding(Padding(length), length)
<1> DEFINE i == RestOf(length)
           n == LastBytes(length) - i
           Fits(k) == (length + 1 + k + 8) % InputBytes = 0
           zeros == CHOOSE k \in 0 .. InputBytes - 1 : Fits(k)
<1>1. InputBytes \in Nat /\ InputBytes >= 12
  BY BlockIsWords
<1>2. i \in 0 .. InputBytes - 1
  BY <1>1, QuotientAndRest DEF RestOf
<1>3. n \in Nat /\ n - 9 \in 0 .. InputBytes - 1
  BY <1>1, <1>2 DEF LastBytes, OneIsLast
<1>4. Fits(n - 9)
  <2>1. i + n = InputBytes \/ i + n = 2 * InputBytes
    BY <1>1, <1>2, <1>3 DEF LastBytes
  <2>2. (length + n) % InputBytes = 0
    BY <1>1, <1>3, <2>1, RestOfSum DEF RestOf
  <2>3. length + 1 + (n - 9) + 8 = length + n
    BY <1>3
  <2> QED
    BY <2>2, <2>3
<1>5. zeros \in 0 .. InputBytes - 1 /\ Fits(zeros)
  <2>1. \E k \in 0 .. InputBytes - 1 : Fits(k)
    BY <1>3, <1>4
  <2> HIDE DEF Fits
  <2> QED
    BY <2>1
<1>6. zeros = n - 9
  <2>1. PICK z \in 0 .. InputBytes - 1 : z = zeros
    BY <1>5
  <2>2. Fits(z)
    BY <1>5, <2>1
  <2>3. ((length + 9) + z) % InputBytes = 0
    <3>1. length + 1 + z + 8 = (length + 9) + z
      BY <1>1
    <3> QED
      BY <2>2, <3>1
  <2>4. ((length + 9) + (n - 9)) % InputBytes = 0
    <3>1. length + 1 + (n - 9) + 8 = (length + 9) + (n - 9)
      BY <1>3
    <3> QED
      BY <1>4, <3>1
  <2>5. z = n - 9
    <3>1. length + 9 \in Nat
      OBVIOUS
    <3> QED
      BY <1>3, <2>3, <2>4, <3>1, RestsAgree
  <2> QED
    BY <2>1, <2>5
<1>7. PICK high \in Nat : high = (length * 8) \div Wrap
  BY Sha256Assumption
<1>8. PICK low \in Nat : low = (length * 8) % Wrap
  BY Sha256Assumption
<1>9. Padding(length) = <<128>> \o Zeros(zeros) \o WordBytes(high) \o WordBytes(low)
  BY <1>7, <1>8 DEF Padding
<1>10. /\ Zeros(zeros) \in Seq(Nat) /\ n = Len(Zeros(zeros)) + 9
       /\ \A k \in 1 .. Len(Zeros(zeros)) : Zeros(zeros)[k] = 0
  <2>1. zeros \in Nat
    BY <1>5
  <2> HIDE DEF zeros, n
  <2>2. /\ Zeros(zeros) \in Seq(Nat) /\ Len(Zeros(zeros)) = zeros
        /\ \A k \in 1 .. zeros : Zeros(zeros)[k] = 0
    BY <2>1, ZerosAre
  <2> QED
    BY <1>3, <1>6, <2>2
<1>11. /\ WordBytes(high) \in Seq(Nat) /\ Len(WordBytes(high)) = 4
       /\ WordBytes(low) \in Seq(Nat) /\ Len(WordBytes(low)) = 4
  BY WordBytesAre
<1> HIDE DEF zeros, n
<1>12. PICK z \in Seq(Nat) : z = Zeros(zeros)
  BY <1>10
<1>13. PICK h \in Seq(Nat) : h = WordBytes(high)
  BY <1>11
<1>14. PICK l \in Seq(Nat) : l = WordBytes(low)
  BY <1>11
<1>15. PICK p : p = Padding(length)
  OBVIOUS
<1>17. PICK one \in Seq(Nat) : one = <<128>>
  <2>1. PICK mark \in Nat : mark = 128
    OBVIOUS
  <2>2. <<mark>> \in Seq(Nat)
    BY <2>1
  <2> QED
    BY <2>1, <2>2
<1>16. IsMarked(p, h, l) /\ Len(p) = n
  <2>1. n = Len(z) + 9
    BY <1>10, <1>12
  <2>5. IsWord(h) /\ IsWord(l)
    BY <1>11, <1>13, <1>14 DEF IsWord
  <2>6. IsBlank(z)
    BY <1>10, <1>12 DEF IsBlank
  <2>3. IsMark(one)
    BY <1>17 DEF IsMark
  <2>4. p = Joined(one, z, h, l)
    BY <1>9, <1>12, <1>13, <1>14, <1>15, <1>17 DEF Joined
  <2>2. IsMarked(p, h, l) /\ Len(p) = Len(z) + 9
    BY <2>3, <2>4, <2>5, <2>6, ConcatOfFour
  <2> QED
    BY <2>1, <2>2
<1> QED
  BY <1>7, <1>8, <1>13, <1>14, <1>15, <1>16 DEF IsPadding, IsMarked, n

\* What is behind the whole blocks of a message, when it is padded.
IsTail(tail, length) ==
  LET rest == RestOf(length)
      n == LastBytes(length)
  IN  /\ tail \in Seq(Nat) /\ Len(tail) = n
      /\ \A k \in 1 .. rest : tail[k] = 1000 + (length - rest) + k
      /\ tail[rest + 1] = 128
      /\ \A k \in rest + 2 .. n - 8 : tail[k] = 0
      /\ \A k \in 1 .. 4 :
           /\ tail[n - 8 + k] = WordBytes((length * 8) \div Wrap)[k]
           /\ tail[n - 4 + k] = WordBytes((length * 8) % Wrap)[k]

\* What the rest of a message leaves room for.
LEMMA LastBytesAre ==
  ASSUME NEW length \in Nat
  PROVE  /\ RestOf(length) \in 0 .. InputBytes - 1 /\ RestOf(length) <= length
         /\ LastBytes(length) \in Nat
         /\ RestOf(length) <= LastBytes(length) - 9
<1>1. InputBytes \in Nat /\ InputBytes >= 12
  BY BlockIsWords
<1>2. RestOf(length) \in 0 .. InputBytes - 1
  BY <1>1, QuotientAndRest DEF RestOf
<1>3. RestOf(length) <= length
  BY <1>1, <1>2, RestGrows DEF RestOf
<1>4. LastBytes(length) \in Nat /\ RestOf(length) <= LastBytes(length) - 9
  BY <1>1, <1>2 DEF LastBytes, OneIsLast
<1> QED
  BY <1>2, <1>3, <1>4

LEMMA TailIsPadded ==
  ASSUME NEW length \in Nat, NEW tail, IsTail(tail, length)
  PROVE  Bytes(length - RestOf(length)) \o tail = Bytes(length) \o Padding(length)
<1>1. PICK rest \in Nat : rest = RestOf(length)
  BY LastBytesAre
<1>2. PICK n \in Nat : n = LastBytes(length)
  BY LastBytesAre
<1>3. rest <= length /\ rest <= n - 9
  BY <1>1, <1>2, LastBytesAre
<1>4. PICK high : high = WordBytes((length * 8) \div Wrap)
  OBVIOUS
<1>5. PICK low : low = WordBytes((length * 8) % Wrap)
  OBVIOUS
<1>6. PICK whole \in Nat : whole = length - rest
  BY <1>3
<1>7. PICK s : s = Bytes(whole)
  OBVIOUS
<1>8. PICK t : t = Bytes(length)
  OBVIOUS
<1>9. PICK p : p = Padding(length)
  OBVIOUS
<1>10. /\ s \in Seq(Nat) /\ Len(s) = whole
       /\ \A k \in 1 .. whole : s[k] = 1000 + k
  <2>1. AreBytes(Bytes(whole), whole)
    BY BytesAre
  <2> QED
    BY <1>7, <2>1 DEF AreBytes
<1>11. /\ t \in Seq(Nat) /\ Len(t) = length
       /\ \A k \in 1 .. length : t[k] = 1000 + k
  <2>1. AreBytes(Bytes(length), length)
    BY BytesAre
  <2> QED
    BY <1>8, <2>1 DEF AreBytes
<1>12. /\ p \in Seq(Nat) /\ Len(p) = n - rest
       /\ p[1] = 128
       /\ \A k \in 2 .. n - rest - 8 : p[k] = 0
       /\ \A k \in 1 .. 4 : p[n - rest - 8 + k] = high[k] /\ p[n - rest - 4 + k] = low[k]
  <2>1. IsPadding(p, length)
    BY <1>9, PaddingIs
  <2>2. PICK m : m = LastBytes(length) - RestOf(length)
    OBVIOUS
  <2>3. /\ p \in Seq(Nat) /\ Len(p) = m
        /\ p[1] = 128
        /\ \A k \in 2 .. m - 8 : p[k] = 0
        /\ \A k \in 1 .. 4 : p[m - 8 + k] = high[k] /\ p[m - 4 + k] = low[k]
    BY <1>4, <1>5, <2>1, <2>2 DEF IsPadding
  <2>4. m = n - rest
    BY <1>1, <1>2, <2>2
  <2> QED
    BY <2>3, <2>4
<1>13. /\ tail \in Seq(Nat) /\ Len(tail) = n
       /\ \A k \in 1 .. rest : tail[k] = 1000 + whole + k
       /\ tail[rest + 1] = 128
       /\ \A k \in rest + 2 .. n - 8 : tail[k] = 0
       /\ \A k \in 1 .. 4 : tail[n - 8 + k] = high[k] /\ tail[n - 4 + k] = low[k]
  BY <1>1, <1>2, <1>4, <1>5, <1>6 DEF IsTail
<1>14. PICK u : u = s \o tail
  OBVIOUS
<1>15. PICK v : v = t \o p
  OBVIOUS
<1>16. /\ u \in Seq(Nat) /\ Len(u) = whole + n
       /\ \A k \in 1 .. whole : u[k] = s[k]
       /\ \A k \in 1 .. n : u[whole + k] = tail[k]
  <2>1. IsConcat(s, tail, u)
    BY <1>10, <1>13, <1>14, ConcatIs
  <2>2. Len(s) = whole /\ Len(tail) = n
    BY <1>10, <1>13
  <2> QED
    BY <2>1, <2>2 DEF IsConcat
<1>17. /\ v \in Seq(Nat) /\ Len(v) = whole + n
       /\ \A k \in 1 .. length : v[k] = t[k]
       /\ \A k \in 1 .. n - rest : v[length + k] = p[k]
  <2>1. IsConcat(t, p, v)
    BY <1>11, <1>12, <1>15, ConcatIs
  <2>2. Len(t) = length /\ Len(p) = n - rest /\ length + (n - rest) = whole + n
    BY <1>3, <1>6, <1>11, <1>12
  <2> QED
    BY <2>1, <2>2 DEF IsConcat
<1>18. ASSUME NEW k \in 1 .. whole
       PROVE  u[k] = v[k]
  <2>1. k \in 1 .. length
    BY <1>3, <1>6
  <2>2. u[k] = 1000 + k
    BY <1>10, <1>16
  <2>3. v[k] = 1000 + k
    BY <1>11, <1>17, <2>1
  <2> QED
    BY <2>2, <2>3
<1>19. ASSUME NEW k \in 1 .. rest
       PROVE  u[whole + k] = v[whole + k]
  <2>1. k \in 1 .. n /\ whole + k \in 1 .. length
    BY <1>3, <1>6
  <2>2. u[whole + k] = 1000 + whole + k
    <3>1. u[whole + k] = tail[k]
      BY <1>16, <2>1
    <3>2. tail[k] = 1000 + whole + k
      BY <1>13
    <3> QED
      BY <3>1, <3>2
  <2>3. v[whole + k] = 1000 + (whole + k)
    BY <1>11, <1>17, <2>1
  <2> QED
    BY <2>2, <2>3
<1>20. ASSUME NEW k \in rest + 1 .. n
       PROVE  v[whole + k] = p[k - rest] /\ u[whole + k] = tail[k]
  <2>1. k \in 1 .. n /\ k - rest \in 1 .. n - rest /\ length + (k - rest) = whole + k
    BY <1>3, <1>6
  <2>2. v[length + (k - rest)] = p[k - rest]
    BY <1>17, <2>1
  <2>3. u[whole + k] = tail[k]
    BY <1>16, <2>1
  <2> QED
    BY <2>1, <2>2, <2>3
<1>21. ASSUME NEW k \in rest + 1 .. n
       PROVE  p[k - rest] = tail[k]
  <2>1. CASE k = rest + 1
    <3>1. k - rest = 1
      BY <2>1
    <3> QED
      BY <1>12, <1>13, <2>1, <3>1
  <2>2. CASE k \in rest + 2 .. n - 8
    <3>1. k - rest \in 2 .. n - rest - 8
      BY <1>3, <2>2
    <3>2. p[k - rest] = 0
      BY <1>12, <3>1
    <3>3. tail[k] = 0
      BY <1>13, <2>2
    <3> QED
      BY <3>2, <3>3
  <2>3. CASE k \in n - 7 .. n - 4
    <3>1. PICK j \in 1 .. 4 : k = n - 8 + j
      <4>1. k - (n - 8) \in 1 .. 4 /\ k = n - 8 + (k - (n - 8))
        BY <2>3
      <4> QED
        BY <4>1
    <3>2. k - rest = n - rest - 8 + j
      BY <3>1
    <3>3. p[n - rest - 8 + j] = high[j]
      BY <1>12
    <3>4. tail[n - 8 + j] = high[j]
      BY <1>13
    <3> QED
      BY <3>1, <3>2, <3>3, <3>4
  <2>4. CASE k \in n - 3 .. n
    <3>1. PICK j \in 1 .. 4 : k = n - 4 + j
      <4>1. k - (n - 4) \in 1 .. 4 /\ k = n - 4 + (k - (n - 4))
        BY <2>4
      <4> QED
        BY <4>1
    <3>2. k - rest = n - rest - 4 + j
      BY <3>1
    <3>3. p[n - rest - 4 + j] = low[j]
      BY <1>12
    <3>4. tail[n - 4 + j] = low[j]
      BY <1>13
    <3> QED
      BY <3>1, <3>2, <3>3, <3>4
  <2>5. \/ k = rest + 1
        \/ k \in rest + 2 .. n - 8
        \/ k \in n - 7 .. n - 4
        \/ k \in n - 3 .. n
    BY <1>3
  <2> QED
    BY <2>1, <2>2, <2>3, <2>4, <2>5
<1>22. ASSUME NEW k \in 1 .. Len(u)
       PROVE  u[k] = v[k]
  <2>1. k \in 1 .. whole + n
    BY <1>16
  <2>2. CASE k <= whole
    <3>1. k \in 1 .. whole
      BY <2>1, <2>2
    <3> QED
      BY <1>18, <3>1
  <2>3. CASE k > whole
    <3>1. PICK j \in 1 .. n : k = whole + j
      <4>1. k - whole \in 1 .. n /\ k = whole + (k - whole)
        BY <2>1, <2>3
      <4> QED
        BY <4>1
    <3>2. CASE j <= rest
      <4>1. j \in 1 .. rest
        BY <3>2
      <4> QED
        BY <1>19, <3>1, <4>1
    <3>3. CASE j > rest
      <4>1. j \in rest + 1 .. n
        BY <3>3
      <4> QED
        BY <1>20, <1>21, <3>1, <4>1
    <3> QED
      BY <3>2, <3>3
  <2> QED
    BY <2>1, <2>2, <2>3
<1>23. u = v
  BY <1>16, <1>17, <1>22, SameBytes
<1> QED
  BY <1>1, <1>6, <1>7, <1>8, <1>9, <1>14, <1>15, <1>23

Rest == RestOf(size)

\* What is not in a block yet begins the buffer, whatever is behind it.
RestIsHeld ==
  /\ size \in Nat /\ buffer \in [1 .. InputBytes -> Nat]
  /\ \A k \in 1 .. Rest : buffer[k] = 1000 + (size - Rest) + k

\* The rest of a message in its block, with the mark, and zeros to the end.
RestIsMarked(block) ==
  /\ block \in [1 .. InputBytes -> Nat]
  /\ \A k \in 1 .. Rest : block[k] = 1000 + (size - Rest) + k
  /\ block[Rest + 1] = 128
  /\ \A j \in Rest + 2 .. InputBytes : block[j] = 0

LEMMA BlankedIs ==
  ASSUME RestIsHeld, NEW block, block = Blanked(Marked(Rest), Rest \div 4 + 1)
  PROVE  RestIsMarked(block)
<1>0. PICK i \in 0 .. InputBytes - 1 : i = Rest
  BY LastBytesAre DEF RestIsHeld, Rest
<1>1. InputBytes \in Nat /\ InputBytes >= 12
  BY BlockIsWords
<1>2. PICK w \in Nat : w = i \div 4
  BY <1>1
<1>3. i >= 4 * w /\ i < 4 * w + 4
  BY <1>1, <1>2
<1>4. \A j \in 1 .. InputBytes : (j - 1) \div 4 = w <=> j \in 4 * w + 1 .. 4 * w + 4
  BY <1>1
<1>5. block = [j \in 1 .. InputBytes |->
                 IF j > 4 * (w + 1) THEN 0
                 ELSE IF j = i + 1 THEN 128
                 ELSE IF j > i + 1 /\ (j - 1) \div 4 = w THEN 0 ELSE buffer[j]]
  <2>1. block = Blanked(Marked(i), w + 1)
    BY <1>0, <1>2
  <2> QED
    BY <1>2, <2>1 DEF Blanked, Marked
<1>6. ASSUME NEW j \in 1 .. InputBytes
      PROVE  block[j] = IF j <= i THEN buffer[j] ELSE IF j = i + 1 THEN 128 ELSE 0
  <2>1. CASE j <= i
    BY <1>1, <1>3, <1>5, <2>1
  <2>2. CASE j = i + 1
    BY <1>1, <1>3, <1>5, <2>2
  <2>3. CASE j > i + 1
    BY <1>1, <1>3, <1>4, <1>5, <2>3
  <2> QED
    BY <1>1, <2>1, <2>2, <2>3
<1>7. block = [j \in 1 .. InputBytes |-> block[j]]
  BY <1>5
<1>8. block \in [1 .. InputBytes -> Nat]
  <2>1. ASSUME NEW j \in 1 .. InputBytes
        PROVE  block[j] \in Nat
    <3>1. buffer[j] \in Nat
      BY DEF RestIsHeld
    <3> QED
      BY <1>6, <3>1
  <2> QED
    BY <1>7, <2>1
<1>9. \A j \in 1 .. i : block[j] = 1000 + (size - i) + j
  BY <1>0, <1>1, <1>6 DEF RestIsHeld
<1>10. block[i + 1] = 128
  <2>1. i + 1 \in 1 .. InputBytes /\ ~ (i + 1 <= i)
    BY <1>1
  <2> QED
    BY <1>6, <2>1
<1>11. \A j \in i + 2 .. InputBytes : block[j] = 0
  <2>1. \A j \in i + 2 .. InputBytes : j \in 1 .. InputBytes /\ ~ (j <= i) /\ j # i + 1
    BY <1>1
  <2> QED
    BY <1>6, <2>1
<1> QED
  BY <1>0, <1>8, <1>9, <1>10, <1>11 DEF RestIsMarked

ShaTypeOK ==
  /\ message \in [length : 0 .. MaxLength, aligned : BOOLEAN]
  /\ size \in 0 .. message.length
  /\ buffer \in [1 .. InputBytes -> Nat]
  /\ blocks \in Seq(Seq(Nat))
  /\ digested \in BOOLEAN

\* Until the end: the blocks are what the rest is behind.
RestIsBuffered ==
  ~digested =>
    /\ FlattenSeq(blocks) = Bytes(size - Rest)
    /\ \A k \in 1 .. Rest : buffer[k] = 1000 + (size - Rest) + k

ShaInvariant == ShaTypeOK /\ RestIsBuffered /\ HashesPaddedMessage

\* The buffer has room for the size just when the message needs one more block only.
LEMMA SpillsIs ==
  ASSUME NEW length \in Nat
  PROVE  Spills(RestOf(length) \div 4 + 1) <=> ~ OneIsLast(length)
<1>1. InputBytes \in Nat /\ InputBytes >= 12 /\ HighIndex \in Nat /\ 4 * HighIndex = InputBytes - 8
  BY BlockIsWords
<1>2. PICK rest \in Nat : rest = RestOf(length)
  BY LastBytesAre
<1>3. rest \div 4 + 1 > HighIndex <=> rest >= 4 * HighIndex
  BY <1>1
<1> QED
  BY <1>1, <1>2, <1>3 DEF Spills, OneIsLast

LEMMA RestIsSmall ==
  ASSUME RestIsHeld
  PROVE  \E rest \in 0 .. InputBytes - 1 :
           /\ rest = Rest /\ rest <= size
           /\ OneIsLast(size) <=> rest <= InputBytes - 9
<1>1. PICK length \in Nat : length = size
  BY DEF RestIsHeld
<1>2. RestOf(length) \in 0 .. InputBytes - 1 /\ RestOf(length) <= length
  BY LastBytesAre
<1>3. OneIsLast(length) <=> RestOf(length) <= InputBytes - 9
  BY DEF OneIsLast
<1> QED
  BY <1>1, <1>2, <1>3 DEF Rest

LEMMA OneLastBlock ==
  ASSUME RestIsHeld, OneIsLast(size),
         NEW last, last = WithSize(Blanked(Marked(Rest), Rest \div 4 + 1))
  PROVE  last \in [1 .. InputBytes -> Nat] /\ IsTail(last, size)
<1>1. PICK rest \in 0 .. InputBytes - 1 : rest = Rest /\ rest <= size /\ rest <= InputBytes - 9
  BY RestIsSmall
<1>2. InputBytes \in Nat /\ InputBytes >= 12 /\ size \in Nat
  BY BlockIsWords DEF RestIsHeld
<1>3. PICK block : block = Blanked(Marked(Rest), Rest \div 4 + 1) /\ last = WithSize(block)
  OBVIOUS
<1>4. RestIsMarked(block)
  BY <1>3, BlankedIs
<1>5. /\ block \in [1 .. InputBytes -> Nat]
      /\ \A k \in 1 .. rest : block[k] = 1000 + (size - rest) + k
      /\ block[rest + 1] = 128
      /\ \A j \in rest + 2 .. InputBytes : block[j] = 0
  BY <1>1, <1>4 DEF RestIsMarked
<1>6. HasRoom(block)
  BY <1>1, <1>2, <1>5 DEF HasRoom
<1>7. IsSized(last, block)
  BY <1>2, <1>3, <1>6, WithSizeIs
<1>8. last \in [1 .. InputBytes -> Nat] /\ \A j \in 1 .. InputBytes - 8 : last[j] = block[j]
  BY <1>7 DEF IsSized
<1>9. last \in Seq(Nat) /\ Len(last) = InputBytes
  BY <1>8, BlockIsSeq
<1>10. \A k \in 1 .. rest : last[k] = 1000 + (size - rest) + k
  BY <1>1, <1>2, <1>5, <1>8
<1>11. last[rest + 1] = 128
  BY <1>1, <1>2, <1>5, <1>8
<1>12. \A k \in rest + 2 .. InputBytes - 8 : last[k] = 0
  BY <1>1, <1>2, <1>5, <1>8
<1>13. HasSize(last, size * 8)
  BY <1>7 DEF IsSized
<1>14. LastBytes(size) = InputBytes
  BY DEF LastBytes
<1>15. IsTail(last, size)
  BY <1>1, <1>9, <1>10, <1>11, <1>12, <1>13, <1>14 DEF IsTail, HasSize, Rest
<1> QED
  BY <1>8, <1>15

LEMMA TwoLastBlocks ==
  ASSUME RestIsHeld, ~ OneIsLast(size),
         NEW first, first = Blanked(Marked(Rest), Rest \div 4 + 1),
         NEW last, last = WithSize(Blanked(Marked(Rest), 0))
  PROVE  /\ first \in [1 .. InputBytes -> Nat] /\ last \in [1 .. InputBytes -> Nat]
         /\ IsTail(first \o last, size)
<1>1. PICK rest \in 0 .. InputBytes - 1 : rest = Rest /\ rest <= size /\ rest > InputBytes - 9
  <2>1. PICK rest \in 0 .. InputBytes - 1 : rest = Rest /\ rest <= size /\ ~ (rest <= InputBytes - 9)
    BY RestIsSmall
  <2>2. InputBytes \in Nat
    BY BlockIsWords
  <2> QED
    BY <2>1, <2>2
<1>2. InputBytes \in Nat /\ InputBytes >= 12 /\ size \in Nat
  BY BlockIsWords DEF RestIsHeld
<1>3. RestIsMarked(first)
  BY BlankedIs
<1>4. /\ first \in [1 .. InputBytes -> Nat]
      /\ \A k \in 1 .. rest : first[k] = 1000 + (size - rest) + k
      /\ first[rest + 1] = 128
      /\ \A j \in rest + 2 .. InputBytes : first[j] = 0
  BY <1>1, <1>3 DEF RestIsMarked
<1>5. PICK blank : blank = Blanked(Marked(Rest), 0) /\ last = WithSize(blank)
  OBVIOUS
<1>6. blank \in [1 .. InputBytes -> Nat] /\ \A j \in 1 .. InputBytes : blank[j] = 0
  <2>1. blank = [j \in 1 .. InputBytes |-> IF j > 4 * 0 THEN 0 ELSE Marked(Rest)[j]]
    BY <1>5, Zenon DEF Blanked
  <2>2. blank = [j \in 1 .. InputBytes |-> 0]
    BY <1>2, <2>1
  <2> QED
    BY <2>2
<1>7. HasRoom(blank)
  BY <1>2, <1>6 DEF HasRoom
<1>8. IsSized(last, blank)
  BY <1>2, <1>5, <1>7, WithSizeIs
<1>9. last \in [1 .. InputBytes -> Nat] /\ \A j \in 1 .. InputBytes - 8 : last[j] = 0
  BY <1>2, <1>6, <1>8 DEF IsSized
<1>10. /\ first \in Seq(Nat) /\ Len(first) = InputBytes
       /\ last \in Seq(Nat) /\ Len(last) = InputBytes
  BY <1>4, <1>9, BlockIsSeq
<1>11. PICK tail : tail = first \o last
  OBVIOUS
<1>12. IsConcat(first, last, tail)
  BY <1>10, <1>11, ConcatIs
<1>13. PICK n \in Nat : n = InputBytes + InputBytes
  BY <1>2
<1>14. tail \in Seq(Nat) /\ Len(tail) = n
  BY <1>10, <1>12, <1>13 DEF IsConcat
<1>15. \A k \in 1 .. InputBytes : tail[k] = first[k] /\ tail[InputBytes + k] = last[k]
  BY <1>10, <1>12 DEF IsConcat
<1>16. \A k \in 1 .. rest : tail[k] = 1000 + (size - rest) + k
  BY <1>1, <1>2, <1>4, <1>15
<1>17. tail[rest + 1] = 128
  BY <1>1, <1>2, <1>4, <1>15
<1>18. ASSUME NEW k \in rest + 2 .. n - 8
       PROVE  tail[k] = 0
  <2>1. CASE k <= InputBytes
    <3>1. k \in 1 .. InputBytes /\ k \in rest + 2 .. InputBytes
      BY <1>1, <1>2, <2>1
    <3>2. tail[k] = first[k]
      BY <1>15, <3>1
    <3>3. first[k] = 0
      BY <1>4, <3>1
    <3> QED
      BY <3>2, <3>3
  <2>2. CASE k > InputBytes
    <3>1. PICK j \in 1 .. InputBytes - 8 : k = InputBytes + j
      <4>1. k - InputBytes \in 1 .. InputBytes - 8 /\ k = InputBytes + (k - InputBytes)
        BY <1>2, <1>13, <2>2
      <4> QED
        BY <4>1
    <3>2. j \in 1 .. InputBytes
      BY <1>2
    <3>3. tail[InputBytes + j] = last[j]
      BY <1>15, <3>2
    <3>4. last[j] = 0
      BY <1>9
    <3> QED
      BY <3>1, <3>3, <3>4
  <2> QED
    BY <1>2, <1>13, <2>1, <2>2
<1>19. ASSUME NEW k \in 1 .. 4
       PROVE  /\ tail[n - 8 + k] = WordBytes((size * 8) \div Wrap)[k]
              /\ tail[n - 4 + k] = WordBytes((size * 8) % Wrap)[k]
  <2>1. /\ InputBytes - 8 + k \in 1 .. InputBytes /\ n - 8 + k = InputBytes + (InputBytes - 8 + k)
        /\ InputBytes - 4 + k \in 1 .. InputBytes /\ n - 4 + k = InputBytes + (InputBytes - 4 + k)
    BY <1>2, <1>13
  <2>2. /\ tail[InputBytes + (InputBytes - 8 + k)] = last[InputBytes - 8 + k]
        /\ tail[InputBytes + (InputBytes - 4 + k)] = last[InputBytes - 4 + k]
    BY <1>15, <2>1
  <2>3. /\ last[InputBytes - 8 + k] = WordBytes((size * 8) \div Wrap)[k]
        /\ last[InputBytes - 4 + k] = WordBytes((size * 8) % Wrap)[k]
    BY <1>8 DEF IsSized, HasSize
  <2> QED
    BY <2>1, <2>2, <2>3
<1>20. LastBytes(size) = n
  BY <1>13 DEF LastBytes
<1>21. IsTail(tail, size)
  BY <1>1, <1>14, <1>16, <1>17, <1>18, <1>19, <1>20 DEF IsTail, Rest
<1> QED
  BY <1>4, <1>9, <1>11, <1>21

LEMMA DigestKeepsInvariant ==
  ASSUME ShaInvariant, Digest
  PROVE  ShaInvariant'
<1>1. /\ message \in [length : 0 .. MaxLength, aligned : BOOLEAN] /\ size = message.length
      /\ size \in Nat /\ buffer \in [1 .. InputBytes -> Nat]
      /\ blocks \in Seq(Seq(Nat)) /\ ~digested
  BY Sha256Assumption DEF ShaInvariant, ShaTypeOK, Digest
<1>2. PICK rest \in Nat : rest = Rest
  BY <1>1, LastBytesAre DEF Rest
<1>3. /\ FlattenSeq(blocks) = Bytes(size - rest)
      /\ \A k \in 1 .. rest : buffer[k] = 1000 + (size - rest) + k
  BY <1>1, <1>2 DEF ShaInvariant, RestIsBuffered
<1>4. rest <= size /\ RestIsHeld
  BY <1>1, <1>2, <1>3, LastBytesAre DEF Rest, RestIsHeld
<1>5. PICK padded : padded = Bytes(size) \o Padding(size)
  OBVIOUS
<1>6. PICK whole : whole = Bytes(size - rest)
  OBVIOUS
<1>7. whole \in Seq(Nat)
  <2>1. PICK n \in Nat : n = size - rest
    BY <1>1, <1>4
  <2>2. AreBytes(Bytes(n), n)
    BY BytesAre
  <2> QED
    BY <1>6, <2>1, <2>2 DEF AreBytes
<1>8. ASSUME NEW tail, IsTail(tail, size)
      PROVE  whole \o tail = padded
  BY <1>1, <1>2, <1>5, <1>6, <1>8, TailIsPadded DEF Rest
<1>9. PICK first : first = Blanked(Marked(rest), rest \div 4 + 1)
  OBVIOUS
<1>10. /\ blocks' \in Seq(Seq(Nat)) /\ buffer' \in [1 .. InputBytes -> Nat]
       /\ FlattenSeq(blocks') = padded
  <2>1. CASE OneIsLast(size)
    <3>1. PICK last : last = WithSize(first)
      OBVIOUS
    <3>2. last \in [1 .. InputBytes -> Nat] /\ IsTail(last, size)
      BY <1>2, <1>4, <1>9, <2>1, <3>1, OneLastBlock
    <3>3. ~ Spills(rest \div 4 + 1)
      BY <1>1, <1>2, <2>1, SpillsIs DEF Rest
    <3>4. buffer' = last /\ blocks' = Append(blocks, last)
      <4>1. size % InputBytes = rest
        BY <1>2 DEF Rest, RestOf
      <4>2. buffer' = WithSize(first) /\ HashesBlock(buffer')
        BY <1>9, <3>3, <4>1 DEF Digest
      <4> QED
        BY <3>1, <4>2 DEF HashesBlock
    <3>5. last \in Seq(Nat)
      BY <3>2, BlockIsSeq
    <3>6. FlattenSeq(blocks') = whole \o last
      <4>1. FlattenSeq(Append(blocks, last)) = FlattenSeq(blocks) \o last
        BY <1>1, <3>5, FlattenAppend
      <4>2. FlattenSeq(blocks) = whole
        BY <1>1, <1>3, <1>6
      <4> QED
        BY <3>4, <4>1, <4>2
    <3>7. whole \o last = padded
      BY <1>8, <3>2
    <3>8. Append(blocks, last) \in Seq(Seq(Nat))
      BY <1>1, <3>5
    <3> QED
      BY <3>2, <3>4, <3>6, <3>7, <3>8
  <2>2. CASE ~ OneIsLast(size)
    <3>1. PICK last : last = WithSize(Blanked(Marked(rest), 0))
      OBVIOUS
    <3>2. /\ first \in [1 .. InputBytes -> Nat] /\ last \in [1 .. InputBytes -> Nat]
          /\ IsTail(first \o last, size)
      BY <1>2, <1>4, <1>9, <2>2, <3>1, TwoLastBlocks
    <3>3. Spills(rest \div 4 + 1)
      BY <1>1, <1>2, <2>2, SpillsIs DEF Rest
    <3>4. buffer' = last /\ blocks' = blocks \o <<first, last>>
      <4>1. size % InputBytes = rest
        BY <1>2 DEF Rest, RestOf
      <4> QED
        BY <1>9, <3>1, <3>3, <4>1 DEF Digest
    <3>5. first \in Seq(Nat) /\ last \in Seq(Nat)
      BY <3>2, BlockIsSeq
    <3>6. PICK more : more = Append(blocks, first)
      OBVIOUS
    <3>7. more \in Seq(Seq(Nat)) /\ blocks' = Append(more, last)
      BY <1>1, <3>4, <3>5, <3>6
    <3>8. FlattenSeq(more) = whole \o first
      <4>1. FlattenSeq(Append(blocks, first)) = FlattenSeq(blocks) \o first
        BY <1>1, <3>5, FlattenAppend
      <4>2. FlattenSeq(blocks) = whole
        BY <1>1, <1>3, <1>6
      <4> QED
        BY <3>6, <4>1, <4>2
    <3>9. FlattenSeq(blocks') = FlattenSeq(more) \o last
      BY <3>5, <3>7, FlattenAppend
    <3>10. (whole \o first) \o last = whole \o (first \o last)
      BY <1>7, <3>5
    <3>11. whole \o (first \o last) = padded
      BY <1>8, <3>2
    <3>12. Append(more, last) \in Seq(Seq(Nat))
      BY <3>5, <3>7
    <3>13. FlattenSeq(blocks') = padded
      BY <3>8, <3>9, <3>10, <3>11
    <3> QED
      BY <3>2, <3>4, <3>7, <3>12, <3>13
  <2> QED
    BY <2>1, <2>2
<1>11. message' = message /\ size' = size /\ digested' = TRUE
  BY DEF Digest
<1>12. ShaTypeOK'
  BY <1>1, <1>10, <1>11 DEF ShaTypeOK, ShaInvariant
<1>13. HashesPaddedMessage'
  BY <1>1, <1>5, <1>10, <1>11 DEF HashesPaddedMessage, Padding, Bytes, Zeros, WordBytes
<1>14. RestIsBuffered'
  BY <1>11 DEF RestIsBuffered
<1> QED
  BY <1>12, <1>13, <1>14 DEF ShaInvariant

LEMMA InitHasInvariant ==
  ASSUME ShaInit
  PROVE  ShaInvariant
<1>1. InputBytes \in Nat /\ InputBytes >= 12 /\ MaxLength \in Nat
  BY BlockIsWords, Sha256Assumption
<1>2. message \in [length : 0 .. MaxLength, aligned : BOOLEAN] /\ size = 0 /\ 0 \in 0 .. message.length
  BY <1>1 DEF ShaInit
<1>3. buffer \in [1 .. InputBytes -> Nat]
  BY <1>1 DEF ShaInit, Zeros
<1>4. ShaTypeOK
  <2>1. blocks = <<>> /\ digested = FALSE
    BY DEF ShaInit
  <2>2. blocks \in Seq(Seq(Nat))
    BY <2>1
  <2>3. size \in 0 .. message.length
    BY <1>2
  <2> QED
    BY <1>2, <1>3, <2>1, <2>2, <2>3 DEF ShaTypeOK
<1>5. Rest = 0
  BY <1>2, LastBytesAre DEF Rest
<1>6. FlattenSeq(blocks) = <<>>
  BY DEF ShaInit, FlattenSeq
<1>7. Bytes(0) = <<>>
  BY DEF Bytes
<1>8. RestIsBuffered
  BY <1>2, <1>5, <1>6, <1>7 DEF RestIsBuffered
<1> QED
  BY <1>4, <1>8 DEF ShaInvariant, HashesPaddedMessage, ShaInit

LEMMA HashWholeKeepsInvariant ==
  ASSUME ShaInvariant, HashWhole
  PROVE  ShaInvariant'
<1>1. /\ message \in [length : 0 .. MaxLength, aligned : BOOLEAN] /\ message' = message
      /\ size \in Nat /\ size + InputBytes <= message.length /\ size' = size + InputBytes
      /\ buffer \in [1 .. InputBytes -> Nat] /\ buffer' = buffer
      /\ blocks \in Seq(Seq(Nat)) /\ digested = FALSE /\ digested' = FALSE
      /\ InputBytes \in Nat
  BY BlockIsWords DEF ShaInvariant, ShaTypeOK, HashWhole
<1>2. PICK next \in Nat : next = size + InputBytes
  BY <1>1
<1>3. PICK piece : piece = Piece(size, InputBytes)
  OBVIOUS
<1>4. PICK n \in Nat :
        /\ piece \in Seq(Nat) /\ Len(piece) = n /\ n <= InputBytes
        /\ n < InputBytes => size + n = message.length
        /\ \A k \in 1 .. n : piece[k] = 1000 + size + k
  <2>1. message.length \in Nat /\ size <= message.length
    BY <1>1
  <2>2. IsPiece(piece, size, InputBytes)
    BY <1>1, <1>3, <2>1, PieceIs
  <2> QED
    BY <2>2 DEF IsPiece
<1>5. n = InputBytes
  BY <1>1, <1>4
<1>6. IsBlockAt(piece, size)
  <2>1. piece = [k \in 1 .. InputBytes |-> piece[k]] /\ \A k \in 1 .. InputBytes : piece[k] \in Nat
    BY <1>4, <1>5
  <2> QED
    BY <1>4, <1>5, <2>1 DEF IsBlockAt
<1>7. FlattenSeq(blocks) = Bytes(size) /\ size % InputBytes = 0
  <2>1. Rest = 0 /\ size % InputBytes = 0
    BY DEF Rest, RestOf, HashWhole
  <2>2. FlattenSeq(blocks) = Bytes(size - Rest)
    BY <1>1 DEF ShaInvariant, RestIsBuffered
  <2>3. size - 0 = size
    BY <1>1
  <2> QED
    BY <2>1, <2>2, <2>3
<1>8. blocks' = Append(blocks, piece)
  BY <1>3 DEF HashWhole, HashesBlock
<1>9. blocks' \in Seq(Seq(Nat)) /\ FlattenSeq(blocks') = Bytes(next)
  <2>3. piece \in Seq(Nat) /\ blocks \in Seq(Seq(Nat))
    BY <1>1, <1>4
  <2>1. FlattenSeq(blocks') = Bytes(size) \o piece
    BY <1>7, <1>8, <2>3, FlattenAppend
  <2>2. Bytes(size) \o piece = Bytes(next)
    BY <1>1, <1>2, <1>6, BytesGrow
  <2> QED
    BY <1>8, <2>1, <2>2, <2>3
<1>10. next % InputBytes = 0
  <2>1. (size % InputBytes) + InputBytes <= InputBytes /\ (size % InputBytes) + InputBytes = InputBytes
    BY <1>1, <1>7
  <2> QED
    BY <1>1, <1>2, <2>1, RestGrows
<1>11. ShaTypeOK'
  <2>1. size' \in 0 .. message'.length
    BY <1>1
  <2> QED
    BY <1>1, <1>9, <2>1 DEF ShaTypeOK
<1>12. RestIsBuffered'
  <2>1. Rest' = 0 /\ next - 0 = next
    BY <1>1, <1>2, <1>10 DEF Rest, RestOf
  <2>2. Bytes(next)' = Bytes(next)
    BY DEF Bytes
  <2> QED
    BY <1>1, <1>2, <1>9, <2>1, <2>2 DEF RestIsBuffered, Bytes
<1> QED
  BY <1>1, <1>11, <1>12 DEF ShaInvariant, HashesPaddedMessage

LEMMA FillBufferKeepsInvariant ==
  ASSUME ShaInvariant, FillBuffer
  PROVE  ShaInvariant'
<1>1. /\ message \in [length : 0 .. MaxLength, aligned : BOOLEAN] /\ message' = message
      /\ size \in Nat /\ size < message.length
      /\ buffer \in [1 .. InputBytes -> Nat]
      /\ blocks \in Seq(Seq(Nat)) /\ digested = FALSE /\ digested' = FALSE
      /\ InputBytes \in Nat /\ InputBytes >= 12
  BY BlockIsWords DEF ShaInvariant, ShaTypeOK, FillBuffer
<1>2. PICK rest \in 0 .. InputBytes - 1 : rest = Rest /\ rest <= size
  BY <1>1, LastBytesAre DEF Rest
<1>3. PICK room \in Nat : room = InputBytes - rest
  BY <1>1
<1>4. PICK piece : piece = Piece(size, room)
  OBVIOUS
<1>5. PICK n \in Nat :
        /\ piece \in Seq(Nat) /\ Len(piece) = n /\ n <= room /\ size + n <= message.length
        /\ \A k \in 1 .. n : piece[k] = 1000 + size + k
  <2>1. message.length \in Nat /\ size <= message.length
    BY <1>1
  <2>2. IsPiece(piece, size, room)
    BY <1>1, <1>4, <2>1, PieceIs
  <2> QED
    BY <2>2 DEF IsPiece
<1>6. PICK next \in Nat : next = size + n
  BY <1>1
<1>7. PICK whole \in Nat : whole = size - rest
  BY <1>1, <1>2
<1>8. /\ FlattenSeq(blocks) = Bytes(whole)
      /\ \A k \in 1 .. rest : buffer[k] = 1000 + whole + k
  BY <1>1, <1>2, <1>7 DEF ShaInvariant, RestIsBuffered
<1>9. /\ buffer' = Filled(rest, piece) /\ size' = next
      /\ rest + n = InputBytes => blocks' = Append(blocks, buffer')
      /\ rest + n # InputBytes => blocks' = blocks
  BY <1>2, <1>3, <1>4, <1>5, <1>6 DEF FillBuffer, HashesBlock, Rest, RestOf
<1>10. PICK filled : filled = Filled(rest, piece)
  OBVIOUS
<1>11. filled \in [1 .. InputBytes -> Nat]
  <2>1. ASSUME NEW k \in 1 .. InputBytes
        PROVE  (IF k \in rest + 1 .. rest + n THEN piece[k - rest] ELSE buffer[k]) \in Nat
    <3>1. k \in rest + 1 .. rest + n => k - rest \in 1 .. n
      BY <1>1, <1>2
    <3> QED
      BY <1>1, <1>5, <3>1
  <2> QED
    BY <1>5, <1>10, <2>1 DEF Filled
<1>12. ASSUME NEW k \in 1 .. rest + n
       PROVE  filled[k] = 1000 + whole + k
  <2>1. k \in 1 .. InputBytes
    BY <1>1, <1>2, <1>3, <1>5
  <2>2. CASE k <= rest
    <3>1. k \in 1 .. rest /\ k \notin rest + 1 .. rest + n
      BY <1>2, <2>2
    <3>2. filled[k] = buffer[k]
      BY <1>5, <1>10, <2>1, <3>1 DEF Filled
    <3> QED
      BY <1>8, <3>1, <3>2
  <2>3. CASE k > rest
    <3>1. PICK j \in 1 .. n : k = rest + j
      <4>1. k - rest \in 1 .. n /\ k = rest + (k - rest)
        BY <1>2, <2>3
      <4> QED
        BY <4>1
    <3>2. k \in rest + 1 .. rest + n /\ k - rest = j
      BY <1>2, <3>1
    <3>3. filled[k] = piece[j]
      BY <1>5, <1>10, <2>1, <3>2 DEF Filled
    <3>4. piece[j] = 1000 + size + j
      BY <1>5
    <3>5. size + j = whole + k
      BY <1>1, <1>2, <1>7, <3>1
    <3> QED
      BY <1>1, <1>7, <3>3, <3>4, <3>5
  <2> QED
    BY <1>2, <2>2, <2>3
<1>13. (size % InputBytes) = rest /\ rest + n <= InputBytes
  <2>1. (size % InputBytes) = rest
    BY <1>2 DEF Rest, RestOf
  <2>2. n <= InputBytes - rest
    BY <1>3, <1>5
  <2> QED
    BY <1>1, <2>1, <2>2
<1>14. /\ rest + n < InputBytes => next % InputBytes = rest + n
       /\ rest + n = InputBytes => next % InputBytes = 0
  BY <1>1, <1>6, <1>13, RestGrows
<1>15. PICK rest2 : rest2 = Rest'
  OBVIOUS
<1>16. rest2 = next % InputBytes
  BY <1>9, <1>15 DEF Rest, RestOf
<1>17. /\ blocks' \in Seq(Seq(Nat))
       /\ FlattenSeq(blocks') = Bytes(next - rest2)
       /\ \A k \in 1 .. rest2 : filled[k] = 1000 + (next - rest2) + k
  <2>1. CASE rest + n = InputBytes
    <3>1. rest2 = 0 /\ next - rest2 = whole + InputBytes
      <4>1. rest2 = 0
        BY <1>14, <1>16, <2>1
      <4>2. size = whole + rest
        BY <1>1, <1>2, <1>7
      <4> QED
        BY <1>1, <1>6, <2>1, <4>1, <4>2
    <3>2. IsBlockAt(filled, whole)
      BY <1>11, <1>12, <2>1 DEF IsBlockAt
    <3>3. filled \in Seq(Nat)
      BY <1>11, BlockIsSeq
    <3>4. blocks' = Append(blocks, filled)
      BY <1>9, <1>10, <2>1
    <3>5. FlattenSeq(blocks') = Bytes(whole) \o filled
      BY <1>1, <1>8, <3>3, <3>4, FlattenAppend
    <3>6. Bytes(whole) \o filled = Bytes(whole + InputBytes)
      BY <3>2, BytesGrow
    <3>7. Append(blocks, filled) \in Seq(Seq(Nat))
      BY <1>1, <3>3
    <3> QED
      BY <3>1, <3>4, <3>5, <3>6, <3>7
  <2>2. CASE rest + n < InputBytes
    <3>1. rest2 = rest + n /\ next - rest2 = whole
      <4>1. rest2 = rest + n
        BY <1>14, <1>16, <2>2
      <4>2. size = whole + rest
        BY <1>1, <1>2, <1>7
      <4> QED
        BY <1>1, <1>6, <4>1, <4>2
    <3>2. blocks' = blocks
      BY <1>9, <2>2
    <3> QED
      BY <1>1, <1>8, <1>12, <3>1, <3>2
  <2> QED
    BY <1>1, <1>2, <1>13, <2>1, <2>2
<1>18. ShaTypeOK'
  <2>1. size' \in 0 .. message'.length
    BY <1>1, <1>5, <1>6, <1>9
  <2>2. buffer' \in [1 .. InputBytes -> Nat]
    BY <1>9, <1>10, <1>11
  <2> QED
    BY <1>1, <1>17, <2>1, <2>2 DEF ShaTypeOK
<1>19. RestIsBuffered'
  <2>1. size' = next /\ buffer' = filled /\ Rest' = rest2
    BY <1>9, <1>10, <1>15
  <2> QED
    BY <1>17, <2>1 DEF RestIsBuffered, Bytes
<1> QED
  BY <1>1, <1>18, <1>19 DEF ShaInvariant, HashesPaddedMessage

LEMMA SameBlocksSameHash ==
  ASSUME HashesPaddedMessage, message' = message, blocks' = blocks, digested' = digested
  PROVE  HashesPaddedMessage'
BY DEF HashesPaddedMessage, Bytes, Padding, Zeros, WordBytes

\* What is hashed is always the padded message, of whatever length and wherever it
\* begins in memory (sha256.ts:106-163, 203-239).
THEOREM PaddedMessageIsHashed == ShaSpec => []HashesPaddedMessage
<1>1. ShaInit => ShaInvariant
  BY InitHasInvariant
<1>2. ShaInvariant /\ [ShaNext]_shaVars => ShaInvariant'
  <2>1. ASSUME ShaInvariant, UNCHANGED shaVars
        PROVE  ShaInvariant'
    <3>1. /\ message' = message /\ size' = size /\ buffer' = buffer
          /\ blocks' = blocks /\ digested' = digested
      BY <2>1 DEF shaVars
    <3>2. ShaTypeOK'
      BY <2>1, <3>1 DEF ShaInvariant, ShaTypeOK
    <3>3. RestIsBuffered'
      BY <2>1, <3>1 DEF ShaInvariant, RestIsBuffered, Rest, RestOf, Bytes
    <3>4. HashesPaddedMessage'
      BY <2>1, <3>1, SameBlocksSameHash DEF ShaInvariant
    <3> QED
      BY <3>2, <3>3, <3>4 DEF ShaInvariant
  <2> QED
    BY <2>1, HashWholeKeepsInvariant, FillBufferKeepsInvariant, DigestKeepsInvariant DEF ShaNext
<1>3. ShaInvariant => HashesPaddedMessage
  BY DEF ShaInvariant
<1> QED
  BY <1>1, <1>2, <1>3, PTL DEF ShaSpec

=============================================================================
