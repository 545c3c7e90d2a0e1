------------------------------- MODULE OAuth -------------------------------
(***************************************************************************)
(* The OAuth client of the Web IDE in several browser tabs                 *)
(* (packages/oauth-client).  The tabs of one browser share local storage:  *)
(* one token and one handshake.  Each tab keeps the token in memory,       *)
(* re-reads it when another tab broadcasts a change, and arms a timer that *)
(* refreshes it shortly before it expires (setupAutoRefresh.ts).           *)
(*                                                                         *)
(* A promise that only waits for local storage or for the cache's mutex    *)
(* settles before the tab handles its next event, so what a tab does up to *)
(* its next network request is one step.  The exception is storing a       *)
(* token: another tab may write between this tab's write to storage and    *)
(* its write to its cache, so those are two steps, and the tab is busy in  *)
(* between (the mutex).  No minute passes while a tab is busy.             *)
(***************************************************************************)
EXTENDS Integers

CONSTANTS
  Tab,
  Owner,          \* user names
  AccessToken,
  Lifetime,       \* the lifetimes, in minutes, the server may give a token
  Buffer,         \* BUFFER_MS: a token this close to its expiry counts as expired
  RefreshBuffer,  \* REFRESH_DELAY_BUFFER_MS
  TimerRange,     \* setTimeout's delay is an integer in -TimerRange .. TimerRange - 1
  ProtectRefreshToken,  \* oauthConfig.protectRefreshToken
  Slot,           \* bound: the getToken calls that wait for the network at once
  MaxTime,        \* bound: the clock stops here
  NoToken, NoTimer, NoHandshake, Idle

ASSUME BufferAssumption ==
  /\ Buffer \in Nat /\ RefreshBuffer \in Nat
  /\ RefreshBuffer < Buffer
  /\ TimerRange \in Nat \ {0}

ASSUME LifetimeAssumption == Lifetime \subseteq Nat /\ MaxTime \in Nat

ASSUME ProtectAssumption == ProtectRefreshToken \in BOOLEAN

Token == [accessToken : AccessToken, expiresAt : Nat, refreshToken : BOOLEAN, owner : Owner]

\* A getToken or handleCallback call that waits: for the authorization of a
\* hidden iframe, for the server, for the tab to handle the answer, or for the
\* write of the cache.
Call ==
  [tab : Tab, why : {"setup", "timer", "request", "callback"},
   stage : {"frame", "sent", "answered", "stored"}, token : Token \union {NoToken}]

ASSUME NoneAssumption ==
  NoToken \notin Token /\ NoTimer \notin Int /\ NoHandshake \notin Tab /\ Idle \notin Call

VARIABLES
  now,        \* Date.now(), in minutes
  storage,    \* the token in local storage
  handshake,  \* the tab whose handshake state is in local storage
  owner,      \* config.username of each tab
  page,       \* what each tab shows
  cache,      \* #cachedValue
  mail,       \* broadcasts that the tab has not handled yet
  armed,      \* refreshTimeout: when the timer fires
  leaked,     \* when the timers fire that no variable holds any more
  failed,     \* history: tabs whose last refresh or setup was rejected
  calls

vars == <<now, storage, handshake, owner, page, cache, mail, armed, leaked, failed, calls>>

timers == <<armed, leaked, failed>>

Page == {"closed", "checked", "running", "disposed", "authorize", "callback", "stuck"}

\* Pages in which an OAuth client lives and hears broadcasts.
Alive == {"running", "disposed", "callback", "stuck"}

\* A call whose answer has come has a token.
HaveTokens(some) ==
  \A k \in Slot : some[k] # Idle /\ some[k].stage \in {"answered", "stored"} =>
    some[k].token \in Token

TypeOK ==
  /\ now \in Nat
  /\ storage \in Token \union {NoToken}
  /\ handshake \in Tab \union {NoHandshake}
  /\ owner \in [Tab -> Owner]
  /\ page \in [Tab -> Page]
  /\ cache \in [Tab -> Token \union {NoToken}]
  /\ mail \in [Tab -> Nat]
  /\ armed \in [Tab -> Int \union {NoTimer}]
  /\ leaked \in [Tab -> SUBSET Int]
  /\ failed \subseteq Tab
  /\ calls \in [Slot -> Call \union {Idle}]
  /\ HaveTokens(calls)

\* The token an earlier session left behind has any owner and may have expired.
Init ==
  /\ now = 0
  /\ storage \in {NoToken} \union
       [accessToken : AccessToken, expiresAt : {Buffer},
        refreshToken : {~ProtectRefreshToken}, owner : Owner]
  /\ handshake = NoHandshake
  /\ owner \in [Tab -> Owner]
  /\ page = [t \in Tab |-> "closed"]
  /\ cache = [t \in Tab |-> NoToken]
  /\ mail = [t \in Tab |-> 0]
  /\ armed = [t \in Tab |-> NoTimer]
  /\ leaked = [t \in Tab |-> {}]
  /\ failed = {}
  /\ calls = [k \in Slot |-> Idle]

-----------------------------------------------------------------------------
(* Tokens, timers and calls. *)

\* Mutant: the buffer is forgotten.
isExpiredTokenAtExpiry(token) == token.expiresAt < now

isExpiredToken(token) == token.expiresAt - Buffer < now

isValidToken(token, t) == ~isExpiredToken(token) /\ token.owner = owner[t]

\* What OAuthLocalStorage keeps of a token: not the refresh token, if excluded.
Stored(token) ==
  [token EXCEPT !.refreshToken = token.refreshToken /\ ~ProtectRefreshToken]

\* getValue(): the cached token, else the stored one.
Value(t) == IF cache[t] = NoToken THEN storage ELSE cache[t]

\* When setTimeout fires a refresh of the token: the delay is converted to a
\* 32-bit integer, and a negative one means now.
FireTime(token) ==
  LET delay == token.expiresAt - now - RefreshBuffer
      converted == ((delay + TimerRange) % (2 * TimerRange)) - TimerRange
  IN  now + IF converted < 0 THEN 0 ELSE converted

Of(k, t) == calls[k] # Idle /\ calls[k].tab = t

\* The call has written storage and not yet the cache.
Storing(k) == calls[k] # Idle /\ calls[k].stage = "stored"

\* The tab holds the cache's mutex.
Busy(t) == \E k \in Slot : Storing(k) /\ calls[k].tab = t

\* #refreshToken: with the refresh token, or else by a hidden iframe.
Refresh(t, why, token, others) ==
  \E k \in Slot :
    /\ others[k] = Idle
    /\ calls' = [others EXCEPT ![k] =
         [tab |-> t, why |-> why, token |-> NoToken,
          stage |-> IF token.refreshToken THEN "sent" ELSE "frame"]]

\* setupRefreshForCurrentToken, up to its first network request, when getValue
\* answers with value; `others` are the calls that are left.
Setup(t, value, others) ==
  \/ /\ value = NoToken
     /\ armed' = [armed EXCEPT ![t] = NoTimer]
     /\ failed' = failed \union {t}
     /\ calls' = others
  \/ /\ value # NoToken /\ isValidToken(value, t)
     /\ armed' = [armed EXCEPT ![t] = FireTime(value)]
     /\ failed' = failed \ {t}
     /\ calls' = others
  \/ /\ value # NoToken /\ ~isValidToken(value, t)
     /\ armed' = [armed EXCEPT ![t] = NoTimer]
     /\ Refresh(t, "setup", value, others)
     /\ UNCHANGED failed

\* Mutant: the event reaches nobody.
TokenChangedUnheard(t, value, others) ==
  calls' = others /\ UNCHANGED <<armed, failed>>

\* Mutant: the listener is not taken away when the page is disposed.
TokenChangedAnyway(t, value, others) ==
  \/ /\ page[t] \in {"running", "disposed"}
     /\ Setup(t, value, others)
  \/ /\ page[t] \notin {"running", "disposed"}
     /\ calls' = others
     /\ UNCHANGED <<armed, failed>>

\* The "oauth_change" event: a running page sets its refresh up again.
TokenChanged(t, value, others) ==
  \/ /\ page[t] = "running"
     /\ Setup(t, value, others)
  \/ /\ page[t] # "running"
     /\ calls' = others
     /\ UNCHANGED <<armed, failed>>

\* getToken, up to its first network request.
GetToken(t, why) ==
  /\ cache' = [cache EXCEPT ![t] = Value(t)]
  /\ \/ /\ Value(t) = NoToken
        /\ UNCHANGED calls
     \/ /\ Value(t) # NoToken /\ isValidToken(Value(t), t)
        /\ UNCHANGED calls
     \/ /\ Value(t) # NoToken /\ ~isValidToken(Value(t), t)
        /\ Refresh(t, why, Value(t), calls)

\* The call fails: a callback page stays where it is, a refresh or a setup is
\* forgotten, a request gets no answer.
Rejected(ks) ==
  /\ page' = [t \in Tab |->
       IF \E k \in ks : calls[k].tab = t /\ calls[k].why = "callback" THEN "stuck" ELSE page[t]]
  /\ failed' = failed \union
       {calls[k].tab : k \in {j \in ks : calls[j].why \in {"setup", "timer"}}}

-----------------------------------------------------------------------------
(* Pages. *)

\* start(): checkOAuthToken looks at the stored token, and goes to the
\* authorization page if it will not do.
Open(t) ==
  /\ page[t] = "closed"
  /\ IF storage # NoToken /\ isValidToken(storage, t)
     THEN page' = [page EXCEPT ![t] = "checked"] /\ UNCHANGED handshake
     ELSE page' = [page EXCEPT ![t] = "authorize"] /\ handshake' = t
  /\ UNCHANGED <<now, storage, owner, cache, mail, timers, calls>>

\* startAnyConfig: a client of its own, and its AuthPortChannelController,
\* whose constructor sets up the refresh.
Start(t) ==
  /\ page[t] = "checked"
  /\ page' = [page EXCEPT ![t] = "running"]
  /\ cache' = [cache EXCEPT ![t] = storage]
  /\ Setup(t, storage, calls)
  /\ UNCHANGED <<now, storage, handshake, owner, mail, leaked>>

\* oauthCallback: the code is redeemed only with the handshake it belongs to.
Callback(t) ==
  /\ page[t] = "authorize"
  /\ IF handshake = t
     THEN /\ page' = [page EXCEPT ![t] = "callback"]
          /\ \E k \in Slot :
               /\ calls[k] = Idle
               /\ calls' = [calls EXCEPT ![k] =
                    [tab |-> t, why |-> "callback", token |-> NoToken, stage |-> "sent"]]
     ELSE page' = [page EXCEPT ![t] = "stuck"] /\ UNCHANGED calls
  /\ UNCHANGED <<now, storage, handshake, owner, cache, mail, timers>>

\* The extension asks for a token (authentication-token-request).
RequestToken(t) ==
  /\ page[t] = "running" /\ ~Busy(t)
  /\ GetToken(t, "request")
  /\ UNCHANGED <<now, storage, handshake, owner, page, mail, timers>>

\* WebIde.dispose: the listeners go, and the timer refreshTimeout holds.
Dispose(t) ==
  /\ page[t] = "running" /\ ~Busy(t)
  /\ page' = [page EXCEPT ![t] = "disposed"]
  /\ armed' = [armed EXCEPT ![t] = NoTimer]
  /\ UNCHANGED <<now, storage, handshake, owner, cache, mail, leaked, failed, calls>>

\* The user leaves the page or reloads it: everything in memory is gone.
Close(t) ==
  /\ page[t] # "closed" /\ ~Busy(t)
  /\ page' = [page EXCEPT ![t] = "closed"]
  /\ cache' = [cache EXCEPT ![t] = NoToken]
  /\ mail' = [mail EXCEPT ![t] = 0]
  /\ armed' = [armed EXCEPT ![t] = NoTimer]
  /\ leaked' = [leaked EXCEPT ![t] = {}]
  /\ failed' = failed \ {t}
  /\ calls' = [k \in Slot |-> IF Of(k, t) THEN Idle ELSE calls[k]]
  /\ UNCHANGED <<now, storage, handshake, owner>>

-----------------------------------------------------------------------------
(* The network, the other tabs and the clock. *)

\* A hidden iframe reports that it is authorized.  Every iframe grant of the
\* page takes the message for its own; the ones whose iframe is not there yet
\* read no code from it and fail.
FrameReady(k) ==
  LET t == calls[k].tab
      waiting == {j \in Slot : Of(j, t) /\ calls[j].stage = "frame"}
  IN  /\ calls[k] # Idle /\ calls[k].stage = "frame"
      /\ \E early \in SUBSET (waiting \ {k}) :
           /\ calls' = [j \in Slot |->
                IF j \in early THEN Idle
                ELSE IF j \in waiting THEN [calls[j] EXCEPT !.stage = "sent"]
                ELSE calls[j]]
           /\ Rejected(early)
      /\ UNCHANGED <<now, storage, handshake, owner, cache, mail, armed, leaked>>

\* The OAuth server grants a token (external).
Answer(k) ==
  /\ calls[k] # Idle /\ calls[k].stage = "sent"
  /\ \E accessToken \in AccessToken, lifetime \in Lifetime :
       calls' = [calls EXCEPT ![k].stage = "answered", ![k].token =
         [accessToken |-> accessToken, expiresAt |-> now + lifetime,
          refreshToken |-> TRUE, owner |-> owner[calls[k].tab]]]
  /\ UNCHANGED <<now, storage, handshake, owner, page, cache, mail, timers>>

\* Mutant: response.ok is not looked at.
RefuseIgnored(k) ==
  /\ calls[k] # Idle /\ calls[k].stage = "sent"
  /\ calls' = [calls EXCEPT ![k].stage = "answered"]
  /\ UNCHANGED <<now, storage, handshake, owner, page, cache, mail, timers>>

\* The server refuses: a refresh token that another tab has used, a session
\* that ended, or no network.
Refuse(k) ==
  /\ calls[k] # Idle /\ calls[k].stage = "sent"
  /\ calls' = [calls EXCEPT ![k] = Idle]
  /\ Rejected({k})
  /\ UNCHANGED <<now, storage, handshake, owner, cache, mail, armed, leaked>>

\* Mutant: a token is stored however short it lasts.
ReceiveAny(k) ==
  /\ calls[k] # Idle /\ calls[k].stage = "answered" /\ ~Busy(calls[k].tab)
  /\ storage' = Stored(calls[k].token)
  /\ calls' = [calls EXCEPT ![k].stage = "stored"]
  /\ UNCHANGED <<now, handshake, owner, page, cache, mail, timers>>

\* #requestAndStoreToken: a token that lasts is written to storage.
Receive(k) ==
  /\ calls[k] # Idle /\ calls[k].stage = "answered" /\ ~Busy(calls[k].tab)
  /\ \/ /\ isExpiredToken(calls[k].token)
        /\ calls' = [calls EXCEPT ![k] = Idle]
        /\ Rejected({k})
        /\ UNCHANGED storage
     \/ /\ ~isExpiredToken(calls[k].token)
        /\ storage' = Stored(calls[k].token)
        /\ calls' = [calls EXCEPT ![k].stage = "stored"]
        /\ UNCHANGED <<page, failed>>
  /\ UNCHANGED <<now, handshake, owner, cache, mail, armed, leaked>>

\* ... and to the cache; the page's listeners hear of it, the other tabs are
\* told, and the caller goes on: a setup arms its timer over the one the event
\* has armed, a callback removes the handshake and returns to the Web IDE.
Finish(k) ==
  LET t == calls[k].tab
      token == calls[k].token
      others == [calls EXCEPT ![k] = Idle]
  IN  /\ Storing(k)
      /\ \/ /\ calls[k].why # "callback"
            /\ cache' = [cache EXCEPT ![t] = token]
            /\ UNCHANGED <<handshake, page>>
         \/ /\ calls[k].why = "callback"
            /\ cache' = [cache EXCEPT ![t] = NoToken]
            /\ handshake' = NoHandshake
            /\ page' = [page EXCEPT ![t] = "closed"]
      /\ mail' = [u \in Tab |-> IF page'[u] \notin Alive THEN 0
                                ELSE IF u = t THEN mail[u] ELSE mail[u] + 1]
      /\ \/ /\ calls[k].why # "setup"
            /\ TokenChanged(t, token, others)
            /\ UNCHANGED leaked
         \/ /\ calls[k].why = "setup" /\ page[t] = "running"
            /\ TokenChanged(t, token, others)
            /\ leaked' = [leaked EXCEPT ![t] = @ \union {FireTime(token)}]
         \/ /\ calls[k].why = "setup" /\ page[t] # "running"
            /\ armed' = [armed EXCEPT ![t] = FireTime(token)]
            /\ leaked' = [leaked EXCEPT ![t] = @ \union ({armed[t]} \ {NoTimer})]
            /\ calls' = others
            /\ UNCHANGED failed
      /\ UNCHANGED <<now, storage, owner>>

\* Mutant: getValue without force.
DeliverUnforced(t) ==
  /\ mail[t] > 0 /\ ~Busy(t)
  /\ mail' = [mail EXCEPT ![t] = @ - 1]
  /\ cache' = [cache EXCEPT ![t] = Value(t)]
  /\ TokenChanged(t, Value(t), calls)
  /\ UNCHANGED <<now, storage, handshake, owner, page, leaked>>

\* The tab handles a broadcast: getValue(true), and the event.
Deliver(t) ==
  /\ mail[t] > 0 /\ ~Busy(t)
  /\ mail' = [mail EXCEPT ![t] = @ - 1]
  /\ cache' = [cache EXCEPT ![t] = storage]
  /\ TokenChanged(t, storage, calls)
  /\ UNCHANGED <<now, storage, handshake, owner, page, leaked>>

FireTimer(t) ==
  /\ armed[t] # NoTimer /\ armed[t] <= now
  /\ armed' = [armed EXCEPT ![t] = NoTimer]
  /\ failed' = IF Value(t) = NoToken THEN failed \union {t} ELSE failed
  /\ GetToken(t, "timer")
  /\ UNCHANGED <<now, storage, handshake, owner, page, mail, leaked>>

\* A timer that no variable holds fires.  Several due at one minute are one.
FireLeaked(t) ==
  /\ \E due \in leaked[t] :
       due <= now /\ leaked' = [leaked EXCEPT ![t] = @ \ {due}]
  /\ GetToken(t, "timer")
  /\ UNCHANGED <<now, storage, handshake, owner, page, mail, armed, failed>>

\* The callback of setTimeout runs between two other events of the tab.
TimerFires(t) ==
  /\ ~Busy(t)
  /\ FireTimer(t) \/ FireLeaked(t)

Tick ==
  /\ now < MaxTime /\ \A t \in Tab : ~Busy(t)
  /\ now' = now + 1
  /\ UNCHANGED <<storage, handshake, owner, page, cache, mail, timers, calls>>

Next ==
  \/ \E t \in Tab :
       \/ Open(t) \/ Start(t) \/ Callback(t) \/ RequestToken(t) \/ Dispose(t) \/ Close(t)
       \/ Deliver(t) \/ TimerFires(t)
  \/ \E k \in Slot : FrameReady(k) \/ Answer(k) \/ Refuse(k) \/ Receive(k) \/ Finish(k)
  \/ Tick

Spec == Init /\ [][Next]_vars

-----------------------------------------------------------------------------
(* Properties. *)

\* Once no tab is storing a token and a tab has handled its broadcasts, what
\* it holds in memory is what is in storage, whatever the order in which the
\* tabs stored theirs (StorageValueCacheBroadcaster.ts:18-33).
CachesConverge ==
  (\A t \in Tab : ~Busy(t)) =>
    \A t \in Tab : cache[t] # NoToken /\ mail[t] = 0 => Stored(cache[t]) = storage

\* The setups of a page's refresh that wait for a token, and all its timers.
Setups(t) == {k \in Slot : Of(k, t) /\ calls[k].why = "setup"}

Timers(t) == leaked[t] \union ({armed[t]} \ {NoTimer})

\* What a disposed page has left comes to rest, whatever the other tabs do: no setup
\* begins, and only one that waited for its token still arms a timer, as it ends
\* (setupAutoRefresh.ts:14-36).
DisposedComesToRest ==
  [][\A t \in Tab : page[t] = "disposed" /\ page'[t] = "disposed" =>
       /\ Setups(t)' \subseteq Setups(t)
       /\ Timers(t)' \subseteq Timers(t) \/ Setups(t)' # Setups(t)]_vars

\* When disposed, it "does not refresh when expiresAt time has elapsed"
\* (setupAutoRefresh.test.ts:106): no timer of a disposed page fires.
DisposedDoesNotRefresh ==
  [][\A t \in Tab : page[t] = "disposed" => ~ TimerFires(t)]_vars

\* A running tab has a timer, or is refreshing, or its last refresh was
\* rejected: the refreshes never just stop (setupAutoRefresh.ts:10-25).
RefreshIsPlanned ==
  \A t \in Tab : page[t] = "running" =>
    \/ armed[t] # NoTimer \/ t \in failed
    \/ \E k \in Slot : Of(k, t) /\ calls[k].why \in {"setup", "timer"}

\* When the timer of a running tab fires, a refresh is sent: "we are
\* guaranteed to refresh" (setupAutoRefresh.ts:4).
TimerGuaranteesRefresh ==
  [][\A t \in Tab : page[t] = "running" /\ FireTimer(t) => calls' # calls]_vars

\* Tabs of one user stop replacing each other's tokens: a token is only
\* accepted when it lasts longer than the buffer (OAuthClient.ts:214-216), so
\* refreshes do not follow each other without end while the clock stands still.
StorageSettles ==
  (\A t, u \in Tab : owner[t] = owner[u]) => <>[][FALSE]_storage

=============================================================================
