-------------------------------- MODULE Boot --------------------------------
(***************************************************************************)
(* How the Web IDE starts: the page that embeds it (packages/web-ide,      *)
(* start and pingWorkbench), the page in the iframe (vscode-bootstrap,     *)
(* main and start), the window channel between them (cross-origin-channel) *)
(* and what the browser keeps for the iframe's origin (ClientStorage).     *)
(*                                                                         *)
(* The embedding window may start the IDE several times, one after another *)
(* and maybe after a ping; attempt i is the i-th in this load of the       *)
(* window.  All use the same workbench origin, and DefaultCrossWindow-     *)
(* Channel ignores a message only if both its source and its origin are    *)
(* wrong, so every listener in the window hears every iframe's messages.   *)
(*                                                                         *)
(* A message is delivered some time after it is posted, in order; what is  *)
(* posted to a document that was navigated away from or removed is lost.   *)
(* A wait may time out at any moment, since the other side may be slow.    *)
(***************************************************************************)
EXTENDS ClientStorage, Integers, Sequences

CONSTANTS
  Configs,      \* the configurations that embedders start with
  MaxPages,     \* bound: documents that begin to load in an iframe
  MaxQueue      \* bound: messages on their way to the window

ASSUME ConfigsAssumption == Configs \subseteq Config

VARIABLES
  begun,     \* documents so far, over all loads of the window
  attempts,  \* the attempts of this load of the window
  frame,     \* the attempt whose iframe is in the document, or 0
  page,      \* the document in that iframe
  toHost,    \* messages to the window
  toPage,    \* messages to the document
  local,     \* localStorage
  db,        \* the databases
  unpurged,  \* history: embedders whose purge has begun and not succeeded
  unsure     \* history: contexts whose extensions the markers do not tell of

window == <<begun, attempts, frame>>
storage == <<local, db, unpurged, unsure>>
vars == <<window, page, toHost, toPage, storage>>

\* An attempt: what its promise waits for, and what its listeners have done.
\* port is where the second end of its auth channel is.
Attempt ==
  [kind : {"ping", "start"}, cfg : Configs,
   pc : {"request", "answered", "running", "failed"},
   disposed : BOOLEAN, reloaded : BOOLEAN, prevent : BOOLEAN, told : BOOLEAN,
   port : {"none", "host", "sent", "page", "gone"}]

Waiting(a) == a.pc \in {"request", "answered"}

NoConfig == [from |-> None]

\* The document, by what main() and start() wait for.
Page ==
  [pc : {"none", "blank", "asking", "purging", "checking", "loading", "porting",
         "cleaning", "up", "dead"},
   cfg : Configs \union {NoConfig}]

\* What a document waits for once it has its configuration.
Configured == {"purging", "checking", "loading", "porting", "cleaning", "up"}

\* What the window answers.
Reply ==
  [key : {"config"}, cfg : Configs] \union [key : {"port", "port-error"}, cfg : {NoConfig}]

PageAt(pc) == [pc |-> pc, cfg |-> NoConfig]

Message(key) == [key |-> key, from |-> frame]

\* What a first start leaves behind, when its workbench has been used.
LeftBy(c) ==
  /\ local = SaveConfigState(RegisterOrigin(EmptyLocal, c), c)
  /\ db = [owners |-> {c.from},
           extensions |-> IF IsMarketplaceEnabled(c) THEN {c.context} ELSE {}]

Init ==
  /\ begun = 0
  /\ attempts = <<>>
  /\ frame = 0
  /\ page = PageAt("none")
  /\ toHost = <<>>
  /\ toPage = <<>>
  /\ \/ local = EmptyLocal /\ db = EmptyDatabases
     \/ \E c \in Configs : LeftBy(c)
  /\ unpurged = {}
  /\ unsure = {}

-----------------------------------------------------------------------------
(* The embedding window. *)

\* The iframe is appended, the channel listens, and the navigation begins.
Begin(kind, c) ==
  /\ begun < MaxPages
  /\ frame = 0
  /\ \A i \in DOMAIN attempts : attempts[i].cfg.from = c.from
  /\ begun' = begun + 1
  /\ attempts' = Append(attempts,
       [kind |-> kind, cfg |-> c, pc |-> "request", disposed |-> FALSE,
        reloaded |-> FALSE, prevent |-> FALSE, told |-> FALSE,
        port |-> IF kind = "start" /\ c.auth = "oauth" THEN "host" ELSE "none"])
  /\ frame' = Len(attempts) + 1
  /\ page' = PageAt("blank")
  /\ toPage' = <<>>
  /\ UNCHANGED <<toHost, storage>>

PingWorkbench(c) == Begin("ping", c)

StartWorkbench(c) == Begin("start", c)

\* The window is left or reloaded, with all that was in it.
WindowGone ==
  /\ attempts' = <<>>
  /\ frame' = 0
  /\ page' = PageAt("none")
  /\ toHost' = <<>>
  /\ toPage' = <<>>
  /\ UNCHANGED <<begun, storage>>

\* The user leaves; or start() finds no valid token and redirects.  With a
\* beforeunload handler the user confirms, or nothing happens.
LeaveWindow == attempts # <<>> /\ WindowGone

RemoveFrame ==
  /\ frame' = 0
  /\ page' = PageAt("none")
  /\ toPage' = <<>>

\* What the port's other end is worth when its document goes.
Orphaned(a) == [a EXCEPT !.port = IF @ \in {"sent", "page"} THEN "gone" ELSE @]

\* dispose() removes the iframe and its own listeners; not the waits, and not
\* the listener that reloads the window.
Dispose ==
  /\ frame # 0
  /\ attempts[frame].kind = "start"
  /\ attempts' = [attempts EXCEPT ![frame] =
       [Orphaned(@) EXCEPT !.disposed = TRUE, !.prevent = FALSE]]
  /\ RemoveFrame
  /\ UNCHANGED <<begun, toHost, storage>>

\* What attempt a makes of a message: bootstrapWorkbench or pingWorkbench, then
\* handleMessages, then the answer to a port request.
AfterWait(a, m) ==
  [a EXCEPT !.pc =
     CASE @ = "request" /\ m.key = "config-request" -> "answered"
       [] @ = "answered" /\ m.key = "error" -> "failed"
       [] @ = "answered" /\ m.key = "ready" /\ a.kind = "start" -> "running"
       [] @ = "answered" /\ m.key = "cors-success" /\ a.kind = "ping" -> "running"
       [] OTHER -> @]

\* Mutant: errors are reported only until the promise is settled.
HandleMessagesOfWaiting(a, m) ==
  IF ~ Waiting(a) THEN a ELSE [a EXCEPT !.told = @ \/ m.key = "error"]

HandleMessages(a, m) ==
  IF a.kind = "ping" \/ a.disposed THEN a
  ELSE [a EXCEPT !.told = @ \/ m.key = "error",
                 !.prevent = CASE m.key = "prevent-unload" -> TRUE
                               [] m.key = "allow-unload" -> FALSE
                               [] OTHER -> @]

\* A port is transferred once; to a removed iframe, it is lost.
SendPort(a, i, m) ==
  [a EXCEPT !.port =
     IF m.key = "port-request" /\ ~ a.disposed /\ @ = "host"
     THEN IF i = frame /\ page.pc # "blank" THEN "sent" ELSE "gone"
     ELSE @]

Hear(i, m) == SendPort(HandleMessages(AfterWait(attempts[i], m), m), i, m)

\* What attempt a posts to its iframe in answer; a second transfer of the port
\* throws and posts nothing.
Replies(a, m) ==
  CASE a.pc = "request" /\ m.key = "config-request" ->
         <<[key |-> "config", cfg |-> a.cfg]>>
    [] m.key = "port-request" /\ a.port = "host" ->
         <<[key |-> "port", cfg |-> NoConfig]>>
    [] m.key = "port-request" /\ a.port = "none" ->
         <<[key |-> "port-error", cfg |-> NoConfig]>>
    [] OTHER -> <<>>

\* After ready a further config request means that the iframe was reloaded, and
\* the window follows; set-href navigates it.
AsksToLeave(a, m) ==
  /\ a.kind = "start"
  /\ \/ m.key = "config-request" /\ a.pc = "running"
     \/ m.key = "set-href" /\ ~ a.disposed

Leaving(m) == \E i \in DOMAIN attempts : AsksToLeave(attempts[i], m)

PingEnds(m) ==
  /\ frame # 0
  /\ attempts[frame].kind = "ping"
  /\ Waiting(attempts[frame])
  /\ ~ Waiting(Hear(frame, m))

HostReceive ==
  /\ toHost # <<>>
  /\ LET m == Head(toHost) IN
       /\ Leaving(m) => \E i \in DOMAIN attempts : attempts[i].prevent
       /\ attempts' = [i \in DOMAIN attempts |-> Hear(i, m)]
       /\ IF PingEnds(m) THEN RemoveFrame
          ELSE /\ toPage' = IF frame = 0 \/ page.pc = "blank" THEN toPage
                            ELSE toPage \o Replies(attempts[frame], m)
               /\ UNCHANGED <<frame, page>>
  /\ toHost' = Tail(toHost)
  /\ UNCHANGED <<begun, storage>>

FollowFrame ==
  /\ toHost # <<>>
  /\ Leaving(Head(toHost))
  /\ WindowGone

\* Mutant: nothing bounds the wait for ready.
HostTimeoutOfRequest(i) ==
  /\ attempts[i].pc = "request"
  /\ attempts' = [attempts EXCEPT ![i].pc = "failed"]
  /\ IF frame = i /\ attempts[i].kind = "ping" THEN RemoveFrame
     ELSE UNCHANGED <<frame, page, toPage>>
  /\ UNCHANGED <<begun, toHost, storage>>

\* A wait of 30 seconds (2.5 for the ping) ends; the ping removes its iframe.
HostTimeout(i) ==
  /\ Waiting(attempts[i])
  /\ attempts' = [attempts EXCEPT ![i].pc = "failed"]
  /\ IF frame = i /\ attempts[i].kind = "ping" THEN RemoveFrame
     ELSE UNCHANGED <<frame, page, toPage>>
  /\ UNCHANGED <<begun, toHost, storage>>

-----------------------------------------------------------------------------
(* The document in the iframe. *)

Post(key) == toHost' = Append(toHost, Message(key))

\* main() posts its request and waits.
RequestConfig ==
  /\ page.pc = "blank"
  /\ page' = PageAt("asking")
  /\ Post("config-request")
  /\ UNCHANGED <<window, toPage, storage>>

\* The next message, if the document waits for it.
Takes(key) == toPage # <<>> /\ Head(toPage).key = key /\ toPage' = Tail(toPage)

\* Mutant: the document listens some time after it has asked.
MissAnyMessage ==
  /\ toPage # <<>>
  /\ toPage' = Tail(toPage)
  /\ UNCHANGED <<window, page, toHost, storage>>

MissMessage ==
  /\ toPage # <<>>
  /\ ~ (page.pc = "asking" /\ Head(toPage).key = "config")
  /\ ~ (page.pc = "porting" /\ Head(toPage).key = "port")
  /\ toPage' = Tail(toPage)
  /\ attempts' = IF Head(toPage).key = "port"
                 THEN [attempts EXCEPT ![frame] = Orphaned(@)] ELSE attempts
  /\ UNCHANGED <<begun, frame, page, toHost, storage>>

GoOn(pc) == page' = [page EXCEPT !.pc = pc]

\* handleEmbedderChange, up to the deletion of the databases.
HandleEmbedderChange ==
  /\ page.pc = "asking"
  /\ Takes("config")
  /\ LET c == Head(toPage).cfg IN
       IF EmbedderChanged(local, c)
       THEN /\ page' = [pc |-> "purging", cfg |-> c]
            /\ local' = EmptyLocal
            /\ unpurged' = unpurged \union db.owners
       ELSE /\ page' = [pc |-> "checking", cfg |-> c]
            /\ local' = RegisterOrigin(local, c)
            /\ UNCHANGED unpurged
  /\ UNCHANGED <<window, toHost, db, unsure>>

\* main() catches, and posts an error.
Die ==
  /\ GoOn("dead")
  /\ Post("error")

\* No localStorage, or no room in it.
RefuseStorage ==
  /\ page.pc = "asking"
  /\ Takes("config")
  /\ page' = [pc |-> "dead", cfg |-> Head(toPage).cfg]
  /\ Post("error")
  /\ UNCHANGED <<window, storage>>

\* Mutant: the databases are not waited for.
PurgeLocalOnly ==
  /\ page.pc = "purging"
  /\ local' = RegisterOrigin(local, page.cfg)
  /\ unpurged' = {}
  /\ GoOn("checking")
  /\ UNCHANGED <<db, window, toHost, toPage, unsure>>

PurgeClientStorage ==
  /\ page.pc = "purging"
  /\ db' = EmptyDatabases
  /\ local' = RegisterOrigin(local, page.cfg)
  /\ unpurged' = {}
  /\ GoOn("checking")
  /\ UNCHANGED <<window, toHost, toPage, unsure>>

PurgeFails ==
  /\ page.pc = "purging"
  /\ db' \in DeletedDatabases(db)
  /\ Die
  /\ UNCHANGED <<window, toPage, local, unpurged, unsure>>

CheckCors ==
  /\ page.pc = "checking"
  /\ GoOn("loading")
  /\ Post("cors-success")
  /\ UNCHANGED <<window, toPage, storage>>

\* Mutant: the request for the port is not awaited.
LoadScriptsUnawaited ==
  /\ page.pc = "loading"
  /\ GoOn("cleaning")
  /\ Post("port-request")
  /\ UNCHANGED <<window, toPage, storage>>

\* The scripts are loaded, and start() asks for the auth port if it needs it.
LoadScripts ==
  /\ page.pc = "loading"
  /\ IF page.cfg.auth = "oauth" THEN GoOn("porting") /\ Post("port-request")
     ELSE GoOn("cleaning") /\ UNCHANGED toHost
  /\ UNCHANGED <<window, toPage, storage>>

ReceivePort ==
  /\ page.pc = "porting"
  /\ Takes("port")
  /\ GoOn("cleaning")
  /\ attempts' = [attempts EXCEPT ![frame].port = "page"]
  /\ UNCHANGED <<begun, frame, toHost, storage>>

\* A request fails, or a wait of 30 seconds ends.
PageFails ==
  /\ page.pc \in {"asking", "checking", "loading", "porting"}
  /\ Die
  /\ UNCHANGED <<window, toPage, storage>>

CreateWorkbench ==
  /\ GoOn("up")
  /\ Post("ready")
  /\ UNCHANGED <<window, toPage, unpurged>>

\* cleanWebIdeExtensions keeps what was installed.
KeepExtensions ==
  /\ page.pc = "cleaning"
  /\ ~ ShouldClear(local, page.cfg)
  /\ local' = SaveConfigState(local, page.cfg)
  /\ unsure' = IF NoContext \in {local.context, page.cfg.context}
               THEN unsure \union db.extensions ELSE unsure
  /\ UNCHANGED db
  /\ CreateWorkbench

ClearExtensions ==
  /\ page.pc = "cleaning"
  /\ ShouldClear(local, page.cfg)
  /\ db' = [db EXCEPT !.extensions = {}]
  /\ local' = SaveConfigState(local, page.cfg)
  /\ UNCHANGED unsure
  /\ CreateWorkbench

\* The removal failed; that is fatal only if the extension host shares the
\* origin.
ClearFails ==
  /\ page.pc = "cleaning"
  /\ ShouldClear(local, page.cfg)
  /\ db' \in RemovedExtensions(db)
  /\ IF page.cfg.crossOriginExtensionHost
     THEN /\ local' = SaveConfigState(local, page.cfg)
          /\ unsure' = unsure \union db.extensions
          /\ CreateWorkbench
     ELSE /\ Die
          /\ UNCHANGED <<window, toPage, local, unpurged, unsure>>

\* There is no room for the markers, which is only logged.
SaveFails ==
  /\ page.pc = "cleaning"
  /\ db' = IF ShouldClear(local, page.cfg) THEN [db EXCEPT !.extensions = {}] ELSE db
  /\ unsure' = unsure \union db'.extensions \union {page.cfg.context}
  /\ UNCHANGED local
  /\ CreateWorkbench

-----------------------------------------------------------------------------
(* The workbench, once it is there. *)

\* It keeps data of its embedder, and may install extensions.
UseWorkbench ==
  /\ page.pc = "up"
  /\ db' = [owners |-> db.owners \union {page.cfg.from},
            extensions |-> IF IsMarketplaceEnabled(page.cfg)
                           THEN db.extensions \union {page.cfg.context}
                           ELSE db.extensions]
  /\ UNCHANGED <<window, page, toHost, toPage, local, unpurged, unsure>>

\* What the extension sends through the mediator's port; of its messages, those
\* that change something in the window.
ExtensionMessage == {"prevent-unload", "allow-unload", "set-href"}

ExtensionPosts(key) ==
  /\ page.pc = "up"
  /\ Len(toHost) < MaxQueue
  /\ Post(key)
  /\ UNCHANGED <<window, page, toPage, storage>>

\* The user reloads the iframe; the port and what was posted to it are lost.
ReloadPage ==
  /\ page.pc \notin {"none", "blank"}
  /\ begun < MaxPages
  /\ begun' = begun + 1
  /\ page' = PageAt("blank")
  /\ toPage' = <<>>
  /\ attempts' = [attempts EXCEPT ![frame] = [Orphaned(@) EXCEPT !.reloaded = TRUE]]
  /\ UNCHANGED <<frame, toHost, storage>>

PageStep ==
  \/ RequestConfig \/ HandleEmbedderChange \/ RefuseStorage \/ MissMessage
  \/ PurgeClientStorage \/ PurgeFails \/ CheckCors \/ LoadScripts
  \/ ReceivePort \/ PageFails
  \/ KeepExtensions \/ ClearExtensions \/ ClearFails \/ SaveFails

Next ==
  \/ \E c \in Configs : PingWorkbench(c) \/ StartWorkbench(c)
  \/ LeaveWindow \/ Dispose \/ HostReceive \/ FollowFrame
  \/ \E i \in DOMAIN attempts : HostTimeout(i)
  \/ PageStep
  \/ UseWorkbench \/ ReloadPage
  \/ \E key \in ExtensionMessage : ExtensionPosts(key)

\* Messages arrive, timers fire, and a document that has begun goes on.
Fairness ==
  /\ WF_vars(HostReceive \/ FollowFrame)
  /\ WF_vars(PageStep)
  /\ \A i \in 1 .. MaxPages : WF_vars(i \in DOMAIN attempts /\ HostTimeout(i))

Spec == Init /\ [][Next]_vars /\ Fairness

-----------------------------------------------------------------------------
(* Properties. *)

\* The types; a document has a configuration once it has been answered, and an
\* iframe has a document.
BootTypeOK ==
  /\ attempts \in Seq(Attempt)
  /\ frame \in 0 .. Len(attempts)
  /\ page \in Page
  /\ page.pc \in Configured => page.cfg \in Configs
  /\ page.pc = "none" <=> frame = 0
  /\ toPage \in Seq(Reply)
  /\ local \in Local
  /\ db \in Databases
  /\ unpurged \subseteq Embedder
  /\ unsure \subseteq Context \union {NoContext}

\* The first start or ping in a window does not waste its one answer: while its
\* document asks for the configuration, the answer has not been given or is on
\* its way; unless the iframe was reloaded (index.ts:61-68).
AnswerIsNotWasted ==
  /\ frame = 1
  /\ ~ attempts[1].reloaded
  /\ page.pc = "asking"
  /\ attempts[1].pc = "answered"
  => \E k \in DOMAIN toPage : toPage[k].key = "config"

\* A workbench that signs in by OAuth is never created without the live end of
\* its own start's auth channel, whatever requests and answers crossed
\* (start.ts:202-206, DefaultCrossWindowChannel.ts:40-54).
WorkbenchHasItsPort ==
  page.pc \in {"cleaning", "up"} /\ page.cfg.auth = "oauth" =>
    attempts[frame].port = "page"

\* A workbench finds no other embedder's data in the databases, unless a purge of
\* that data was begun and not finished (handleEmbedderChange.ts:19-41).
DataIsOwnOrUnpurged ==
  page.pc = "up" => db.owners \subseteq {page.cfg.from} \union unpurged

\* A workbench lists no extension of another marketplace context, and none where
\* the marketplace is off, but for contexts the markers could not tell of
\* (cleanExtensions.ts:75-101).
ExtensionsBelongToContext ==
  page.pc = "up" =>
    db.extensions \subseteq
      unsure \union (IF IsMarketplaceEnabled(page.cfg) THEN {page.cfg.context} ELSE {})

\* ready is always settled: by ready, by an error, or by a timeout
\* (index.ts:57-90, 190-237).
StartsSettle ==
  \A i \in 1 .. MaxPages :
    i \in DOMAIN attempts ~> (i \in DOMAIN attempts => ~ Waiting(attempts[i]))

\* The embedder hears of every document that gave up, also when it failed after
\* the embedder's own wait had timed out, or was never answered (index.ts:31-35,
\* main.ts:128-133).
FailureIsTold ==
  page.pc = "dead" ~>
    \/ page.pc # "dead"
    \/ attempts[frame].kind = "ping"
    \/ attempts[frame].told

=============================================================================
