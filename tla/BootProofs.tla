----------------------------- MODULE BootProofs -----------------------------
(***************************************************************************)
(* Proofs about the start of the Web IDE, for any embedders, contexts and  *)
(* configurations, and any number of starts, documents and messages.       *)
(***************************************************************************)
EXTENDS Boot, TLAPS

\* Data whose owner the markers do not record is data whose purge has begun.
OwnersAreMarked ==
  /\ page.pc \in Configured \ {"purging"} => local.origin = page.cfg.from
  /\ db.owners \subseteq unpurged \union (IF local.origin = None THEN {} ELSE {local.origin})

\* A recorded context vouches for the listed extensions; and a workbench with a
\* marketplace is one that the markers tell of, or that they never will.
ExtensionsAreMarked ==
  /\ local.context # NoContext =>
       db.extensions \subseteq unsure \union (IF local.marketplace THEN {local.context} ELSE {})
  /\ page.pc = "up" /\ IsMarketplaceEnabled(page.cfg) /\ local.context # NoContext =>
       \/ page.cfg.context \in unsure
       \/ local.marketplace /\ local.context = page.cfg.context

\* A port is on its way at most once, to the document of a start that is not
\* disposed of.
PortIsSentOnce ==
  /\ frame = 0 => toPage = <<>>
  /\ frame # 0 => ~ attempts[frame].disposed
  /\ \A k \in DOMAIN toPage : toPage[k].key = "port" => attempts[frame].port = "sent"
  /\ \A j, k \in DOMAIN toPage : toPage[j].key = "port" /\ toPage[k].key = "port" => j = k

-----------------------------------------------------------------------------
(* Types. *)

\* An attempt stays one, whatever it hears.
LEMMA HearTyping ==
  ASSUME NEW i \in DOMAIN attempts, attempts[i] \in Attempt, NEW m
  PROVE  Hear(i, m) \in Attempt
<1> DEFINE a == attempts[i]
           b == AfterWait(a, m)
           c == HandleMessages(b, m)
<1>1. b \in Attempt
  BY DEF AfterWait, Attempt
<1> HIDE DEF b
<1>2. (m.key = "error") \in BOOLEAN
  OBVIOUS
<1>3. c \in Attempt
  BY <1>1, <1>2 DEF HandleMessages, Attempt
<1> HIDE DEF c
<1>4. SendPort(c, i, m) \in Attempt
  BY <1>3 DEF SendPort, Attempt
<1> QED
  BY <1>4 DEF Hear, b, c

LEMMA RepliesTyping ==
  ASSUME NEW a \in Attempt, NEW m
  PROVE  Replies(a, m) \in Seq(Reply)
<1>1. [key |-> "config", cfg |-> a.cfg] \in Reply
  BY DEF Attempt, Reply
<1>2. [key |-> "port", cfg |-> NoConfig] \in Reply /\ [key |-> "port-error", cfg |-> NoConfig] \in Reply
  BY DEF Reply
<1> QED
  BY <1>1, <1>2 DEF Replies

LEMMA OrphanedTyping ==
  ASSUME NEW a \in Attempt
  PROVE  /\ Orphaned(a) \in Attempt
         /\ [Orphaned(a) EXCEPT !.reloaded = TRUE] \in Attempt
         /\ [Orphaned(a) EXCEPT !.disposed = TRUE, !.prevent = FALSE] \in Attempt
BY DEF Orphaned, Attempt

LEMMA ConfigTyping ==
  ASSUME NEW c \in Configs
  PROVE  /\ c.from \in Embedder /\ c.from # None
         /\ c.context \in Context \union {NoContext}
         /\ IsMarketplaceEnabled(c) \in BOOLEAN
BY ConfigsAssumption, NoneAssumption DEF Config, IsMarketplaceEnabled

\* A step of the window that leaves the storage alone.
WindowStep ==
  \/ \E c \in Configs : PingWorkbench(c) \/ StartWorkbench(c)
  \/ LeaveWindow \/ Dispose \/ HostReceive \/ FollowFrame
  \/ \E i \in DOMAIN attempts : HostTimeout(i)

\* A step of the document that leaves the storage alone.
DocumentStep ==
  \/ RequestConfig \/ RefuseStorage \/ MissMessage \/ CheckCors \/ LoadScripts
  \/ ReceivePort \/ PageFails \/ ReloadPage
  \/ \E key \in ExtensionMessage : ExtensionPosts(key)

LEMMA WindowTyping == BootTypeOK /\ WindowStep => BootTypeOK'
<1> SUFFICES ASSUME BootTypeOK, WindowStep PROVE BootTypeOK'
  OBVIOUS
<1> USE DEF BootTypeOK
<1>1. ASSUME NEW kind \in {"ping", "start"}, NEW c \in Configs, Begin(kind, c) PROVE BootTypeOK'
  <2>1. [kind |-> kind, cfg |-> c, pc |-> "request", disposed |-> FALSE,
         reloaded |-> FALSE, prevent |-> FALSE, told |-> FALSE,
         port |-> IF kind = "start" /\ c.auth = "oauth" THEN "host" ELSE "none"] \in Attempt
    BY DEF Attempt
  <2>2. attempts' \in Seq(Attempt) /\ frame' \in 1 .. Len(attempts')
    BY <1>1, <2>1 DEF Begin
  <2>3. PageAt("blank") \in Page /\ page' = PageAt("blank") /\ toPage' = <<>>
    BY <1>1 DEF Begin, PageAt, Page
  <2> QED
    BY <1>1, <2>2, <2>3 DEF Begin, PageAt, Configured, storage
<1>2. ASSUME WindowGone PROVE BootTypeOK'
  BY <1>2 DEF WindowGone, PageAt, Page, Configured, storage
<1>3. CASE Dispose
  <2>1. frame \in DOMAIN attempts /\ attempts[frame] \in Attempt
    BY <1>3 DEF Dispose
  <2>2. [Orphaned(attempts[frame]) EXCEPT !.disposed = TRUE, !.prevent = FALSE] \in Attempt
    BY <2>1, OrphanedTyping
  <2>3. attempts' \in Seq(Attempt) /\ Len(attempts') = Len(attempts)
    BY <1>3, <2>1, <2>2 DEF Dispose
  <2> QED
    BY <1>3, <2>3 DEF Dispose, RemoveFrame, PageAt, Page, Configured, storage
<1>4. CASE HostReceive
  <2> DEFINE m == Head(toHost)
  <2>1. /\ attempts' = [i \in DOMAIN attempts |-> Hear(i, m)]
        /\ UNCHANGED storage
        /\ \/ RemoveFrame
           \/ /\ UNCHANGED <<frame, page>>
              /\ \/ toPage' = toPage
                 \/ frame # 0 /\ toPage' = toPage \o Replies(attempts[frame], m)
    BY <1>4 DEF HostReceive
  <2> HIDE DEF m
  <2>2. \A i \in DOMAIN attempts : Hear(i, m) \in Attempt
    BY HearTyping
  <2>3. attempts' \in Seq(Attempt) /\ Len(attempts') = Len(attempts)
    BY <2>1, <2>2
  <2>4. CASE RemoveFrame
    BY <2>1, <2>3, <2>4 DEF RemoveFrame, PageAt, Page, Configured, storage
  <2>5. CASE UNCHANGED <<frame, page, toPage>>
    BY <2>1, <2>3, <2>5 DEF storage
  <2>6. CASE /\ UNCHANGED <<frame, page>>
             /\ frame # 0 /\ toPage' = toPage \o Replies(attempts[frame], m)
    <3>1. attempts[frame] \in Attempt
      BY <2>6
    <3>2. toPage' \in Seq(Reply)
      BY <2>6, <3>1, RepliesTyping
    <3> QED
      BY <2>1, <2>3, <2>6, <3>2 DEF storage
  <2> QED
    BY <2>1, <2>4, <2>5, <2>6
<1>5. ASSUME NEW i \in DOMAIN attempts, HostTimeout(i) PROVE BootTypeOK'
  <2>1. [attempts[i] EXCEPT !.pc = "failed"] \in Attempt
    <3>1. attempts[i] \in Attempt
      OBVIOUS
    <3> QED
      BY <3>1 DEF Attempt
  <2>2. attempts' \in Seq(Attempt) /\ Len(attempts') = Len(attempts)
    BY <1>5, <2>1 DEF HostTimeout
  <2>3. UNCHANGED storage /\ (RemoveFrame \/ UNCHANGED <<frame, page, toPage>>)
    BY <1>5 DEF HostTimeout
  <2>4. CASE RemoveFrame
    BY <2>2, <2>3, <2>4 DEF RemoveFrame, PageAt, Page, Configured, storage
  <2>5. CASE UNCHANGED <<frame, page, toPage>>
    BY <2>2, <2>3, <2>5 DEF storage
  <2> QED
    BY <2>3, <2>4, <2>5
<1> QED
  BY <1>1, <1>2, <1>3, <1>4, <1>5
  DEF WindowStep, PingWorkbench, StartWorkbench, LeaveWindow, FollowFrame

\* The document takes the oldest message, and the rest stays.
LEMMA TakesTyping ==
  ASSUME BootTypeOK
  PROVE  /\ Takes("config") => toPage' \in Seq(Reply) /\ Head(toPage).cfg \in Configs
         /\ Takes("port") => toPage' \in Seq(Reply)
<1>1. toPage # <<>> => Head(toPage) \in Reply /\ Tail(toPage) \in Seq(Reply)
  BY DEF BootTypeOK
<1> QED
  BY <1>1 DEF Takes, Reply

LEMMA OrphanTyping ==
  ASSUME BootTypeOK, frame # 0
  PROVE  \A a \in Attempt :
           /\ [attempts EXCEPT ![frame] = a] \in Seq(Attempt)
           /\ Len([attempts EXCEPT ![frame] = a]) = Len(attempts)
BY DEF BootTypeOK

LEMMA DocumentTyping == BootTypeOK /\ DocumentStep => BootTypeOK'
<1> SUFFICES ASSUME BootTypeOK, DocumentStep PROVE BootTypeOK'
  OBVIOUS
<1> USE DEF BootTypeOK
<1>1. CASE RequestConfig
  BY <1>1 DEF RequestConfig, PageAt, Page, Configured, window, storage
<1>2. CASE RefuseStorage
  <2>1. toPage' \in Seq(Reply) /\ Head(toPage).cfg \in Configs
    BY <1>2, TakesTyping DEF RefuseStorage
  <2>2. page' \in Page /\ page'.pc = "dead" /\ page.pc # "none"
    BY <1>2, <2>1 DEF RefuseStorage, Page
  <2> QED
    BY <1>2, <2>1, <2>2 DEF RefuseStorage, Configured, window, storage
<1>3. CASE MissMessage
  <2>1. toPage' \in Seq(Reply) /\ UNCHANGED <<frame, page, storage>>
    BY <1>3 DEF MissMessage
  <2>2. CASE attempts' = attempts
    BY <2>1, <2>2 DEF storage
  <2>3. CASE Head(toPage).key = "port" /\ frame # 0
    <3>1. attempts[frame] \in Attempt
      BY <2>3
    <3> HIDE DEF BootTypeOK
    <3>2. Orphaned(attempts[frame]) \in Attempt
      BY <3>1, OrphanedTyping
    <3>3. attempts' \in Seq(Attempt) /\ Len(attempts') = Len(attempts)
      BY <1>3, <2>3, <3>2, OrphanTyping DEF MissMessage
    <3> QED
      BY <2>1, <3>3 DEF storage, BootTypeOK
  <2>4. CASE Head(toPage).key = "port" /\ frame = 0
    <3>1. attempts' = [attempts EXCEPT ![frame] = Orphaned(@)]
      BY <1>3, <2>4 DEF MissMessage
    <3>2. attempts' = attempts
      BY <2>4, <3>1
    <3> QED
      BY <2>1, <3>2 DEF storage
  <2> QED
    BY <1>3, <2>2, <2>3, <2>4 DEF MissMessage
<1>4. CASE CheckCors \/ LoadScripts \/ PageFails
  <2>1. /\ UNCHANGED <<window, toPage, storage>>
        /\ \E pc \in {"loading", "porting", "cleaning", "dead"} : page' = [page EXCEPT !.pc = pc]
        /\ page.pc \in {"asking", "checking", "loading", "porting"}
        /\ page.pc = "asking" => page'.pc = "dead"
    BY <1>4 DEF CheckCors, LoadScripts, PageFails, Die, GoOn, Page
  <2> QED
    BY <2>1 DEF Page, Configured, window, storage
<1>5. CASE ReceivePort
  <2>1. frame # 0 /\ [attempts[frame] EXCEPT !.port = "page"] \in Attempt
    <3>1. frame # 0 /\ attempts[frame] \in Attempt
      BY <1>5 DEF ReceivePort
    <3> QED
      BY <3>1 DEF Attempt
  <2>2. attempts' \in Seq(Attempt) /\ Len(attempts') = Len(attempts)
    BY <1>5, <2>1, OrphanTyping DEF ReceivePort
  <2> QED
    BY <1>5, <2>2, TakesTyping DEF ReceivePort, GoOn, Page, Configured, storage
<1>6. CASE ReloadPage
  <2>1. frame # 0 /\ [Orphaned(attempts[frame]) EXCEPT !.reloaded = TRUE] \in Attempt
    <3>1. frame # 0 /\ attempts[frame] \in Attempt
      BY <1>6 DEF ReloadPage
    <3> QED
      BY <3>1, OrphanedTyping
  <2>2. attempts' \in Seq(Attempt) /\ Len(attempts') = Len(attempts)
    BY <1>6, <2>1, OrphanTyping DEF ReloadPage
  <2> QED
    BY <1>6, <2>2 DEF ReloadPage, PageAt, Page, Configured, storage
<1>7. ASSUME NEW key \in ExtensionMessage, ExtensionPosts(key) PROVE BootTypeOK'
  BY <1>7 DEF ExtensionPosts, window, storage
<1> QED
  BY <1>1, <1>2, <1>3, <1>4, <1>5, <1>6, <1>7 DEF DocumentStep

\* A step that changes the storage.
StorageStep ==
  \/ HandleEmbedderChange \/ PurgeClientStorage \/ PurgeFails
  \/ KeepExtensions \/ ClearExtensions \/ ClearFails \/ SaveFails \/ UseWorkbench

\* Markers, databases and documents of the right types, step by step.
LEMMA StorageOperatorsTyping ==
  ASSUME NEW c \in Configs, NEW l \in Local, NEW d \in Databases
  PROVE  /\ RegisterOrigin(l, c) \in Local /\ SaveConfigState(l, c) \in Local
         /\ EmptyLocal \in Local /\ EmptyDatabases \in Databases
         /\ [d EXCEPT !.extensions = {}] \in Databases
         /\ RemovedExtensions(d) \subseteq Databases /\ DeletedDatabases(d) \subseteq Databases
         /\ [owners |-> d.owners \union {c.from}, extensions |-> d.extensions] \in Databases
         /\ [owners |-> d.owners \union {c.from},
             extensions |-> d.extensions \union {c.context}] \in Databases
BY ConfigTyping DEF RegisterOrigin, SaveConfigState, EmptyLocal, EmptyDatabases, Local, Databases,
  RemovedExtensions, DeletedDatabases

LEMMA StorageTyping == BootTypeOK /\ StorageStep => BootTypeOK'
<1> SUFFICES ASSUME BootTypeOK, StorageStep PROVE BootTypeOK'
  OBVIOUS
<1>1. CASE HandleEmbedderChange
  <2>1. Head(toPage).cfg \in Configs /\ toPage' \in Seq(Reply)
    BY <1>1, TakesTyping DEF HandleEmbedderChange
  <2>2. local' \in Local /\ unpurged' \subseteq Embedder
    <3>1. local \in Local /\ db \in Databases /\ unpurged \subseteq Embedder
      BY DEF BootTypeOK
    <3>2. RegisterOrigin(local, Head(toPage).cfg) \in Local /\ EmptyLocal \in Local
      BY <2>1, <3>1, StorageOperatorsTyping
    <3>3. db.owners \subseteq Embedder
      BY <3>1 DEF Databases
    <3> QED
      BY <1>1, <3>1, <3>2, <3>3 DEF HandleEmbedderChange
  <2>3. page' \in Page /\ page'.pc \in {"purging", "checking"} /\ page'.cfg \in Configs
    BY <1>1, <2>1 DEF HandleEmbedderChange, Page
  <2>4. frame # 0
    BY <1>1 DEF HandleEmbedderChange, BootTypeOK
  <2> QED
    BY <1>1, <2>1, <2>2, <2>3, <2>4 DEF HandleEmbedderChange, BootTypeOK, window
<1>2. ASSUME page.pc \in {"purging", "cleaning", "up"}
      PROVE  /\ page.cfg \in Configs /\ frame # 0
             /\ page.cfg.from \in Embedder /\ page.cfg.context \in Context \union {NoContext}
  BY <1>2, ConfigTyping DEF BootTypeOK, Configured
<1>3. ASSUME page.pc \in {"purging", "cleaning", "up"}, UNCHANGED <<window, toPage>>,
             \E pc \in {"checking", "up", "dead"} : page' = [page EXCEPT !.pc = pc] \/ page' = page,
             local' \in Local, db' \in Databases, unpurged' \subseteq Embedder,
             unsure' \subseteq Context \union {NoContext}
      PROVE  BootTypeOK'
  <2>1. page' \in Page /\ page'.pc # "none" /\ page'.cfg \in Configs
    BY <1>2, <1>3 DEF BootTypeOK, Page
  <2> QED
    BY <1>2, <1>3, <2>1 DEF BootTypeOK, window
<1>4. CASE PurgeClientStorage
  BY <1>2, <1>3, <1>4, StorageOperatorsTyping
  DEF PurgeClientStorage, GoOn, BootTypeOK, window
<1>5. CASE PurgeFails
  BY <1>2, <1>3, <1>5, StorageOperatorsTyping DEF PurgeFails, Die, GoOn, BootTypeOK, window
<1>6. CASE KeepExtensions
  <2>1. db.extensions \subseteq Context \union {NoContext}
    BY DEF BootTypeOK, Databases
  <2> QED
    BY <1>2, <1>3, <1>6, <2>1, StorageOperatorsTyping
    DEF KeepExtensions, CreateWorkbench, GoOn, BootTypeOK, window
<1>7. CASE ClearExtensions
  BY <1>2, <1>3, <1>7, StorageOperatorsTyping
  DEF ClearExtensions, CreateWorkbench, GoOn, BootTypeOK, window
<1>8. CASE ClearFails
  <2>1. db.extensions \subseteq Context \union {NoContext}
    BY DEF BootTypeOK, Databases
  <2> QED
    BY <1>2, <1>3, <1>8, <2>1, StorageOperatorsTyping
    DEF ClearFails, CreateWorkbench, Die, GoOn, BootTypeOK, window
<1>9. CASE SaveFails
  <2>1. db' \in Databases
    BY <1>2, <1>9, StorageOperatorsTyping DEF SaveFails, BootTypeOK
  <2>2. db'.extensions \subseteq Context \union {NoContext}
    BY <2>1 DEF Databases
  <2> QED
    BY <1>2, <1>3, <1>9, <2>1, <2>2 DEF SaveFails, CreateWorkbench, GoOn, BootTypeOK, window
<1>10. CASE UseWorkbench
  <2>1. db' \in Databases
    BY <1>2, <1>10, StorageOperatorsTyping DEF UseWorkbench, BootTypeOK
  <2> QED
    BY <1>2, <1>3, <1>10, <2>1 DEF UseWorkbench, BootTypeOK, window
<1> QED
  BY <1>1, <1>4, <1>5, <1>6, <1>7, <1>8, <1>9, <1>10 DEF StorageStep

LEMMA StepKinds == [Next]_vars => WindowStep \/ DocumentStep \/ StorageStep \/ UNCHANGED vars
BY DEF Next, PageStep, WindowStep, DocumentStep, StorageStep

LEMMA Typing == BootTypeOK /\ [Next]_vars => BootTypeOK'
<1>1. BootTypeOK /\ UNCHANGED vars => BootTypeOK'
  BY DEF BootTypeOK, vars, window, storage
<1> QED
  BY <1>1, StepKinds, WindowTyping, DocumentTyping, StorageTyping

LEMMA InitTyping == Init => BootTypeOK
<1> SUFFICES ASSUME Init PROVE BootTypeOK
  OBVIOUS
<1>1. local \in Local /\ db \in Databases
  <2>1. CASE local = EmptyLocal /\ db = EmptyDatabases
    BY <2>1 DEF EmptyLocal, EmptyDatabases, Local, Databases
  <2>2. ASSUME NEW c \in Configs, LeftBy(c) PROVE local \in Local /\ db \in Databases
    BY <2>2, ConfigTyping
    DEF LeftBy, SaveConfigState, RegisterOrigin, EmptyLocal, Local, Databases
  <2> QED
    BY <2>1, <2>2 DEF Init
<1> QED
  BY <1>1 DEF Init, BootTypeOK, PageAt, Page, Configured

\* What the window, the document, the messages and the storage are, in every
\* state of every start (index.ts, main.ts, start.ts).
THEOREM TypeCorrect == Spec => []BootTypeOK
BY InitTyping, Typing, PTL DEF Spec

-----------------------------------------------------------------------------
(* Whose data the databases hold. *)

\* What a step that leaves the storage alone does to the document.
LEMMA DocumentAdvances ==
  ASSUME BootTypeOK, WindowStep \/ DocumentStep \/ UNCHANGED vars
  PROVE  /\ UNCHANGED storage
         /\ \/ page' = page
            \/ page'.pc \in {"none", "blank", "asking", "dead"}
            \/ /\ page.pc \in {"checking", "loading", "porting"}
               /\ page'.pc \in {"loading", "porting", "cleaning"}
               /\ page'.cfg = page.cfg
<1> DEFINE Advance ==
      \/ page' = page
      \/ page'.pc \in {"none", "blank", "asking", "dead"}
      \/ /\ page.pc \in {"checking", "loading", "porting"}
         /\ page'.pc \in {"loading", "porting", "cleaning"}
         /\ page'.cfg = page.cfg
<1> USE DEF BootTypeOK, Page, PageAt
<1>1. CASE WindowStep
  <2>1. UNCHANGED storage /\ (page' = page \/ page' = PageAt("none") \/ page' = PageAt("blank"))
    BY <1>1 DEF WindowStep, PingWorkbench, StartWorkbench, Begin, LeaveWindow, FollowFrame,
      WindowGone, Dispose, HostReceive, HostTimeout, RemoveFrame
  <2> QED
    BY <2>1
<1>2. ASSUME RequestConfig \/ RefuseStorage \/ MissMessage \/ ReloadPage
             \/ \E key \in ExtensionMessage : ExtensionPosts(key)
      PROVE  UNCHANGED storage /\ Advance
  BY <1>2 DEF RequestConfig, RefuseStorage, MissMessage, ReloadPage, ExtensionPosts
<1>3. CASE CheckCors \/ LoadScripts \/ ReceivePort \/ PageFails
  BY <1>3 DEF CheckCors, LoadScripts, ReceivePort, PageFails, Die, GoOn
<1> QED
  BY <1>1, <1>2, <1>3 DEF DocumentStep, vars

LEMMA OwnersStep ==
  ASSUME BootTypeOK, OwnersAreMarked, [Next]_vars
  PROVE  OwnersAreMarked'
<1> USE DEF OwnersAreMarked, Configured
<1>1. CASE WindowStep \/ DocumentStep \/ UNCHANGED vars
  BY <1>1, DocumentAdvances DEF storage
<1>2. CASE HandleEmbedderChange
  <2>1. Head(toPage).cfg \in Configs
    BY <1>2, TakesTyping DEF HandleEmbedderChange
  <2>2. Head(toPage).cfg.from # None
    BY <2>1, ConfigTyping
  <2> QED
    BY <1>2, <2>2
    DEF HandleEmbedderChange, EmbedderChanged, RegisterOrigin, EmptyLocal, BootTypeOK, Local
<1>3. ASSUME page.pc \in {"purging", "cleaning", "up"}
      PROVE  page.cfg.from # None /\ page \in Page /\ local \in Local /\ db \in Databases
  BY <1>3, ConfigTyping DEF BootTypeOK, Configured
<1>4. CASE PurgeClientStorage
  BY <1>3, <1>4 DEF PurgeClientStorage, GoOn, EmptyDatabases, RegisterOrigin, Local, Page
<1>5. CASE PurgeFails
  BY <1>3, <1>5 DEF PurgeFails, Die, GoOn, DeletedDatabases, Page
<1>6. ASSUME KeepExtensions \/ ClearExtensions \/ ClearFails \/ SaveFails
      PROVE  /\ db'.owners = db.owners /\ local'.origin = local.origin /\ unpurged' = unpurged
             /\ page'.cfg = page.cfg /\ page.pc = "cleaning"
  BY <1>3, <1>6
  DEF KeepExtensions, ClearExtensions, ClearFails, SaveFails, CreateWorkbench, Die, GoOn,
    RemovedExtensions, SaveConfigState, Local, Databases, Page
<1>7. CASE UseWorkbench
  BY <1>3, <1>7 DEF UseWorkbench
<1> QED
  BY <1>1, <1>2, <1>4, <1>5, <1>6, <1>7, StepKinds DEF StorageStep

LEMMA OwnersInit == Init => OwnersAreMarked
<1> SUFFICES ASSUME Init PROVE OwnersAreMarked
  OBVIOUS
<1>1. ASSUME NEW c \in Configs, LeftBy(c) PROVE db.owners \subseteq {local.origin} /\ local.origin # None
  BY <1>1, ConfigTyping DEF LeftBy, SaveConfigState, RegisterOrigin, EmptyLocal
<1> QED
  BY <1>1 DEF Init, OwnersAreMarked, PageAt, Configured, EmptyDatabases

\* No embedder's data reaches the workbench of another, unless its purge was
\* begun and did not finish (handleEmbedderChange.ts:19-41).
THEOREM DataStaysWithItsEmbedder == Spec => []DataIsOwnOrUnpurged
<1>1. BootTypeOK /\ OwnersAreMarked => DataIsOwnOrUnpurged
  BY DEF BootTypeOK, OwnersAreMarked, DataIsOwnOrUnpurged, Configured
<1> QED
  BY <1>1, InitTyping, Typing, OwnersInit, OwnersStep, PTL DEF Spec

-----------------------------------------------------------------------------
(* Which contexts the listed extensions belong to. *)

\* A step that ends the cleaning: what is kept is marked, or told to be unsure.
LEMMA CleaningMarks ==
  ASSUME BootTypeOK, ExtensionsAreMarked,
         KeepExtensions \/ ClearExtensions \/ ClearFails \/ SaveFails
  PROVE  ExtensionsAreMarked' /\ ExtensionsBelongToContext'
<1> USE DEF ExtensionsAreMarked, ExtensionsBelongToContext
<1>1. /\ page \in Page /\ local \in Local /\ db \in Databases /\ page.pc = "cleaning"
      /\ IsMarketplaceEnabled(page.cfg) \in BOOLEAN
      /\ IsMarketplaceEnabled(page.cfg) => page.cfg.marketplace
  BY ConfigTyping
  DEF BootTypeOK, Configured, KeepExtensions, ClearExtensions, ClearFails, SaveFails,
    IsMarketplaceEnabled
<1> DEFINE own == IF IsMarketplaceEnabled(page.cfg) THEN {page.cfg.context} ELSE {}
<1>2. SaveConfigState(local, page.cfg).marketplace = IsMarketplaceEnabled(page.cfg)
      /\ SaveConfigState(local, page.cfg).context = page.cfg.context
  BY <1>1 DEF SaveConfigState, Local
<1>3. ASSUME local' = SaveConfigState(local, page.cfg), page' = [page EXCEPT !.pc = "up"],
             db'.extensions \subseteq unsure' \union own
      PROVE  ExtensionsAreMarked' /\ ExtensionsBelongToContext'
  BY <1>1, <1>2, <1>3 DEF Page
<1>4. CASE KeepExtensions
  <2>1. CASE NoContext \in {local.context, page.cfg.context}
    BY <1>3, <1>4, <2>1 DEF KeepExtensions, CreateWorkbench, GoOn
  <2>2. CASE NoContext \notin {local.context, page.cfg.context}
    <3>1. (IF local.marketplace THEN {local.context} ELSE {}) \subseteq own
      BY <1>1, <1>4, <2>2
      DEF KeepExtensions, ShouldClear, ClearByMarketplace, ClearByContext
    <3>2. db'.extensions \subseteq unsure' \union own
      BY <1>4, <2>2, <3>1 DEF KeepExtensions
    <3> QED
      BY <1>3, <1>4, <3>2 DEF KeepExtensions, CreateWorkbench, GoOn
  <2> QED
    BY <2>1, <2>2
<1>5. CASE ClearExtensions
  BY <1>1, <1>3, <1>5 DEF ClearExtensions, CreateWorkbench, GoOn, Databases
<1>6. CASE ClearFails
  <2>1. db'.extensions \subseteq db.extensions
    BY <1>1, <1>6 DEF ClearFails, RemovedExtensions, Databases
  <2>2. CASE page.cfg.crossOriginExtensionHost
    BY <1>3, <1>6, <2>1, <2>2 DEF ClearFails, CreateWorkbench, GoOn
  <2>3. CASE ~ page.cfg.crossOriginExtensionHost
    BY <1>1, <1>6, <2>1, <2>3 DEF ClearFails, Die, GoOn, Page
  <2> QED
    BY <2>2, <2>3
<1>7. CASE SaveFails
  BY <1>1, <1>7 DEF SaveFails, CreateWorkbench, GoOn, Page
<1> QED
  BY <1>4, <1>5, <1>6, <1>7

LEMMA ExtensionsStep ==
  ASSUME BootTypeOK, ExtensionsAreMarked, ExtensionsBelongToContext, [Next]_vars
  PROVE  ExtensionsAreMarked' /\ ExtensionsBelongToContext'
<1> USE DEF ExtensionsAreMarked, ExtensionsBelongToContext
<1>1. CASE WindowStep \/ DocumentStep \/ UNCHANGED vars
  BY <1>1, DocumentAdvances DEF storage
<1>2. CASE HandleEmbedderChange
  BY <1>2 DEF HandleEmbedderChange, RegisterOrigin, EmptyLocal, BootTypeOK, Local
<1>3. CASE PurgeClientStorage
  BY <1>3 DEF PurgeClientStorage, GoOn, EmptyDatabases, RegisterOrigin, BootTypeOK, Local, Page
<1>4. CASE PurgeFails
  BY <1>4 DEF PurgeFails, Die, GoOn, DeletedDatabases, BootTypeOK, Databases, Page
<1>5. CASE UseWorkbench
  BY <1>5 DEF UseWorkbench, BootTypeOK, Databases
<1> QED
  BY <1>1, <1>2, <1>3, <1>4, <1>5, CleaningMarks, StepKinds DEF StorageStep

LEMMA ExtensionsInit == Init => ExtensionsAreMarked /\ ExtensionsBelongToContext
<1> SUFFICES ASSUME Init PROVE ExtensionsAreMarked /\ ExtensionsBelongToContext
  OBVIOUS
<1>1. ASSUME NEW c \in Configs, LeftBy(c)
      PROVE  db.extensions \subseteq IF local.marketplace THEN {local.context} ELSE {}
  BY <1>1, ConfigTyping DEF LeftBy, SaveConfigState, RegisterOrigin, EmptyLocal
<1> QED
  BY <1>1 DEF Init, ExtensionsAreMarked, ExtensionsBelongToContext, PageAt, EmptyLocal

\* The cleaning decides by the markers alone, and yet no workbench lists another
\* context's extensions but those the markers could not tell of
\* (cleanExtensions.ts:75-101).
THEOREM ExtensionsStayInTheirContext == Spec => []ExtensionsBelongToContext
BY InitTyping, Typing, ExtensionsInit, ExtensionsStep, PTL DEF Spec

-----------------------------------------------------------------------------
(* The port of the workbench. *)

PortInvariant == PortIsSentOnce /\ WorkbenchHasItsPort

\* Hearing a message only ever sends the port that is still at the window.
LEMMA HearPort ==
  ASSUME NEW i \in DOMAIN attempts, attempts[i] \in Attempt, NEW m
  PROVE  /\ Hear(i, m).disposed = attempts[i].disposed
         /\ Hear(i, m).port =
              IF m.key = "port-request" /\ ~ attempts[i].disposed /\ attempts[i].port = "host"
              THEN IF i = frame /\ page.pc # "blank" THEN "sent" ELSE "gone"
              ELSE attempts[i].port
<1> DEFINE a == attempts[i]
           b == AfterWait(a, m)
           c == HandleMessages(b, m)
<1>1. b \in Attempt /\ b.disposed = a.disposed /\ b.port = a.port
  BY DEF AfterWait, Attempt
<1> HIDE DEF b
<1>2. (m.key = "error") \in BOOLEAN
  OBVIOUS
<1>3. c \in Attempt /\ c.disposed = a.disposed /\ c.port = a.port
  BY <1>1, <1>2 DEF HandleMessages, Attempt
<1> HIDE DEF c
<1>4. Hear(i, m) = SendPort(c, i, m)
  BY DEF Hear, b, c
<1> QED
  BY <1>3, <1>4 DEF SendPort, Attempt

\* A port is only answered with when it is still there, and alone.
LEMMA PortReply ==
  ASSUME NEW a \in Attempt, NEW m, NEW k \in DOMAIN Replies(a, m), Replies(a, m)[k].key = "port"
  PROVE  a.port = "host" /\ m.key = "port-request" /\ Len(Replies(a, m)) = 1
BY DEF Replies

\* The messages after the oldest.
LEMMA TailMessages ==
  ASSUME BootTypeOK, toPage # <<>>, toPage' = Tail(toPage)
  PROVE  /\ 1 \in DOMAIN toPage /\ Head(toPage) = toPage[1]
         /\ \A k \in DOMAIN toPage' :
              k \in Nat /\ k + 1 \in DOMAIN toPage /\ toPage'[k] = toPage[k + 1]
BY DEF BootTypeOK

LEMMA PortWindowStep ==
  ASSUME BootTypeOK, PortInvariant, WindowStep
  PROVE  PortInvariant'
<1> USE DEF PortInvariant, PortIsSentOnce, WorkbenchHasItsPort
<1>1. ASSUME NEW kind \in {"ping", "start"}, NEW c \in Configs, Begin(kind, c)
      PROVE  PortInvariant'
  <2>1. attempts \in Seq(Attempt)
    BY DEF BootTypeOK
  <2>2. attempts'[frame'].disposed = FALSE /\ toPage' = <<>> /\ page'.pc = "blank" /\ frame' # 0
    BY <1>1, <2>1 DEF Begin, PageAt
  <2> QED
    BY <2>2
<1>2. ASSUME frame' = 0, toPage' = <<>>, page'.pc = "none" PROVE PortInvariant'
  BY <1>2
<1>3. CASE HostReceive
  <2> DEFINE m == Head(toHost)
  <2>1. /\ attempts' = [i \in DOMAIN attempts |-> Hear(i, m)]
        /\ \/ RemoveFrame
           \/ /\ UNCHANGED <<frame, page>>
              /\ toPage' = IF frame = 0 \/ page.pc = "blank" THEN toPage
                           ELSE toPage \o Replies(attempts[frame], m)
    BY <1>3 DEF HostReceive
  <2> HIDE DEF m
  <2>2. CASE RemoveFrame
    BY <1>2, <2>2 DEF RemoveFrame, PageAt
  <2>3. CASE /\ UNCHANGED <<frame, page>> /\ frame = 0
             /\ toPage' = IF frame = 0 \/ page.pc = "blank" THEN toPage
                          ELSE toPage \o Replies(attempts[frame], m)
    BY <2>3 DEF BootTypeOK
  <2>4. CASE /\ UNCHANGED <<frame, page>> /\ frame # 0
             /\ toPage' = IF frame = 0 \/ page.pc = "blank" THEN toPage
                          ELSE toPage \o Replies(attempts[frame], m)
    <3> DEFINE a == attempts[frame]
    <3>1. frame \in DOMAIN attempts /\ a \in Attempt
      BY <2>4 DEF BootTypeOK
    <3>2. /\ attempts'[frame].disposed = FALSE
          /\ attempts'[frame].port =
               IF m.key = "port-request" /\ a.port = "host"
               THEN IF page.pc # "blank" THEN "sent" ELSE "gone"
               ELSE a.port
      BY <2>1, <2>4, <3>1, HearPort DEF Attempt
    <3>3. WorkbenchHasItsPort'
      BY <2>4, <3>2
    <3>4. CASE page.pc = "blank"
      BY <2>4, <3>2, <3>3, <3>4
    <3>5. CASE page.pc # "blank"
      <4> DEFINE r == Replies(a, m)
      <4>1. r \in Seq(Reply) /\ toPage \in Seq(Reply) /\ toPage' = toPage \o r
        BY <2>4, <3>1, <3>5, RepliesTyping DEF BootTypeOK
      <4>2. \A k \in DOMAIN r : r[k].key = "port" =>
              a.port = "host" /\ m.key = "port-request" /\ Len(r) = 1
        BY <3>1, PortReply
      <4> HIDE DEF r
      <4>3. \A k \in DOMAIN toPage' :
              \/ k \in DOMAIN toPage /\ toPage'[k] = toPage[k]
              \/ k - Len(toPage) \in DOMAIN r /\ toPage'[k] = r[k - Len(toPage)]
        BY <4>1
      <4>4. \A k \in DOMAIN toPage' : toPage'[k].key = "port" => attempts'[frame].port = "sent"
        BY <2>4, <3>2, <3>5, <4>2, <4>3
      <4>5. ASSUME NEW j \in DOMAIN toPage', NEW k \in DOMAIN toPage',
                   toPage'[j].key = "port", toPage'[k].key = "port"
            PROVE  j = k
        <5>1. CASE j \in DOMAIN toPage /\ toPage'[j] = toPage[j] /\ k \in DOMAIN toPage /\ toPage'[k] = toPage[k]
          BY <4>5, <5>1
        <5>2. ASSUME NEW h \in {j, k}, h - Len(toPage) \in DOMAIN r,
                     toPage'[h] = r[h - Len(toPage)]
              PROVE  /\ Len(r) = 1 /\ \A g \in DOMAIN toPage : toPage[g].key # "port"
          BY <2>4, <4>2, <4>5, <5>2
        <5>3. CASE \E h \in {j, k} : h - Len(toPage) \in DOMAIN r /\ toPage'[h] = r[h - Len(toPage)]
          <6>1. Len(r) = 1 /\ \A g \in DOMAIN toPage : toPage[g].key # "port"
            BY <5>2, <5>3
          <6>2. j - Len(toPage) = 1 /\ k - Len(toPage) = 1
            BY <4>1, <4>3, <4>5, <6>1
          <6> QED
            BY <4>1, <6>2
        <5> QED
          BY <4>3, <5>1, <5>3
      <4> QED
        BY <2>4, <3>2, <3>3, <4>4, <4>5
    <3> QED
      BY <3>4, <3>5
  <2> QED
    BY <2>1, <2>2, <2>3, <2>4
<1>4. ASSUME NEW i \in DOMAIN attempts, HostTimeout(i) PROVE PortInvariant'
  <2>1. CASE RemoveFrame
    BY <1>2, <2>1 DEF RemoveFrame, PageAt
  <2>2. CASE UNCHANGED <<frame, page, toPage>>
    <3>1. frame # 0 => /\ attempts'[frame].port = attempts[frame].port
                       /\ attempts'[frame].disposed = attempts[frame].disposed
      BY <1>4 DEF HostTimeout, BootTypeOK, Attempt
    <3> QED
      BY <2>2, <3>1 DEF BootTypeOK
  <2> QED
    BY <1>4, <2>1, <2>2 DEF HostTimeout
<1>5. CASE LeaveWindow \/ FollowFrame \/ Dispose
  BY <1>2, <1>5 DEF LeaveWindow, FollowFrame, WindowGone, Dispose, RemoveFrame, PageAt
<1> QED
  BY <1>1, <1>3, <1>4, <1>5 DEF WindowStep, PingWorkbench, StartWorkbench

LEMMA PortPageStep ==
  ASSUME BootTypeOK, PortInvariant, DocumentStep \/ StorageStep \/ UNCHANGED vars
  PROVE  PortInvariant'
<1> USE DEF PortInvariant, PortIsSentOnce, WorkbenchHasItsPort
<1>1. ASSUME UNCHANGED <<window, toPage>>,
             page'.pc \in {"cleaning", "up"} =>
               page'.cfg = page.cfg /\ (page.pc \in {"cleaning", "up"} \/ page.cfg.auth # "oauth")
      PROVE  PortInvariant'
  BY <1>1 DEF window
<1>2. ASSUME toPage # <<>>, toPage' = Tail(toPage), UNCHANGED window,
             page'.pc \notin {"cleaning", "up"} \/ page' = page
      PROVE  PortInvariant'
  <2>1. frame # 0
    BY <1>2
  <2> QED
    BY <1>2, <2>1, TailMessages DEF window
<1>3. page \in Page
  BY DEF BootTypeOK
<1>4. CASE RequestConfig \/ (\E key \in ExtensionMessage : ExtensionPosts(key)) \/ UNCHANGED vars
           \/ PurgeClientStorage \/ PurgeFails \/ UseWorkbench
  BY <1>1, <1>3, <1>4
  DEF RequestConfig, ExtensionPosts, vars, PurgeClientStorage, PurgeFails, UseWorkbench, Die, GoOn,
    PageAt, Page, window
<1>5. CASE KeepExtensions \/ ClearExtensions \/ ClearFails \/ SaveFails
  BY <1>1, <1>3, <1>5
  DEF KeepExtensions, ClearExtensions, ClearFails, SaveFails, CreateWorkbench, Die, GoOn, Page, window
<1>6. CASE CheckCors \/ LoadScripts \/ PageFails
  BY <1>1, <1>3, <1>6 DEF CheckCors, LoadScripts, PageFails, Die, GoOn, Page
<1>7. CASE RefuseStorage \/ HandleEmbedderChange
  BY <1>2, <1>7 DEF RefuseStorage, HandleEmbedderChange, Takes
<1>8. CASE MissMessage
  <2>1. CASE Head(toPage).key # "port"
    BY <1>2, <1>8, <2>1 DEF MissMessage, window
  <2>2. CASE Head(toPage).key = "port"
    <3>1. /\ toPage # <<>> /\ toPage' = Tail(toPage) /\ UNCHANGED <<frame, page>>
          /\ attempts' = [attempts EXCEPT ![frame] = Orphaned(@)]
      BY <1>8, <2>2 DEF MissMessage
    <3>2. frame # 0 /\ frame \in DOMAIN attempts /\ attempts[frame] \in Attempt
      BY <3>1 DEF BootTypeOK
    <3>3. attempts'[frame].disposed = attempts[frame].disposed
      BY <3>1, <3>2 DEF Orphaned, Attempt
    <3>4. 1 \in DOMAIN toPage /\ toPage[1].key = "port" /\ attempts[frame].port = "sent"
      BY <2>2, <3>1, TailMessages
    <3>5. \A k \in DOMAIN toPage' : toPage'[k].key # "port"
      BY <3>1, <3>4, TailMessages
    <3> QED
      BY <3>1, <3>2, <3>3, <3>4, <3>5
  <2> QED
    BY <2>1, <2>2
<1>9. CASE ReceivePort
  <2>1. /\ toPage # <<>> /\ toPage' = Tail(toPage) /\ Head(toPage).key = "port" /\ frame' = frame
        /\ attempts' = [attempts EXCEPT ![frame].port = "page"]
    BY <1>9 DEF ReceivePort, Takes
  <2>2. frame # 0 /\ frame \in DOMAIN attempts /\ attempts[frame] \in Attempt
    BY <2>1 DEF BootTypeOK
  <2>3. attempts'[frame].disposed = attempts[frame].disposed /\ attempts'[frame].port = "page"
    BY <2>1, <2>2 DEF Attempt
  <2>4. \A k \in DOMAIN toPage' : toPage'[k].key # "port"
    BY <2>1, TailMessages
  <2> QED
    BY <2>1, <2>2, <2>3, <2>4
<1>10. CASE ReloadPage
  <2>1. frame # 0 /\ frame \in DOMAIN attempts /\ attempts[frame] \in Attempt
    BY <1>10 DEF ReloadPage, BootTypeOK
  <2>2. attempts'[frame].disposed = attempts[frame].disposed
    BY <1>10, <2>1 DEF ReloadPage, Orphaned, Attempt
  <2> QED
    BY <1>10, <2>1, <2>2 DEF ReloadPage, PageAt
<1> QED
  BY <1>4, <1>5, <1>6, <1>7, <1>8, <1>9, <1>10 DEF DocumentStep, StorageStep

LEMMA PortInit == Init => PortInvariant
BY DEF Init, PortInvariant, PortIsSentOnce, WorkbenchHasItsPort, PageAt

\* Whatever requests and answers crossed, a workbench that signs in by OAuth has
\* the live end of its own start's auth channel (start.ts:202-206,
\* DefaultCrossWindowChannel.ts:40-54).
THEOREM EveryWorkbenchHasItsPort == Spec => []WorkbenchHasItsPort
<1>1. BootTypeOK /\ PortInvariant /\ [Next]_vars => PortInvariant'
  BY StepKinds, PortWindowStep, PortPageStep
<1>2. PortInvariant => WorkbenchHasItsPort
  BY DEF PortInvariant
<1> QED
  BY <1>1, <1>2, InitTyping, Typing, PortInit, PTL DEF Spec
-----------------------------------------------------------------------------
(* The one answer of the first start. *)

\* What is on its way to a window without attempts, or to one whose first document
\* has not asked yet: nothing.
FirstStartIsFresh ==
  /\ attempts = <<>> => toHost = <<>>
  /\ frame = 1 /\ ~ attempts[1].reloaded /\ page.pc = "blank" =>
       toHost = <<>> /\ attempts[1].pc # "answered"

AnswerInvariant == FirstStartIsFresh /\ AnswerIsNotWasted

\* Only a request for the configuration makes an attempt answer.
LEMMA HearAnswered ==
  ASSUME NEW i \in DOMAIN attempts, attempts[i] \in Attempt, NEW m
  PROVE  /\ Hear(i, m).reloaded = attempts[i].reloaded
         /\ Hear(i, m).pc = "answered" =>
              \/ attempts[i].pc = "answered"
              \/ attempts[i].pc = "request" /\ m.key = "config-request"
<1> DEFINE a == attempts[i]
           b == AfterWait(a, m)
           c == HandleMessages(b, m)
<1>1. /\ b \in Attempt /\ b.reloaded = a.reloaded
      /\ b.pc = "answered" => a.pc = "answered" \/ (a.pc = "request" /\ m.key = "config-request")
  BY DEF AfterWait, Attempt
<1> HIDE DEF b
<1>2. (m.key = "error") \in BOOLEAN
  OBVIOUS
<1>3. c \in Attempt /\ c.reloaded = a.reloaded /\ c.pc = b.pc
  BY <1>1, <1>2 DEF HandleMessages, Attempt
<1> HIDE DEF c
<1>4. Hear(i, m) = SendPort(c, i, m)
  BY DEF Hear, b, c
<1>5. SendPort(c, i, m).reloaded = c.reloaded /\ SendPort(c, i, m).pc = c.pc
  BY <1>3 DEF SendPort, Attempt
<1> QED
  BY <1>1, <1>3, <1>4, <1>5

\* One message more is the last.
LEMMA LastOfTwo ==
  ASSUME NEW S, NEW t \in Seq(S), NEW u \in Seq(S), Len(u) = 1
  PROVE  Len(t) + 1 \in DOMAIN (t \o u) /\ (t \o u)[Len(t) + 1] = u[1]
<1>0. ASSUME NEW v \in Seq(S)
      PROVE  t \o v \in Seq(S) /\ Len(t \o v) = Len(t) + Len(v) /\ Len(t) \in Nat
  OBVIOUS
<1>1. t \o u \in Seq(S) /\ Len(t \o u) = Len(t) + 1 /\ Len(t) \in Nat
  BY <1>0
<1>2. DOMAIN (t \o u) = 1 .. Len(t) + 1
  BY <1>1
<1>3. Len(t) + 1 \in 1 .. Len(t) + 1
  BY <1>1
<1>4. \A k \in 1 .. Len(t) + 1 : (t \o u)[k] = IF k <= Len(t) THEN t[k] ELSE u[k - Len(t)]
  BY <1>1
<1>5. (t \o u)[Len(t) + 1] = u[Len(t) + 1 - Len(t)]
  BY <1>1, <1>3, <1>4
<1> QED
  BY <1>1, <1>2, <1>3, <1>5

\* Of the window's steps, only a message that is heard can answer; and it answers
\* the document that asks.
LEMMA AnswerWindowStep ==
  ASSUME BootTypeOK, AnswerInvariant, WindowStep
  PROVE  AnswerInvariant'
<1> USE DEF AnswerInvariant, FirstStartIsFresh, AnswerIsNotWasted
<1>0. attempts \in Seq(Attempt) /\ frame \in 0 .. Len(attempts) /\ toPage \in Seq(Reply)
  BY DEF BootTypeOK
<1>1. ASSUME NEW kind \in {"ping", "start"}, NEW c \in Configs, Begin(kind, c)
      PROVE  AnswerInvariant'
  <2>1. /\ attempts' # <<>> /\ page'.pc = "blank" /\ toHost' = toHost
        /\ frame' = Len(attempts) + 1
        /\ attempts'[Len(attempts) + 1].pc = "request"
    BY <1>0, <1>1 DEF Begin, PageAt
  <2>2. frame' = 1 => attempts = <<>>
    BY <1>0, <2>1
  <2> QED
    BY <2>1, <2>2
<1>2. CASE LeaveWindow \/ FollowFrame
  BY <1>2 DEF LeaveWindow, FollowFrame, WindowGone
<1>3. ASSUME RemoveFrame, DOMAIN attempts' = DOMAIN attempts, attempts # <<>>, attempts' \in Seq(Attempt)
      PROVE  AnswerInvariant'
  BY <1>0, <1>3 DEF RemoveFrame
<1>4. CASE Dispose
  <2>1. frame \in DOMAIN attempts /\ attempts # <<>> /\ attempts[frame] \in Attempt
    BY <1>0, <1>4 DEF Dispose
  <2>2. [Orphaned(attempts[frame]) EXCEPT !.disposed = TRUE, !.prevent = FALSE] \in Attempt
    BY <2>1, OrphanedTyping
  <2>3. attempts' \in Seq(Attempt) /\ DOMAIN attempts' = DOMAIN attempts /\ RemoveFrame
    BY <1>0, <1>4, <2>1, <2>2 DEF Dispose
  <2> QED
    BY <1>3, <2>1, <2>3
<1>5. CASE HostReceive
  <2> DEFINE m == Head(toHost)
  <2>1. /\ attempts' = [i \in DOMAIN attempts |-> Hear(i, m)]
        /\ toHost # <<>>
        /\ \/ RemoveFrame
           \/ /\ UNCHANGED <<frame, page>>
              /\ toPage' = IF frame = 0 \/ page.pc = "blank" THEN toPage
                           ELSE toPage \o Replies(attempts[frame], m)
    BY <1>5 DEF HostReceive
  <2> HIDE DEF m
  <2>2. \A i \in DOMAIN attempts : Hear(i, m) \in Attempt
    BY <1>0, HearTyping
  <2>3. attempts' \in Seq(Attempt) /\ Len(attempts') = Len(attempts) /\ attempts # <<>>
    BY <1>0, <2>1, <2>2
  <2>4. CASE RemoveFrame
    BY <1>0, <1>3, <2>3, <2>4
  <2>5. CASE /\ UNCHANGED <<frame, page>>
             /\ toPage' = IF frame = 0 \/ page.pc = "blank" THEN toPage
                          ELSE toPage \o Replies(attempts[frame], m)
    <3>1. attempts' # <<>>
      BY <1>0, <2>3
    <3>2. ASSUME frame = 1, ~ attempts'[1].reloaded, page.pc = "asking", attempts'[1].pc = "answered"
          PROVE  \E k \in DOMAIN toPage' : toPage'[k].key = "config"
      <4> DEFINE a == attempts[1]
                 r == Replies(a, m)
      <4>1. 1 \in DOMAIN attempts /\ a \in Attempt
        BY <1>0, <3>2
      <4>2. a.reloaded = attempts'[1].reloaded
            /\ (a.pc = "answered" \/ (a.pc = "request" /\ m.key = "config-request"))
        BY <2>1, <3>2, <4>1, HearAnswered
      <4>3. r \in Seq(Reply) /\ toPage' = toPage \o r
        BY <2>5, <3>2, <4>1, RepliesTyping
      <4>4. CASE a.pc = "answered"
        <5>1. PICK k \in DOMAIN toPage : toPage[k].key = "config"
          BY <3>2, <4>2, <4>4
        <5> HIDE DEF r
        <5>2. k \in DOMAIN toPage' /\ toPage'[k] = toPage[k]
          BY <1>0, <4>3, <5>1
        <5> QED
          BY <5>1, <5>2
      <4>5. CASE a.pc = "request" /\ m.key = "config-request"
        <5>1. r = <<[key |-> "config", cfg |-> a.cfg]>>
          BY <4>5 DEF Replies
        <5>2. Len(r) = 1 /\ r[1].key = "config"
          BY <5>1
        <5> HIDE DEF r
        <5>3. Len(toPage) + 1 \in DOMAIN toPage' /\ toPage'[Len(toPage) + 1] = r[1]
          BY <1>0, <4>3, <5>2, LastOfTwo
        <5> QED
          BY <5>2, <5>3
      <4> QED
        BY <4>2, <4>4, <4>5
    <3>3. ASSUME frame = 1, ~ attempts'[1].reloaded, page.pc = "blank" PROVE FALSE
      <4>1. 1 \in DOMAIN attempts /\ attempts[1] \in Attempt
        BY <1>0, <3>3
      <4>2. attempts[1].reloaded = attempts'[1].reloaded
        BY <2>1, <4>1, HearAnswered
      <4> QED
        BY <2>1, <3>3, <4>2
    <3> QED
      BY <2>5, <3>1, <3>2, <3>3
  <2> QED
    BY <2>1, <2>4, <2>5
<1>6. ASSUME NEW i \in DOMAIN attempts, HostTimeout(i) PROVE AnswerInvariant'
  <2>1. attempts[i] \in Attempt /\ attempts # <<>>
    BY <1>0, <1>6
  <2>2. [attempts[i] EXCEPT !.pc = "failed"] \in Attempt
    BY <2>1 DEF Attempt
  <2>3. /\ attempts' = [attempts EXCEPT ![i] = [attempts[i] EXCEPT !.pc = "failed"]]
        /\ toHost' = toHost
        /\ RemoveFrame \/ UNCHANGED <<frame, page, toPage>>
    BY <1>6 DEF HostTimeout
  <2>4. attempts' \in Seq(Attempt) /\ DOMAIN attempts' = DOMAIN attempts /\ attempts' # <<>>
    BY <1>0, <2>1, <2>2, <2>3
  <2>5. CASE RemoveFrame
    BY <1>3, <2>1, <2>4, <2>5
  <2>6. CASE UNCHANGED <<frame, page, toPage>>
    <3>1. 1 \in DOMAIN attempts =>
            /\ attempts'[1].reloaded = attempts[1].reloaded
            /\ attempts'[1].pc = "answered" => attempts[1].pc = "answered"
      BY <1>0, <2>1, <2>3 DEF Attempt
    <3> QED
      BY <1>0, <2>3, <2>4, <2>6, <3>1
  <2> QED
    BY <2>3, <2>5, <2>6
<1> QED
  BY <1>1, <1>2, <1>4, <1>5, <1>6 DEF WindowStep, PingWorkbench, StartWorkbench

\* A document gives the answer away only by taking it, or by being reloaded.
LEMMA AnswerPageStep ==
  ASSUME BootTypeOK, AnswerInvariant, DocumentStep \/ StorageStep \/ UNCHANGED vars
  PROVE  AnswerInvariant'
<1> USE DEF AnswerInvariant, FirstStartIsFresh, AnswerIsNotWasted
<1>0. /\ attempts \in Seq(Attempt) /\ frame \in 0 .. Len(attempts) /\ page \in Page
      /\ page.pc # "none" => frame # 0
  BY DEF BootTypeOK
<1>1. ASSUME page.pc # "none", UNCHANGED window, page'.pc \notin {"none", "blank", "asking"}
      PROVE  AnswerInvariant'
  BY <1>0, <1>1 DEF window
<1>2. CASE RequestConfig
  <2>1. /\ page.pc = "blank" /\ page'.pc = "asking" /\ UNCHANGED window
    BY <1>2 DEF RequestConfig, PageAt
  <2> QED
    BY <1>0, <2>1 DEF window
<1>3. CASE \/ UNCHANGED vars
           \/ UseWorkbench
           \/ \E key \in ExtensionMessage : ExtensionPosts(key)
  <2>1. CASE UNCHANGED vars
    BY <2>1 DEF vars, window
  <2>2. CASE UseWorkbench \/ \E key \in ExtensionMessage : ExtensionPosts(key)
    BY <1>1, <2>2 DEF UseWorkbench, ExtensionPosts
  <2> QED
    BY <1>3, <2>1, <2>2
<1>4. CASE \/ RefuseStorage \/ HandleEmbedderChange \/ PurgeClientStorage \/ PurgeFails
           \/ CheckCors \/ LoadScripts \/ PageFails
           \/ KeepExtensions \/ ClearExtensions \/ ClearFails \/ SaveFails
  <2>1. page.pc # "none" /\ UNCHANGED window
    BY <1>4
    DEF RefuseStorage, HandleEmbedderChange, PurgeClientStorage, PurgeFails, CheckCors, LoadScripts,
      PageFails, KeepExtensions, ClearExtensions, ClearFails, SaveFails, CreateWorkbench
  <2>2. page'.pc \notin {"none", "blank", "asking"}
    BY <1>0, <1>4
    DEF RefuseStorage, HandleEmbedderChange, PurgeClientStorage, PurgeFails, CheckCors, LoadScripts,
      PageFails, KeepExtensions, ClearExtensions, ClearFails, SaveFails, CreateWorkbench, Die, GoOn,
      Page
  <2> QED
    BY <1>1, <2>1, <2>2
<1>5. CASE MissMessage
  <2>1. /\ toPage # <<>> /\ toPage' = Tail(toPage) /\ UNCHANGED <<frame, page, toHost>>
        /\ ~ (page.pc = "asking" /\ Head(toPage).key = "config")
        /\ attempts' = attempts \/ attempts' = [attempts EXCEPT ![frame] = Orphaned(@)]
    BY <1>5 DEF MissMessage
  <2>2. ASSUME 1 \in DOMAIN attempts
        PROVE  attempts'[1].reloaded = attempts[1].reloaded /\ attempts'[1].pc = attempts[1].pc
    <3>1. attempts[1] \in Attempt
      BY <1>0, <2>2
    <3>2. /\ Orphaned(attempts[1]).reloaded = attempts[1].reloaded
          /\ Orphaned(attempts[1]).pc = attempts[1].pc
      BY <3>1 DEF Orphaned, Attempt
    <3>3. attempts'[1] = attempts[1] \/ attempts'[1] = Orphaned(attempts[1])
      BY <1>0, <2>1, <2>2
    <3> QED
      BY <3>2, <3>3
  <2>3. attempts' = <<>> => attempts = <<>>
    BY <1>0, <2>1
  <2>4. ASSUME page.pc = "asking", NEW k \in DOMAIN toPage, toPage[k].key = "config"
        PROVE  \E j \in DOMAIN toPage' : toPage'[j].key = "config"
    <3>1. k # 1 /\ toPage \in Seq(Reply)
      BY <2>1, <2>4, TailMessages DEF BootTypeOK
    <3>2. k - 1 \in DOMAIN toPage' /\ toPage'[k - 1] = toPage[k]
      BY <2>1, <2>4, <3>1
    <3> QED
      BY <2>4, <3>2
  <2>5. frame = 1 => 1 \in DOMAIN attempts
    BY <1>0
  <2> QED
    BY <2>1, <2>2, <2>3, <2>4, <2>5
<1>6. CASE ReceivePort
  <2>1. /\ page.pc = "porting" /\ page'.pc = "cleaning" /\ frame' = frame /\ frame # 0
        /\ attempts' = [attempts EXCEPT ![frame].port = "page"]
    BY <1>0, <1>6 DEF ReceivePort, GoOn, Page
  <2> QED
    BY <1>0, <2>1
<1>7. CASE ReloadPage
  <2>1. /\ page'.pc = "blank" /\ frame' = frame /\ frame # 0
        /\ attempts' = [attempts EXCEPT ![frame] = [Orphaned(@) EXCEPT !.reloaded = TRUE]]
    BY <1>0, <1>7 DEF ReloadPage, PageAt
  <2>2. frame \in DOMAIN attempts /\ attempts[frame] \in Attempt
    BY <1>0, <2>1
  <2>3. attempts'[frame].reloaded
    BY <2>1, <2>2 DEF Orphaned, Attempt
  <2> QED
    BY <1>0, <2>1, <2>2, <2>3
<1> QED
  BY <1>2, <1>3, <1>4, <1>5, <1>6, <1>7 DEF DocumentStep, StorageStep

LEMMA AnswerInit == Init => AnswerInvariant
BY DEF Init, AnswerInvariant, FirstStartIsFresh, AnswerIsNotWasted, PageAt

\* While the document of a window's first start asks for its configuration, the one
\* answer has not been given or is on its way, unless the iframe was reloaded
\* (index.ts:61-68).
THEOREM FirstAnswerIsNotWasted == Spec => []AnswerIsNotWasted
<1>1. BootTypeOK /\ AnswerInvariant /\ [Next]_vars => AnswerInvariant'
  BY StepKinds, AnswerWindowStep, AnswerPageStep
<1>2. AnswerInvariant => AnswerIsNotWasted
  BY DEF AnswerInvariant
<1> QED
  BY <1>1, <1>2, InitTyping, Typing, AnswerInit, PTL DEF Spec

=============================================================================
