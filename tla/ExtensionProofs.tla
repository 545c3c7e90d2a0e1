-------------------------- MODULE ExtensionProofs --------------------------
(***************************************************************************)
(* Proofs about four parts of the extension that share no state: the ref   *)
(* that a branch command loads, for any names, any typing and any number   *)
(* of branches that others create and delete; the files of the merge       *)
(* request's base, for any number of loads of any refs; the token that the *)
(* extension has, for any number of changes, readers and requests; and     *)
(* what calls of the file system that overlap make of a folder, for any    *)
(* number of files and calls.                                              *)
(***************************************************************************)
EXTENDS BranchCommands, MergeRequest, Tokens, FileRequests,
        FiniteSetTheorems, WellFoundedInduction, TLAPS

-----------------------------------------------------------------------------
(* Branch commands. *)

\* The names that are branches, or were when the command began.
Known == heads \union lost

AnyName == Name \union {NoName}

Job ==
  [command : {"checkout", "create", "createFrom", "delete"}, ref : AnyName,
   stage : {"picking", "naming", "checking", "confirming", "deleting", "loading", "metadata"}]

BranchTypeOK ==
  /\ picker \in [items : SUBSET Item, shown : AnyName, typed : AnyName, debounced : BOOLEAN,
                 running : SUBSET AnyName, queued : SUBSET AnyName]
  /\ box \in [open : BOOLEAN, submitted : AnyName, answer : {"none", "created", "error"}]
  /\ job # NoJob => job \in Job
  /\ loaded.name \in Name
  /\ heads \subseteq Name /\ lost \subseteq Name

\* What the picker lists: branches that were there when it looked, the current ref
\* unless one is to be checked out, and there a prompt instead.
ItemIsKnown(item, command) ==
  /\ item.type = "existing-branch" => item.ref \in Known
  /\ command = "checkout" => item.type # "current"
  /\ command # "checkout" => item.ref # NoName

\* What a command goes by is known at each stage: what it lists, what the prompt has
\* created; and that only a deletion gets to the deleting.
ChoiceIsKnown ==
  /\ At("picking") =>
       job.command # "create" /\ \A item \in picker.items : ItemIsKnown(item, job.command)
  /\ At("naming") /\ box.answer = "created" => box.submitted \in Known \/ project.empty
  /\ box.answer # "none" => box.submitted # NoName
  /\ At("checking") \/ At("confirming") \/ At("deleting") => job.command = "delete"
  /\ job # NoJob /\ job.stage \notin {"picking", "naming"} => job.ref # NoName

RefInvariant == BranchTypeOK /\ ChoiceIsKnown /\ ExistingRefIsLoaded

-----------------------------------------------------------------------------

\* Before any search, and after one, the picker lists what is known.
LEMMA ItemsAreKnown ==
  ASSUME BranchTypeOK, NEW command \in {"checkout", "createFrom", "delete"}
  PROVE  /\ DefaultItems(command) \subseteq Item
         /\ \A item \in DefaultItems(command) : ItemIsKnown(item, command)
         /\ \A text : /\ SearchItems(command, text) \subseteq Item
                      /\ \A item \in SearchItems(command, text) : ItemIsKnown(item, command)
<1>1. Current \in Name /\ NoName \notin Name
  BY NameAssumption DEF Current, BranchTypeOK
<1>2. /\ DefaultItems(command) \subseteq Item
      /\ \A item \in DefaultItems(command) : ItemIsKnown(item, command)
  BY <1>1 DEF DefaultItems, Named, Item, ItemIsKnown
<1>3. ASSUME NEW text
      PROVE  /\ SearchItems(command, text) \subseteq Item
             /\ \A item \in SearchItems(command, text) : ItemIsKnown(item, command)
  <2>1. Found(text) \subseteq heads /\ heads \subseteq Name
    BY DEF Found, BranchTypeOK
  <2>2. /\ Named("existing-branch", Found(text)) \subseteq Item
        /\ \A item \in Named("existing-branch", Found(text)) : ItemIsKnown(item, command)
    BY <1>1, <2>1 DEF Named, Item, ItemIsKnown, Known
  <2>3. /\ Named("not-found", {NoName}) \subseteq Item
        /\ command = "checkout" => \A item \in Named("not-found", {NoName}) : ItemIsKnown(item, command)
    BY DEF Named, Item, ItemIsKnown
  <2> QED
    BY <1>2, <2>2, <2>3 DEF SearchItems
<1> QED
  BY <1>2, <1>3

\* The picker.
LEMMA PickerStep ==
  ASSUME RefInvariant,
         \/ \E text \in Text : Type(text)
         \/ Debounced \/ SearchEnds(TRUE) \/ SearchEnds(FALSE) \/ HidePicker
  PROVE  RefInvariant'
<1> USE DEF RefInvariant, ChoiceIsKnown, ExistingRefIsLoaded, At, Known, ItemIsKnown, remote, Current
<1>1. picker \in [items : SUBSET Item, shown : AnyName, typed : AnyName, debounced : BOOLEAN,
                  running : SUBSET AnyName, queued : SUBSET AnyName]
  BY DEF BranchTypeOK
<1>2. ASSUME NEW text \in Text, Type(text) PROVE RefInvariant'
  <2>1. picker' \in [items : SUBSET Item, shown : AnyName, typed : AnyName, debounced : BOOLEAN,
                     running : SUBSET AnyName, queued : SUBSET AnyName]
        /\ picker'.items = picker.items
    BY <1>1, <1>2, NameAssumption DEF Type, AnyName
  <2> QED
    BY <1>2, <2>1 DEF Type, BranchTypeOK
<1>3. CASE Debounced
  <2>1. picker' \in [items : SUBSET Item, shown : AnyName, typed : AnyName, debounced : BOOLEAN,
                     running : SUBSET AnyName, queued : SUBSET AnyName]
        /\ picker'.items = picker.items
    BY <1>1, <1>3 DEF Debounced, Queued
  <2> QED
    BY <1>3, <2>1 DEF Debounced, BranchTypeOK
<1>4. ASSUME NEW answered \in BOOLEAN, SearchEnds(answered) PROVE RefInvariant'
  <2>1. /\ job # NoJob /\ job \in Job /\ job.stage = "picking"
        /\ job.command \in {"checkout", "createFrom", "delete"}
    BY <1>4 DEF SearchEnds, BranchTypeOK, Job
  <2>2. PICK text \in picker.running :
          picker' = [picker EXCEPT !.running = picker.queued, !.queued = {}, !.shown = text,
                       !.items = IF answered THEN SearchItems(job.command, text) ELSE @]
    BY <1>4 DEF SearchEnds
  <2>3. picker' \in [items : SUBSET Item, shown : AnyName, typed : AnyName, debounced : BOOLEAN,
                     running : SUBSET AnyName, queued : SUBSET AnyName]
        /\ picker'.items \in {picker.items, SearchItems(job.command, text)}
    BY <1>1, <2>1, <2>2, ItemsAreKnown
  <2>4. \A item \in picker'.items : ItemIsKnown(item, job.command)
    <3>1. \A item \in SearchItems(job.command, text) : ItemIsKnown(item, job.command)
      BY <2>1, ItemsAreKnown
    <3>2. \A item \in picker.items : ItemIsKnown(item, job.command)
      BY <2>1
    <3> QED
      BY <2>3, <3>1, <3>2
  <2> QED
    BY <1>4, <2>1, <2>3, <2>4 DEF SearchEnds, BranchTypeOK
<1>5. CASE HidePicker
  BY <1>5 DEF HidePicker, BranchTypeOK, Closed, AnyName
<1> QED
  BY <1>2, <1>3, <1>4, <1>5

\* A command begins, and the user selects an item.
LEMMA CommandStep ==
  ASSUME RefInvariant,
         \/ \E command \in {"checkout", "create", "createFrom", "delete"} : Run(command)
         \/ \E item \in Item : Accept(item)
  PROVE  RefInvariant'
<1> USE DEF RefInvariant, ChoiceIsKnown, ExistingRefIsLoaded, At, Known, remote, Current
<1>1. ASSUME NEW command \in {"checkout", "create", "createFrom", "delete"}, Run(command)
      PROVE  RefInvariant'
  <2>1. Begun(command) \in Job
    BY DEF Begun, Job, AnyName
  <2>2. CASE command = "create"
    BY <1>1, <2>1, <2>2 DEF Run, Begun, BranchTypeOK, Closed, NoBox, AnyName
  <2>3. CASE command # "create"
    <3>1. /\ DefaultItems(command) \subseteq Item
          /\ \A item \in DefaultItems(command) : ItemIsKnown(item, command)
      BY <2>3, ItemsAreKnown
    <3>2. \A item \in DefaultItems(command) : ItemIsKnown(item, command)'
      BY <1>1, <3>1 DEF ItemIsKnown, Run, DefaultItems, Named
    <3>3. picker' \in [items : SUBSET Item, shown : AnyName, typed : AnyName, debounced : BOOLEAN,
                       running : SUBSET AnyName, queued : SUBSET AnyName]
          /\ picker'.items = DefaultItems(command)
      BY <1>1, <2>3, <3>1 DEF Run, Opened, Closed, AnyName
    <3> QED
      BY <1>1, <2>1, <2>3, <3>2, <3>3 DEF Run, Begun, BranchTypeOK, NoBox, AnyName
  <2> QED
    BY <2>2, <2>3
<1>2. ASSUME NEW item \in Item, Accept(item) PROVE RefInvariant'
  <2>1. job \in Job /\ job.stage = "picking" /\ ItemIsKnown(item, job.command) /\ job.command # "create"
    BY <1>2 DEF Accept, BranchTypeOK
  <2>2. picker' = Closed /\ UNCHANGED <<remote, loaded>>
    BY <1>2 DEF Accept
  <2>3. \/ job' = NoJob /\ UNCHANGED box
        \/ Prompt
        \/ /\ job.command = "delete" /\ item.ref # NoName /\ UNCHANGED box
           /\ job' = [job EXCEPT !.stage = "checking", !.ref = item.ref]
        \/ /\ job.command = "checkout" /\ item.type = "existing-branch" /\ UNCHANGED box
           /\ job' = [job EXCEPT !.stage = "loading", !.ref = item.ref]
    BY <1>2, <2>1 DEF Accept, Job, Item, ItemIsKnown
  <2>4. item.ref \in AnyName /\ (item.type = "existing-branch" => item.ref \in Name /\ item.ref # NoName)
    BY <2>1, NameAssumption DEF Item, ItemIsKnown, BranchTypeOK, AnyName
  <2>5. CASE job' = NoJob /\ UNCHANGED box
    BY <2>2, <2>5 DEF BranchTypeOK, Closed, AnyName
  <2>6. CASE Prompt
    BY <2>1, <2>2, <2>6 DEF Prompt, NoBox, BranchTypeOK, Closed, AnyName, Job
  <2>7. CASE /\ job.command = "delete" /\ item.ref # NoName /\ UNCHANGED box
             /\ job' = [job EXCEPT !.stage = "checking", !.ref = item.ref]
    BY <2>1, <2>2, <2>4, <2>7 DEF BranchTypeOK, Closed, AnyName, Job
  <2>8. CASE /\ job.command = "checkout" /\ item.type = "existing-branch" /\ UNCHANGED box
             /\ job' = [job EXCEPT !.stage = "loading", !.ref = item.ref]
    BY <2>1, <2>2, <2>4, <2>8 DEF BranchTypeOK, Closed, AnyName, Job, ItemIsKnown
  <2> QED
    BY <2>3, <2>5, <2>6, <2>7, <2>8
<1> QED
  BY <1>1, <1>2

\* The prompt and the branch it creates.
LEMMA BoxStep ==
  ASSUME RefInvariant,
         \/ \E name \in Name : Submit(name)
         \/ \E answer \in {"created", "error"} : Create(answer)
         \/ CreationEnds \/ HideBox
  PROVE  RefInvariant'
<1> USE DEF RefInvariant, ChoiceIsKnown, ExistingRefIsLoaded, At, Known, ItemIsKnown, remote, Current
<1>1. box \in [open : BOOLEAN, submitted : AnyName, answer : {"none", "created", "error"}]
      /\ NoName \notin Name
  BY NameAssumption DEF BranchTypeOK
<1>2. ASSUME NEW name \in Name, Submit(name) PROVE RefInvariant'
  BY <1>1, <1>2 DEF Submit, BranchTypeOK, AnyName
<1>3. ASSUME NEW answer \in {"created", "error"}, Create(answer) PROVE RefInvariant'
  <2>1. heads' \subseteq Name /\ heads \subseteq heads' /\ box'.submitted = box.submitted
        /\ box' \in [open : BOOLEAN, submitted : AnyName, answer : {"none", "created", "error"}]
        /\ (box'.answer = "created" => box.submitted \in heads')
    BY <1>1, <1>3 DEF Create, BranchTypeOK, AnyName
  <2> QED
    BY <1>3, <2>1 DEF Create, BranchTypeOK
<1>4. CASE CreationEnds
  <2>1. box' \in [open : BOOLEAN, submitted : AnyName, answer : {"none", "created", "error"}]
        /\ box'.answer = "none" /\ UNCHANGED <<remote, picker, loaded>>
    BY <1>1, <1>4 DEF CreationEnds, AnyName
  <2>2. CASE job' = job
    BY <2>1, <2>2 DEF BranchTypeOK
  <2>3. CASE box.answer = "created" /\ At("naming")
             /\ job' = [job EXCEPT !.stage = "loading", !.ref = box.submitted]
    BY <1>1, <2>1, <2>3 DEF BranchTypeOK, Job
  <2> QED
    BY <1>4, <2>2, <2>3 DEF CreationEnds, IsAccepted
<1>5. CASE HideBox
  BY <1>1, <1>5 DEF HideBox, BranchTypeOK
<1> QED
  BY <1>2, <1>3, <1>4, <1>5

\* The deletion, the load, and what others do.
LEMMA LoadStep ==
  ASSUME RefInvariant,
         \/ CheckProtected \/ ConfirmDeletion \/ Delete
         \/ Keep \/ LoadEmpty \/ FetchBranch \/ FetchFails \/ FetchMetadata
         \/ \E name \in Name : OtherCreates(name) \/ OtherDeletes(name)
         \/ UNCHANGED branchVars
  PROVE  RefInvariant'
<1> USE DEF RefInvariant, ChoiceIsKnown, ExistingRefIsLoaded, At, Known, ItemIsKnown, remote, Current
<1>1. CASE CheckProtected \/ ConfirmDeletion
  BY <1>1 DEF CheckProtected, ConfirmDeletion, Goes, BranchTypeOK, Job
<1>2. CASE Delete
  <2>1. job # NoJob /\ job \in Job /\ job.command = "delete" /\ DefaultName \in Name /\ DefaultName # NoName
    BY <1>2, NameAssumption DEF Delete, BranchTypeOK
  <2>2. /\ UNCHANGED <<project, lost, picker, box, loaded>> /\ heads' \subseteq heads
        /\ \/ job' = NoJob
           \/ job' = [job EXCEPT !.stage = "loading", !.ref = DefaultName]
    BY <1>2, <2>1 DEF Delete, NextRef
  <2>3. BranchTypeOK'
    BY <2>1, <2>2 DEF BranchTypeOK, Job, AnyName
  <2>4. CASE job' = NoJob
    BY <2>2, <2>3, <2>4
  <2>5. CASE job' = [job EXCEPT !.stage = "loading", !.ref = DefaultName]
    <3>1. job'.stage = "loading" /\ job'.command = "delete" /\ job'.ref = DefaultName
      BY <2>1, <2>5 DEF Job
    <3> QED
      BY <2>1, <2>2, <2>3, <3>1
  <2> QED
    BY <2>2, <2>4, <2>5
<1>3. CASE Keep \/ LoadEmpty \/ FetchBranch \/ FetchFails \/ FetchMetadata
  <2>1. UNCHANGED <<remote, picker, box>>
    BY <1>3 DEF Keep, LoadEmpty, FetchBranch, FetchFails, FetchMetadata
  <2>2. job # NoJob /\ job \in Job /\ job.ref \in Name
    BY <1>3 DEF Keep, LoadEmpty, FetchBranch, FetchFails, FetchMetadata, BranchTypeOK, Job, AnyName
  <2>3. \/ job' = NoJob /\ (loaded' = loaded \/ loaded'.name = job.ref)
        \/ job' = [job EXCEPT !.stage = "metadata"] /\ loaded' = loaded
    BY <1>3 DEF Keep, LoadEmpty, FetchBranch, FetchFails, FetchMetadata, Loads, Goes
  <2>4. CASE job' = NoJob /\ (loaded' = loaded \/ loaded'.name = job.ref)
    BY <2>1, <2>2, <2>4 DEF BranchTypeOK
  <2>5. CASE job' = [job EXCEPT !.stage = "metadata"] /\ loaded' = loaded
    <3>1. job' \in Job /\ job'.stage = "metadata" /\ job'.ref = job.ref
      BY <2>2, <2>5 DEF Job
    <3>2. job.ref # NoName
      BY <2>2, NameAssumption
    <3>3. BranchTypeOK'
      BY <2>1, <2>5, <3>1 DEF BranchTypeOK
    <3> QED
      BY <2>1, <3>1, <3>2, <3>3
  <2> QED
    BY <2>3, <2>4, <2>5
<1>4. ASSUME NEW name \in Name, OtherCreates(name) \/ OtherDeletes(name) PROVE RefInvariant'
  BY <1>4 DEF OtherCreates, OtherDeletes, BranchTypeOK
<1>5. CASE UNCHANGED branchVars
  BY <1>5 DEF branchVars, BranchTypeOK
<1> QED
  BY <1>1, <1>2, <1>3, <1>4, <1>5

LEMMA BranchesInit == BranchInit => RefInvariant
BY NameAssumption DEF BranchInit, RefInvariant, ChoiceIsKnown, ExistingRefIsLoaded, BranchTypeOK, At,
  Closed, NoBox, AnyName

\* Whatever is typed, answered late, created and deleted meanwhile, a command loads
\* a ref that is or was there, or that is loaded (branchUtilities.ts:123-226).
THEOREM LoadedRefExists == BranchSpec => []ExistingRefIsLoaded
<1>1. RefInvariant /\ [BranchNext]_branchVars => RefInvariant'
  BY PickerStep, CommandStep, BoxStep, LoadStep DEF BranchNext
<1>2. RefInvariant => ExistingRefIsLoaded
  BY DEF RefInvariant
<1> QED
  BY <1>1, <1>2, BranchesInit, PTL DEF BranchSpec

-----------------------------------------------------------------------------
(* The base of the merge request. *)

\* Where a load is.
Phase == {"unborn", "starting", "opening", "asking", "naming", "comparing", "done", "failed"}

\* The newest load, once it has come to registering, has the base or told why not;
\* nothing takes it from it but a newer load, before which it is not the newest.
BaseInvariant ==
  /\ newest \in MrLoad
  /\ phase \in [MrLoad -> Phase]
  /\ base \in MrLoad \union {NoMrLoad}
  /\ phase[newest] = "comparing" \/ (phase[newest] = "done" /\ onMr[newest]) =>
       base = newest \/ newest \in told

LEMMA BaseInit == MergeRequestInit => BaseInvariant
<1>1. 1 \in MrLoad
  BY MaxReloadsAssumption DEF MrLoad
<1> QED
  BY <1>1 DEF MergeRequestInit, BaseInvariant, Phase, NoMrLoad

LEMMA BaseStep == BaseInvariant /\ [MergeRequestNext]_mrVars => BaseInvariant'
<1> SUFFICES ASSUME BaseInvariant, [MergeRequestNext]_mrVars PROVE BaseInvariant'
  OBVIOUS
<1> USE MaxReloadsAssumption DEF BaseInvariant, Moves, Phase
<1>1. CASE LoadAgain
  <2>1. newest + 1 \in MrLoad
    BY <1>1 DEF LoadAgain, MrLoad
  <2> QED
    BY <1>1, <2>1 DEF LoadAgain
<1>2. ASSUME NEW l \in MrLoad, RegisterFiles(l) \/ LoadFails(l) \/ Ready(l) \/ ChangesCome(l)
      PROVE  BaseInvariant'
  BY <1>2 DEF RegisterFiles, LoadFails, Ready, ChangesCome
<1>3. ASSUME NEW l \in MrLoad, ChangesFail(l) PROVE BaseInvariant'
  BY <1>3 DEF ChangesFail
<1>4. ASSUME NEW l \in MrLoad, RegisterBase(l) PROVE BaseInvariant'
  <2>1. NoMrLoad \notin MrLoad
    BY DEF NoMrLoad, MrLoad
  <2>2. CASE base = NoMrLoad
    BY <1>4, <2>1, <2>2 DEF RegisterBase, AfterChanges
  <2>3. CASE base # NoMrLoad
    BY <1>4, <2>3 DEF RegisterBase
  <2> QED
    BY <2>2, <2>3
<1>5. ASSUME NEW l \in MrLoad, OpenChanges(l) PROVE BaseInvariant'
  BY <1>5 DEF OpenChanges
<1>6. CASE LookForInitFile \/ TouchInitFile \/ UNCHANGED mrVars
  BY <1>6 DEF LookForInitFile, TouchInitFile, mrVars
<1> QED
  BY <1>1, <1>2, <1>3, <1>4, <1>5, <1>6 DEF MergeRequestNext

\* However late older loads register, the newest load on the merge request's branch
\* ends with its own base, or with a warning (initMergeRequestContext.ts:117-146).
THEOREM BaseStaysOwn == MergeRequestSpec => []BaseIsOwnOrTold
<1>1. BaseInvariant => BaseIsOwnOrTold
  BY DEF BaseInvariant, BaseIsOwnOrTold
<1> QED
  BY <1>1, BaseInit, BaseStep, PTL DEF MergeRequestSpec

-----------------------------------------------------------------------------
(* Tokens. *)

\* A message from the embedder, and an answer to the extension.
ToPage == {Changed} \union {Response(version) : version \in Versions}

Answer == [reader : Reader, token : Versions \union {Failed}]

TokenTypeOK ==
  /\ token \in Versions
  /\ requests \in Nat /\ changes \in Nat
  /\ posted \in Seq(ToPage)
  /\ waiting \in Seq(Reader)
  /\ answers \in Seq(Answer)
  /\ stage \in {"inactive", "executor", "provider", "active", "failed"}
  /\ session \in Versions \union {NoSession}
  /\ api \in [stage : {"none", "headers", "sent"},
              token : Versions \union {NoSession}, since : Int]
  /\ missed \in BOOLEAN /\ unread \in BOOLEAN

\* The changes that the page is told of after message k.
ChangesAfter(messages, k) == {i \in DOMAIN messages : i > k /\ messages[i] = Changed}

\* A token on its way is the one there was when it was posted.
InOrder(messages, version) ==
  \A k \in DOMAIN messages :
    messages[k].key = "response" =>
      messages[k].token = version - Cardinality(ChangesAfter(messages, k))

Waits(readers, reader) == \E i \in DOMAIN readers : readers[i] = reader

Answered(all, reader) == \E i \in DOMAIN all : all[i].reader = reader

\* The reader reads at most once at a time.
Once(readers, all, reader) ==
  /\ \A i, j \in DOMAIN readers : readers[i] = reader /\ readers[j] = reader => i = j
  /\ \A i, j \in DOMAIN all : all[i].reader = reader /\ all[j].reader = reader => i = j
  /\ ~ (Waits(readers, reader) /\ Answered(all, reader))

Reads(readers, all, reader) == Waits(readers, reader) \/ Answered(all, reader)

\* Who reads, and when.
ReadersTakeTurns ==
  /\ \A reader \in {"executor", "provider", "api"} : Once(waiting, answers, reader)
  /\ Reads(waiting, answers, "executor") => stage = "executor"
  /\ Reads(waiting, answers, "provider") => stage = "provider"
  /\ Reads(waiting, answers, "update") => stage = "active"
  /\ Reads(waiting, answers, "api") => api.stage = "headers"

\* Nobody has a token of the future.
TokensArePast ==
  /\ session # NoSession => session <= token
  /\ stage = "active" => session # NoSession
  /\ \A i \in DOMAIN answers : answers[i].token = Failed \/ answers[i].token <= token

\* The update that is answered last.
LastUpdate(all, i) ==
  all[i].reader = "update" /\ \A j \in DOMAIN all : j > i => all[j].reader # "update"

\* What the session gets is no older than what the extension was told of.
SessionKeepsUp ==
  ~ missed =>
    /\ stage = "provider" => \A i \in DOMAIN answers :
         answers[i].reader = "provider" => answers[i].token >= Told
    /\ stage = "active" /\ ~ Waits(waiting, "update") =>
         /\ \A i \in DOMAIN answers : LastUpdate(answers, i) => answers[i].token >= Told
         /\ ~ Answered(answers, "update") /\ ~ unread => session >= Told

\* The same for a request.
HeadersKeepUp ==
  /\ api.stage # "none" => api.since <= Told
  /\ api.stage = "headers" => \A i \in DOMAIN answers :
       answers[i].reader = "api" => answers[i].token >= api.since
  /\ RequestsKeepUp

TokenInvariant ==
  /\ TokenTypeOK /\ InOrder(posted, token) /\ ReadersTakeTurns /\ TokensArePast
  /\ SessionKeepsUp /\ HeadersKeepUp

-----------------------------------------------------------------------------
(* Those who are answered. *)

\* One of some numbers is the least.
LEMMA LeastNumber ==
  ASSUME NEW S \in SUBSET Nat, S # {}
  PROVE  \E n \in S : \A m \in S : n <= m
<1> DEFINE Less == OpToRel(<, Nat)
<1>1. \A i, j \in Nat : <<i, j>> \in Less <=> i < j
  BY DEF OpToRel
<1>2. IsWellFoundedOn(Less, Nat)
  BY NatLessThanWellFounded
<1> HIDE DEF Less
<1>3. PICK n \in S : \A m \in S : ~ (<<m, n>> \in Less)
  BY <1>2, WFMin
<1>4. ASSUME NEW m \in S
      PROVE  n <= m
  <2>1. m \in Nat /\ n \in Nat
    OBVIOUS
  <2>2. ~ (m < n)
    BY <1>1, <1>3, <2>1
  <2> QED
    BY <2>1, <2>2
<1> QED
  BY <1>4

\* f lists the remote ones of the first n readers and of fewer.
IsRemote(readers, f, n) ==
  f = [i \in 0 .. n |->
         IF i = 0 THEN <<>>
         ELSE IF readers[i] = "login" THEN f[i - 1] ELSE Append(f[i - 1], readers[i])]

LEMMA RemoteExists ==
  ASSUME NEW readers \in Seq(Reader)
  PROVE  \E f : IsRemote(readers, f, Len(readers))
<1> DEFINE S == {n \in 0 .. Len(readers) : ~ \E f : IsRemote(readers, f, n)}
<1>1. Len(readers) \in Nat /\ S \subseteq Nat
  OBVIOUS
<1>2. SUFFICES ASSUME S # {} PROVE FALSE
  BY <1>1
<1> HIDE DEF S
<1>3. PICK n \in S : \A m \in S : n <= m
  BY <1>1, <1>2, LeastNumber
<1>4. n \in 0 .. Len(readers) /\ ~ \E f : IsRemote(readers, f, n)
  BY <1>3 DEF S
<1>5. n # 0
  <2> DEFINE f == [i \in 0 .. 0 |-> <<>>]
  <2>1. IsRemote(readers, f, 0)
    BY DEF IsRemote
  <2> QED
    BY <1>4, <2>1
<1>6. n - 1 \in 0 .. Len(readers) /\ n - 1 \notin S
  BY <1>1, <1>3, <1>4, <1>5
<1>7. PICK f : IsRemote(readers, f, n - 1)
  BY <1>6 DEF S
<1> DEFINE Step(g, i) ==
      IF i = 0 THEN <<>>
      ELSE IF readers[i] = "login" THEN g[i - 1] ELSE Append(g[i - 1], readers[i])
    g == [i \in 0 .. n |-> IF i = n THEN Step(f, n) ELSE f[i]]
<1>8. ASSUME NEW i \in 0 .. n
      PROVE  g[i] = Step(g, i)
  <2>1. i # 0 => i - 1 \in 0 .. n - 1 /\ g[i - 1] = f[i - 1]
    BY <1>1, <1>4, <1>5
  <2>2. g[i] = Step(f, i)
    <3>1. CASE i = n
      BY <3>1
    <3>2. CASE i # n
      <4>1. i \in 0 .. n - 1 /\ g[i] = f[i]
        BY <1>1, <1>4, <3>2
      <4> QED
        BY <1>7, <4>1 DEF IsRemote
    <3> QED
      BY <3>1, <3>2
  <2> HIDE DEF g
  <2> QED
    BY <2>1, <2>2
<1>9. IsRemote(readers, g, n)
  BY <1>8 DEF IsRemote
<1> QED
  BY <1>4, <1>9

LEMMA RemoteSteps ==
  ASSUME NEW readers \in Seq(Reader)
  PROVE  \E f : IsRemote(readers, f, Len(readers)) /\ Remote(readers) = f[Len(readers)]
<1> DEFINE f == CHOOSE f : f = [i \in 0 .. Len(readers) |->
         IF i = 0 THEN <<>>
         ELSE IF readers[i] = "login" THEN f[i - 1] ELSE Append(f[i - 1], readers[i])]
<1>1. Remote(readers) = f[Len(readers)]
  BY Zenon DEF Remote
<1>2. \E g : g = [i \in 0 .. Len(readers) |->
         IF i = 0 THEN <<>>
         ELSE IF readers[i] = "login" THEN g[i - 1] ELSE Append(g[i - 1], readers[i])]
  BY RemoteExists DEF IsRemote
<1>3. f = [i \in 0 .. Len(readers) |->
         IF i = 0 THEN <<>>
         ELSE IF readers[i] = "login" THEN f[i - 1] ELSE Append(f[i - 1], readers[i])]
  BY <1>2, Zenon
<1> HIDE DEF f
<1>4. IsRemote(readers, f, Len(readers))
  BY <1>3 DEF IsRemote
<1> QED
  BY <1>1, <1>4

\* t has those of the first n readers that are not "login", each as often.
Lists(readers, t, n) ==
  /\ t \in Seq(Reader)
  /\ \A k \in DOMAIN t : \E i \in 1 .. n : readers[i] = t[k]
  /\ \A i \in 1 .. n : readers[i] # "login" => \E k \in DOMAIN t : t[k] = readers[i]
  /\ \A reader \in Reader :
       (\A i, j \in 1 .. n : readers[i] = reader /\ readers[j] = reader => i = j) =>
         \A k, l \in DOMAIN t : t[k] = reader /\ t[l] = reader => k = l

LEMMA ListsMore ==
  ASSUME NEW readers \in Seq(Reader), NEW n \in 1 .. Len(readers),
         NEW t, Lists(readers, t, n - 1), readers[n] # "login"
  PROVE  Lists(readers, Append(t, readers[n]), n)
<1> DEFINE u == Append(t, readers[n])
<1>1. n \in Nat /\ n > 0 /\ 1 .. n = (1 .. n - 1) \union {n} /\ n \notin 1 .. n - 1
  OBVIOUS
<1>2. t \in Seq(Reader) /\ readers[n] \in Reader
  BY DEF Lists
<1>3. u \in Seq(Reader) /\ Len(u) = Len(t) + 1
  BY <1>2
<1>4. /\ DOMAIN u = DOMAIN t \union {Len(t) + 1} /\ Len(t) + 1 \notin DOMAIN t
      /\ \A k \in DOMAIN t : u[k] = t[k]
      /\ u[Len(t) + 1] = readers[n]
  BY <1>2
<1> HIDE DEF u
<1>5. \A k \in DOMAIN u : \E i \in 1 .. n : readers[i] = u[k]
  BY <1>1, <1>4 DEF Lists
<1>6. \A i \in 1 .. n : readers[i] # "login" => \E k \in DOMAIN u : u[k] = readers[i]
  BY <1>1, <1>4 DEF Lists
<1>7. ASSUME NEW reader \in Reader,
             \A i, j \in 1 .. n : readers[i] = reader /\ readers[j] = reader => i = j
      PROVE  \A k, l \in DOMAIN u : u[k] = reader /\ u[l] = reader => k = l
  <2>1. \A k, l \in DOMAIN t : t[k] = reader /\ t[l] = reader => k = l
    BY <1>1, <1>7 DEF Lists
  <2>2. reader = readers[n] => \A k \in DOMAIN t : t[k] # reader
    BY <1>1, <1>7 DEF Lists
  <2> QED
    BY <1>4, <2>1, <2>2
<1>8. u \in Seq(Reader)
  BY <1>3
<1> QED
  BY <1>5, <1>6, <1>7, <1>8 DEF Lists, u

LEMMA ListsSame ==
  ASSUME NEW readers \in Seq(Reader), NEW n \in 1 .. Len(readers),
         NEW t, Lists(readers, t, n - 1), readers[n] = "login"
  PROVE  Lists(readers, t, n)
<1>1. n \in Nat /\ n > 0 /\ 1 .. n = (1 .. n - 1) \union {n} /\ n \notin 1 .. n - 1
  OBVIOUS
<1>2. t \in Seq(Reader) /\ \A k \in DOMAIN t : \E i \in 1 .. n : readers[i] = t[k]
  BY <1>1 DEF Lists
<1>3. \A i \in 1 .. n : readers[i] # "login" => \E k \in DOMAIN t : t[k] = readers[i]
  BY <1>1 DEF Lists
<1>4. ASSUME NEW reader \in Reader,
             \A i, j \in 1 .. n : readers[i] = reader /\ readers[j] = reader => i = j
      PROVE  \A k, l \in DOMAIN t : t[k] = reader /\ t[l] = reader => k = l
  BY <1>1, <1>4 DEF Lists
<1> QED
  BY <1>2, <1>3, <1>4 DEF Lists

\* Remote(readers) has the readers that are not "login", each as often as they wait.
LEMMA RemoteLists ==
  ASSUME NEW readers \in Seq(Reader)
  PROVE  Lists(readers, Remote(readers), Len(readers))
<1>1. PICK f : IsRemote(readers, f, Len(readers)) /\ Remote(readers) = f[Len(readers)]
  BY RemoteSteps
<1> DEFINE S == {n \in 0 .. Len(readers) : ~ Lists(readers, f[n], n)}
<1>2. Len(readers) \in Nat /\ S \subseteq Nat
  OBVIOUS
<1>3. SUFFICES ASSUME S # {} PROVE FALSE
  BY <1>1, <1>2
<1> HIDE DEF S
<1>4. PICK n \in S : \A m \in S : n <= m
  BY <1>2, <1>3, LeastNumber
<1>5. n \in 0 .. Len(readers) /\ ~ Lists(readers, f[n], n)
  BY <1>4 DEF S
<1>6. f[n] = IF n = 0 THEN <<>>
             ELSE IF readers[n] = "login" THEN f[n - 1] ELSE Append(f[n - 1], readers[n])
  BY <1>1, <1>5 DEF IsRemote
<1>7. CASE n = 0
  BY <1>5, <1>6, <1>7 DEF Lists
<1>8. CASE n # 0
  <2>1. n - 1 \in 0 .. Len(readers) /\ n \in 1 .. Len(readers) /\ n - 1 \notin S
    BY <1>2, <1>4, <1>5, <1>8
  <2>2. Lists(readers, f[n - 1], n - 1)
    BY <2>1 DEF S
  <2> QED
    BY <1>5, <1>6, <1>8, <2>1, <2>2, ListsMore, ListsSame
<1> QED
  BY <1>7, <1>8

\* A reader that asks stands last.
LEMMA Asked ==
  ASSUME NEW readers \in Seq(Reader), NEW all \in Seq(Answer), NEW asker \in Reader
  PROVE  /\ Append(readers, asker) \in Seq(Reader)
         /\ \A reader : Waits(Append(readers, asker), reader) <=>
                          Waits(readers, reader) \/ reader = asker
         /\ \A reader : Once(readers, all, reader)
                        /\ (reader = asker => ~ Reads(readers, all, reader)) =>
                          Once(Append(readers, asker), all, reader)
<1> DEFINE more == Append(readers, asker)
<1>1. more \in Seq(Reader)
  OBVIOUS
<1>2. /\ DOMAIN more = DOMAIN readers \union {Len(readers) + 1}
      /\ Len(readers) + 1 \notin DOMAIN readers
      /\ \A i \in DOMAIN readers : more[i] = readers[i]
      /\ more[Len(readers) + 1] = asker
  OBVIOUS
<1> HIDE DEF more
<1>3. \A reader : Waits(more, reader) <=> Waits(readers, reader) \/ reader = asker
  BY <1>2 DEF Waits
<1>4. \A reader : Once(readers, all, reader) /\ (reader = asker => ~ Reads(readers, all, reader)) =>
                    Once(more, all, reader)
  BY <1>2, <1>3 DEF Once, Reads, Waits
<1> QED
  BY <1>1, <1>3, <1>4 DEF more

\* Where the answers after the first are.
LEMMA TailOf ==
  ASSUME NEW S, NEW s \in Seq(S), s # <<>>
  PROVE  /\ Head(s) \in S /\ Tail(s) \in Seq(S)
         /\ 1 \in DOMAIN s /\ s[1] = Head(s)
         /\ \A i \in DOMAIN Tail(s) : i \in Nat /\ i >= 1 /\ i + 1 \in DOMAIN s /\ Tail(s)[i] = s[i + 1]
         /\ \A i \in DOMAIN s : i \in Nat /\ (i = 1 \/ (i > 1 /\ i - 1 \in DOMAIN Tail(s) /\ Tail(s)[i - 1] = s[i]))
OBVIOUS

\* An answer that is received was one of the reader's.
LEMMA Received ==
  ASSUME NEW readers \in Seq(Reader), NEW all \in Seq(Answer), all # <<>>
  PROVE  /\ Head(all) \in Answer /\ Tail(all) \in Seq(Answer)
         /\ Answered(all, Head(all).reader)
         /\ \A reader : Answered(Tail(all), reader) => Answered(all, reader)
         /\ \A reader : Once(readers, all, reader) => Once(readers, Tail(all), reader)
         /\ Once(readers, all, Head(all).reader) =>
              ~ Reads(readers, Tail(all), Head(all).reader)
<1>1. /\ Head(all) \in Answer /\ Tail(all) \in Seq(Answer)
      /\ 1 \in DOMAIN all /\ all[1] = Head(all)
      /\ \A i \in DOMAIN Tail(all) :
           i \in Nat /\ i >= 1 /\ i + 1 \in DOMAIN all /\ Tail(all)[i] = all[i + 1]
  BY TailOf
<1>2. \A reader : Answered(Tail(all), reader) => Answered(all, reader)
  BY <1>1 DEF Answered
<1>3. Answered(all, Head(all).reader)
  BY <1>1 DEF Answered
<1>4. ASSUME NEW reader, Once(readers, all, reader)
      PROVE  Once(readers, Tail(all), reader)
  <2>1. ASSUME NEW i \in DOMAIN Tail(all), NEW j \in DOMAIN Tail(all),
               Tail(all)[i].reader = reader, Tail(all)[j].reader = reader
        PROVE  i = j
    <3>1. i + 1 = j + 1
      BY <1>1, <1>4, <2>1 DEF Once
    <3> QED
      BY <1>1, <3>1
  <2> QED
    BY <1>2, <1>4, <2>1 DEF Once
<1>5. ASSUME Once(readers, all, Head(all).reader)
      PROVE  ~ Reads(readers, Tail(all), Head(all).reader)
  <2>1. ~ Waits(readers, Head(all).reader)
    BY <1>3, <1>5 DEF Once
  <2>2. ASSUME NEW i \in DOMAIN Tail(all), Tail(all)[i].reader = Head(all).reader
        PROVE  FALSE
    <3>1. i + 1 = 1
      BY <1>1, <1>5, <2>2 DEF Once
    <3> QED
      BY <1>1, <3>1
  <2> QED
    BY <2>1, <2>2 DEF Reads, Answered
<1> QED
  BY <1>1, <1>2, <1>3, <1>4, <1>5

\* The readers are those in u, and then those in w.
Split(readers, u, w) ==
  /\ u \in Seq(Reader) /\ w \in Seq(Reader) /\ readers \in Seq(Reader)
  /\ \A reader : Waits(readers, reader) <=> Waits(u, reader) \/ Waits(w, reader)
  /\ \A reader : Once(readers, <<>>, reader) =>
       /\ Once(u, <<>>, reader) /\ Once(w, <<>>, reader)
       /\ ~ (Waits(u, reader) /\ Waits(w, reader))

\* After the answers in all come those to u, with the version.
Answers(all, more, u, version) ==
  /\ more \in Seq(Answer)
  /\ \A k \in DOMAIN more :
       \/ k \in DOMAIN all /\ more[k] = all[k]
       \/ k \notin DOMAIN all /\ more[k].token = version /\ Waits(u, more[k].reader)
  /\ \A k \in DOMAIN all : k \in DOMAIN more /\ more[k] = all[k]
  /\ \A reader : Waits(u, reader) /\ reader # "login" =>
       \E k \in DOMAIN more : k \notin DOMAIN all /\ k > Len(all) /\ more[k].reader = reader

\* Those who waited first, u, are answered with the version, and w go on waiting.
LEMMA AnsweredAll ==
  ASSUME NEW readers, NEW u, NEW w, Split(readers, u, w),
         NEW all \in Seq(Answer), NEW version \in Versions \union {Failed},
         NEW more, more = all \o AnswersTo(Remote(u), version)
  PROVE  /\ Answers(all, more, u, version)
         /\ \A reader : Once(readers, all, reader) => Once(w, more, reader)
<1> USE DEF Split
<1> DEFINE r == Remote(u)
           n == AnswersTo(r, version)
<1>1. Lists(u, r, Len(u))
  BY RemoteLists
<1> HIDE DEF r
<1>2. r \in Seq(Reader) /\ Len(u) \in Nat /\ DOMAIN u = 1 .. Len(u)
  BY <1>1 DEF Lists
<1>3. /\ n \in Seq(Answer) /\ DOMAIN n = DOMAIN r
      /\ \A i \in DOMAIN r : n[i].reader = r[i] /\ n[i].token = version
  <2>1. n = [i \in 1 .. Len(r) |-> [reader |-> r[i], token |-> version]]
        /\ Len(r) \in Nat /\ DOMAIN r = 1 .. Len(r)
    BY <1>2 DEF AnswersTo
  <2>2. \A i \in 1 .. Len(r) : [reader |-> r[i], token |-> version] \in Answer
    BY <1>2, <2>1 DEF Answer
  <2> HIDE DEF n
  <2>3. n \in Seq(Answer)
    BY <2>1, <2>2
  <2> QED
    BY <2>1, <2>3
<1>4. more = all \o n
  BY DEF r
<1> HIDE DEF n
<1>5. /\ more \in Seq(Answer) /\ Len(all) \in Nat
      /\ \A k \in DOMAIN more : k \in Nat
      /\ \A k \in DOMAIN more :
           \/ k \in DOMAIN all /\ more[k] = all[k]
           \/ k \notin DOMAIN all /\ k - Len(all) \in DOMAIN n /\ more[k] = n[k - Len(all)]
  BY <1>3, <1>4
<1>6. \A k \in DOMAIN all : k \in DOMAIN more /\ more[k] = all[k]
  BY <1>3, <1>4
<1>7. \A i \in DOMAIN n : /\ Len(all) + i \in DOMAIN more /\ Len(all) + i \notin DOMAIN all
                          /\ Len(all) + i > Len(all) /\ more[Len(all) + i] = n[i]
  BY <1>3, <1>4
<1>8. ASSUME NEW k \in DOMAIN more, k \notin DOMAIN all
      PROVE  more[k].token = version /\ Waits(u, more[k].reader)
             /\ k - Len(all) \in DOMAIN r /\ more[k].reader = r[k - Len(all)]
  <2>1. k - Len(all) \in DOMAIN n /\ more[k] = n[k - Len(all)]
    BY <1>5, <1>8
  <2>2. more[k].token = version /\ more[k].reader = r[k - Len(all)]
    BY <1>3, <2>1
  <2>3. \E i \in 1 .. Len(u) : u[i] = r[k - Len(all)]
    BY <1>1, <1>3, <2>1 DEF Lists
  <2> QED
    BY <1>2, <1>3, <2>1, <2>2, <2>3 DEF Waits
<1>9. ASSUME NEW reader, Waits(u, reader), reader # "login"
      PROVE  \E k \in DOMAIN more : k \notin DOMAIN all /\ k > Len(all) /\ more[k].reader = reader
  <2>1. PICK i \in DOMAIN r : r[i] = reader
    BY <1>1, <1>2, <1>9 DEF Lists, Waits
  <2>2. Len(all) + i \in DOMAIN more /\ more[Len(all) + i].reader = reader
    BY <1>3, <1>7, <2>1
  <2> QED
    BY <1>3, <1>7, <2>1, <2>2
<1>10. ASSUME NEW reader, Once(readers, all, reader)
       PROVE  Once(w, more, reader)
  <2>1. Once(u, <<>>, reader) /\ Once(w, <<>>, reader) /\ ~ (Waits(u, reader) /\ Waits(w, reader))
    <3>1. Once(readers, <<>>, reader)
      BY <1>10 DEF Once, Answered
    <3> QED
      BY <3>1
  <2>2. \A i, j \in DOMAIN w : w[i] = reader /\ w[j] = reader => i = j
    BY <2>1 DEF Once
  <2>3. ASSUME NEW k \in DOMAIN more, more[k].reader = reader
        PROVE  (k \in DOMAIN all /\ more[k] = all[k] /\ Answered(all, reader))
               \/ (k \notin DOMAIN all /\ Waits(u, reader) /\ k - Len(all) \in DOMAIN r
                   /\ r[k - Len(all)] = reader)
    BY <1>5, <1>8, <2>3 DEF Answered
  <2>4. ~ (Waits(w, reader) /\ Answered(more, reader))
    <3>1. ASSUME NEW k \in DOMAIN more, more[k].reader = reader, Waits(w, reader)
          PROVE  FALSE
      BY <1>10, <2>1, <2>3, <3>1 DEF Once
    <3> QED
      BY <3>1 DEF Answered
  <2>5. ASSUME NEW k \in DOMAIN more, NEW l \in DOMAIN more,
               more[k].reader = reader, more[l].reader = reader
        PROVE  k = l
    <3>1. CASE Answered(all, reader)
      <4>1. ~ Waits(u, reader)
        BY <1>10, <3>1 DEF Once
      <4>2. k \in DOMAIN all /\ l \in DOMAIN all /\ all[k].reader = reader /\ all[l].reader = reader
        BY <2>3, <2>5, <4>1
      <4> QED
        BY <1>10, <4>2 DEF Once
    <3>2. CASE ~ Answered(all, reader)
      <4>1. /\ k - Len(all) \in DOMAIN r /\ l - Len(all) \in DOMAIN r
            /\ r[k - Len(all)] = reader /\ r[l - Len(all)] = reader
        BY <2>3, <2>5, <3>2
      <4>2. reader \in Reader
        BY <1>2, <4>1
      <4>3. \A i, j \in 1 .. Len(u) : u[i] = reader /\ u[j] = reader => i = j
        BY <1>2, <2>1 DEF Once
      <4>4. \A i, j \in DOMAIN r : r[i] = reader /\ r[j] = reader => i = j
        BY <1>1, <4>2, <4>3 DEF Lists
      <4>5. k - Len(all) = l - Len(all)
        BY <4>1, <4>4
      <4> QED
        BY <1>5, <4>5
    <3> QED
      BY <3>1, <3>2
  <2> QED
    BY <2>2, <2>4, <2>5 DEF Once
<1> QED
  BY <1>5, <1>6, <1>8, <1>9, <1>10 DEF Answers

\* All who wait are answered at once, or the first is.
LEMMA SplitAll ==
  ASSUME NEW readers \in Seq(Reader)
  PROVE  Split(readers, readers, <<>>)
BY DEF Split, Waits, Once, Answered

LEMMA SplitFirst ==
  ASSUME NEW readers \in Seq(Reader), readers # <<>>, NEW first, first = <<Head(readers)>>
  PROVE  Split(readers, first, Tail(readers))
<1>1. /\ Head(readers) \in Reader /\ Tail(readers) \in Seq(Reader)
      /\ 1 \in DOMAIN readers /\ readers[1] = Head(readers)
      /\ \A i \in DOMAIN Tail(readers) :
           i \in Nat /\ i >= 1 /\ i + 1 \in DOMAIN readers /\ Tail(readers)[i] = readers[i + 1]
      /\ \A i \in DOMAIN readers :
           i \in Nat /\ (i = 1 \/ (i > 1 /\ i - 1 \in DOMAIN Tail(readers) /\ Tail(readers)[i - 1] = readers[i]))
  BY TailOf
<1>2. first \in Seq(Reader) /\ DOMAIN first = {1} /\ first[1] = Head(readers)
  BY <1>1
<1>3. \A reader : Waits(readers, reader) <=> Waits(first, reader) \/ Waits(Tail(readers), reader)
  BY <1>1, <1>2 DEF Waits
<1>4. ASSUME NEW reader, Once(readers, <<>>, reader)
      PROVE  /\ Once(first, <<>>, reader) /\ Once(Tail(readers), <<>>, reader)
             /\ ~ (Waits(first, reader) /\ Waits(Tail(readers), reader))
  <2>1. \A i, j \in DOMAIN readers : readers[i] = reader /\ readers[j] = reader => i = j
    BY <1>4 DEF Once
  <2>2. Once(first, <<>>, reader)
    BY <1>2 DEF Once, Answered
  <2>3. ASSUME NEW i \in DOMAIN Tail(readers), NEW j \in DOMAIN Tail(readers),
               Tail(readers)[i] = reader, Tail(readers)[j] = reader
        PROVE  i = j
    <3>1. i + 1 = j + 1
      BY <1>1, <2>1, <2>3
    <3> QED
      BY <1>1, <3>1
  <2>4. Once(Tail(readers), <<>>, reader)
    BY <2>3 DEF Once, Answered
  <2>5. ASSUME NEW i \in DOMAIN Tail(readers), Tail(readers)[i] = reader, Head(readers) = reader
        PROVE  FALSE
    <3>1. i + 1 = 1
      BY <1>1, <2>1, <2>5
    <3> QED
      BY <1>1, <3>1
  <2> QED
    BY <1>2, <2>2, <2>4, <2>5 DEF Waits
<1> QED
  BY <1>1, <1>2, <1>3, <1>4 DEF Split

-----------------------------------------------------------------------------
(* The messages and the tokens in them. *)

\* The changes the page has not been told of yet.
Untold(messages) == Cardinality(ChangesAfter(messages, 0))

LEMMA ChangesAreFinite ==
  ASSUME NEW messages \in Seq(ToPage)
  PROVE  /\ \A k : IsFiniteSet(ChangesAfter(messages, k))
         /\ \A k : Cardinality(ChangesAfter(messages, k)) \in Nat
<1>1. IsFiniteSet(1 .. Len(messages))
  BY FS_Interval
<1>2. \A k : ChangesAfter(messages, k) \subseteq 1 .. Len(messages)
  BY DEF ChangesAfter
<1>3. \A k : IsFiniteSet(ChangesAfter(messages, k))
  BY <1>1, <1>2, FS_Subset
<1> QED
  BY <1>3, FS_CardinalityType

LEMMA ToldIs ==
  ASSUME posted \in Seq(ToPage), token \in Nat, changes \in Nat
  PROVE  Told = token - changes - Untold(posted) /\ Untold(posted) \in Nat /\ Told <= token
<1>1. {i \in DOMAIN posted : posted[i] = Changed} = ChangesAfter(posted, 0)
  BY DEF ChangesAfter
<1>2. Told = token - changes - Untold(posted)
  BY <1>1 DEF Told, Untold
<1>3. Untold(posted) \in Nat
  BY ChangesAreFinite DEF Untold
<1> QED
  BY <1>2, <1>3

\* A message more at the end.
LEMMA Posted ==
  ASSUME NEW messages \in Seq(ToPage), NEW message \in ToPage
  PROVE  /\ Append(messages, message) \in Seq(ToPage)
         /\ DOMAIN Append(messages, message) = DOMAIN messages \union {Len(messages) + 1}
         /\ Len(messages) + 1 \notin DOMAIN messages
         /\ Append(messages, message)[Len(messages) + 1] = message
         /\ \A k \in DOMAIN messages : k \in Nat /\ k <= Len(messages)
         /\ \A k \in DOMAIN messages : Append(messages, message)[k] = messages[k]
OBVIOUS

LEMMA PostedChange ==
  ASSUME NEW messages \in Seq(ToPage), NEW version \in Nat, InOrder(messages, version)
  PROVE  /\ Append(messages, Changed) \in Seq(ToPage)
         /\ InOrder(Append(messages, Changed), version + 1)
         /\ Untold(Append(messages, Changed)) = Untold(messages) + 1
<1> DEFINE more == Append(messages, Changed)
           last == Len(messages) + 1
<1>1. /\ more \in Seq(ToPage) /\ DOMAIN more = DOMAIN messages \union {last}
      /\ last \notin DOMAIN messages /\ more[last] = Changed
      /\ last \in Nat /\ last > 0
      /\ \A k \in DOMAIN messages : k \in Nat /\ k < last
      /\ \A k \in DOMAIN messages : more[k] = messages[k]
  BY Posted DEF ToPage
<1> HIDE DEF more, last
<1>2. ASSUME NEW k \in Nat, k < last
      PROVE  Cardinality(ChangesAfter(more, k)) = Cardinality(ChangesAfter(messages, k)) + 1
  <2>1. ChangesAfter(more, k) = ChangesAfter(messages, k) \union {last}
    BY <1>1, <1>2 DEF ChangesAfter
  <2>2. last \notin ChangesAfter(messages, k)
    BY <1>1 DEF ChangesAfter
  <2> QED
    BY <2>1, <2>2, ChangesAreFinite, FS_AddElement
<1> PICK next \in Nat : next = version + 1
  OBVIOUS
<1>3. ASSUME NEW k \in DOMAIN more, more[k].key = "response"
      PROVE  more[k].token = next - Cardinality(ChangesAfter(more, k))
  <2>1. k # last
    BY <1>1, <1>3 DEF Changed
  <2>2. k \in DOMAIN messages /\ more[k] = messages[k] /\ k \in Nat /\ k < last
    BY <1>1, <2>1
  <2>3. messages[k].token = version - Cardinality(ChangesAfter(messages, k))
    BY <1>3, <2>2 DEF InOrder
  <2>4. Cardinality(ChangesAfter(messages, k)) \in Nat
    BY ChangesAreFinite
  <2> QED
    BY <1>2, <2>2, <2>3, <2>4
<1>4. Untold(more) = Untold(messages) + 1
  BY <1>1, <1>2 DEF Untold
<1>5. InOrder(more, next)
  BY <1>3 DEF InOrder
<1> QED
  BY <1>1, <1>4, <1>5 DEF more

LEMMA PostedResponse ==
  ASSUME NEW messages \in Seq(ToPage), NEW version \in Versions, InOrder(messages, version)
  PROVE  /\ Append(messages, Response(version)) \in Seq(ToPage)
         /\ InOrder(Append(messages, Response(version)), version)
         /\ Untold(Append(messages, Response(version))) = Untold(messages)
<1> DEFINE more == Append(messages, Response(version))
           last == Len(messages) + 1
<1>0. Response(version) \in ToPage /\ Response(version) # Changed /\ Response(version).token = version
  BY DEF ToPage, Response, Changed
<1>1. /\ more \in Seq(ToPage) /\ DOMAIN more = DOMAIN messages \union {last}
      /\ last \notin DOMAIN messages /\ more[last] = Response(version)
      /\ last \in Nat /\ last > 0
      /\ \A k \in DOMAIN messages : k \in Nat /\ k < last
      /\ \A k \in DOMAIN messages : more[k] = messages[k]
  BY <1>0, Posted
<1> HIDE DEF more, last
<1>2. \A k \in Nat : ChangesAfter(more, k) = ChangesAfter(messages, k)
  BY <1>0, <1>1 DEF ChangesAfter
<1>3. ASSUME NEW k \in DOMAIN more, more[k].key = "response"
      PROVE  more[k].token = version - Cardinality(ChangesAfter(more, k))
  <2>1. CASE k = last
    <3>1. ChangesAfter(more, last) = {}
      BY <1>1, <1>2 DEF ChangesAfter
    <3>2. Cardinality(ChangesAfter(more, last)) = 0
      BY <3>1, FS_EmptySet
    <3> QED
      BY <1>0, <1>1, <2>1, <3>2 DEF Versions
  <2>2. CASE k # last
    <3>1. k \in DOMAIN messages /\ more[k] = messages[k] /\ k \in Nat
      BY <1>1, <2>2
    <3> QED
      BY <1>2, <1>3, <3>1 DEF InOrder
  <2> QED
    BY <2>1, <2>2
<1>4. Untold(more) = Untold(messages)
  BY <1>2 DEF Untold
<1>5. InOrder(more, version)
  BY <1>3 DEF InOrder
<1> QED
  BY <1>1, <1>4, <1>5 DEF more

\* The first message is taken: a change less is to be told, or the token that comes
\* is the one that all the changes after it have replaced.
LEMMA TakenMessage ==
  ASSUME NEW messages \in Seq(ToPage), messages # <<>>, NEW version \in Versions,
         InOrder(messages, version)
  PROVE  /\ Tail(messages) \in Seq(ToPage)
         /\ InOrder(Tail(messages), version)
         /\ Head(messages).key = "changed" => Untold(Tail(messages)) = Untold(messages) - 1
         /\ Head(messages).key = "response" =>
              /\ Untold(Tail(messages)) = Untold(messages)
              /\ Head(messages).token \in Versions
              /\ Head(messages).token = version - Untold(messages)
<1> DEFINE rest == Tail(messages)
<1>1. /\ Head(messages) \in ToPage /\ rest \in Seq(ToPage)
      /\ 1 \in DOMAIN messages /\ messages[1] = Head(messages)
      /\ \A i \in DOMAIN rest : i \in Nat /\ i >= 1 /\ i + 1 \in DOMAIN messages /\ rest[i] = messages[i + 1]
      /\ \A i \in DOMAIN messages :
           i \in Nat /\ (i = 1 \/ (i > 1 /\ i - 1 \in DOMAIN rest /\ rest[i - 1] = messages[i]))
  BY TailOf
<1> HIDE DEF rest
<1>2. ASSUME NEW k \in Nat
      PROVE  Cardinality(ChangesAfter(rest, k)) = Cardinality(ChangesAfter(messages, k + 1))
  <2> DEFINE A == ChangesAfter(rest, k)
             B == ChangesAfter(messages, k + 1)
             move == [i \in A |-> i + 1]
  <2>1. \A i \in A : i \in Nat /\ i + 1 \in B
    BY <1>1 DEF ChangesAfter
  <2>2. \A j \in B : j - 1 \in A /\ j \in Nat
    BY <1>1 DEF ChangesAfter
  <2> HIDE DEF A, B
  <2>3. move \in Bijection(A, B)
    <3>1. move \in [A -> B]
      BY <2>1
    <3>2. \A i, j \in A : move[i] = move[j] => i = j
      BY <2>1
    <3>3. \A j \in B : \E i \in A : move[i] = j
      BY <2>1, <2>2
    <3> QED
      BY <3>1, <3>2, <3>3 DEF Bijection, Injection, IsInjective, Surjection
  <2>4. IsFiniteSet(A)
    BY <1>1, ChangesAreFinite DEF A
  <2>5. Cardinality(A) = Cardinality(B)
    BY <2>3, <2>4, FS_Bijection DEF ExistsBijection
  <2> QED
    BY <2>5 DEF A, B
<1>3. ASSUME NEW k \in DOMAIN rest, rest[k].key = "response"
      PROVE  rest[k].token = version - Cardinality(ChangesAfter(rest, k))
  <2>1. k \in Nat /\ k + 1 \in DOMAIN messages /\ rest[k] = messages[k + 1]
    BY <1>1
  <2>2. messages[k + 1].token = version - Cardinality(ChangesAfter(messages, k + 1))
    BY <1>3, <2>1 DEF InOrder
  <2> QED
    BY <1>2, <2>1, <2>2
<1>4. Untold(rest) = Cardinality(ChangesAfter(messages, 1))
  BY <1>2 DEF Untold
<1>5. ASSUME Head(messages).key = "changed"
      PROVE  Untold(rest) = Untold(messages) - 1
  <2>1. Head(messages) = Changed
    BY <1>1, <1>5 DEF ToPage, Response
  <2>2. /\ ChangesAfter(messages, 0) = ChangesAfter(messages, 1) \union {1}
        /\ 1 \notin ChangesAfter(messages, 1)
    BY <1>1, <2>1 DEF ChangesAfter
  <2>3. Cardinality(ChangesAfter(messages, 0)) = Cardinality(ChangesAfter(messages, 1)) + 1
    BY <2>2, ChangesAreFinite, FS_AddElement
  <2>4. Cardinality(ChangesAfter(messages, 1)) \in Nat
    BY ChangesAreFinite
  <2> QED
    BY <1>4, <2>3, <2>4 DEF Untold
<1>6. ASSUME Head(messages).key = "response"
      PROVE  /\ Untold(rest) = Untold(messages)
             /\ Head(messages).token \in Versions
             /\ Head(messages).token = version - Untold(messages)
  <2>1. Head(messages) # Changed /\ Head(messages).token \in Versions
    BY <1>1, <1>6 DEF ToPage, Response, Changed
  <2>2. ChangesAfter(messages, 0) = ChangesAfter(messages, 1)
    BY <1>1, <2>1 DEF ChangesAfter
  <2>3. messages[1].token = version - Cardinality(ChangesAfter(messages, 1))
    BY <1>1, <1>6 DEF InOrder
  <2> QED
    BY <1>1, <1>4, <2>1, <2>2, <2>3 DEF Untold
<1>7. InOrder(rest, version)
  BY <1>3 DEF InOrder
<1> QED
  BY <1>1, <1>5, <1>6, <1>7 DEF rest

-----------------------------------------------------------------------------
(* The steps. *)

TokenRest == ReadersTakeTurns /\ TokensArePast /\ SessionKeepsUp /\ HeadersKeepUp

LEMMA UntoldIs ==
  ASSUME NEW messages \in Seq(ToPage)
  PROVE  /\ Cardinality({i \in DOMAIN messages : messages[i] = Changed}) = Untold(messages)
         /\ Untold(messages) \in Nat
<1>1. {i \in DOMAIN messages : messages[i] = Changed} = ChangesAfter(messages, 0)
  BY DEF ChangesAfter
<1> QED
  BY <1>1, ChangesAreFinite DEF Untold

LEMMA Numbers ==
  /\ MaxToken \in Nat /\ Versions = 0 .. MaxToken
  /\ NoSession = MaxToken + 1 /\ Failed = MaxToken + 2
  /\ NoSession \notin Versions /\ Failed \notin Versions /\ Failed # NoSession
BY TokensAssumption DEF Versions, NoSession, Failed

\* Only a change that is heard is told.
Tells == HearChange /\ Told' = Told + 1

\* What the embedder and the page do to their messages; the others leave them alone.
LEMMA MessageStep ==
  ASSUME TokenTypeOK, InOrder(posted, token), TokenNext \/ UNCHANGED tokenVars
  PROVE  /\ token' \in Versions /\ token' >= token
         /\ posted' \in Seq(ToPage) /\ InOrder(posted', token')
         /\ changes' \in Nat
         /\ Told \in Int /\ Told <= token
         /\ Told' = Told \/ Tells
<1> DEFINE Goal == /\ token' \in Versions /\ token' >= token
                   /\ posted' \in Seq(ToPage) /\ InOrder(posted', token')
                   /\ changes' \in Nat
                   /\ Told' = Told \/ Tells
<1>1. /\ token \in Versions /\ token \in Nat /\ changes \in Nat
      /\ posted \in Seq(ToPage) /\ Untold(posted) \in Nat
      /\ Told = token - changes - Untold(posted)
  <2>1. token \in Versions /\ token \in Nat /\ changes \in Nat /\ posted \in Seq(ToPage)
    BY Numbers DEF TokenTypeOK
  <2>2. /\ Cardinality({i \in DOMAIN posted : posted[i] = Changed}) = Untold(posted)
        /\ Untold(posted) \in Nat
    BY <2>1, UntoldIs
  <2> QED
    BY <2>1, <2>2 DEF Told
<1>2. posted' \in Seq(ToPage) => Told' = token' - changes' - Untold(posted')
  BY UntoldIs DEF Told
<1>3. CASE TokenChanges
  <2>1. /\ token' = token + 1 /\ token' \in Versions /\ changes' = changes
        /\ posted' = Append(posted, Changed)
    BY <1>1, <1>3, Numbers DEF TokenChanges
  <2> QED
    BY <1>1, <1>2, <2>1, PostedChange
<1>4. CASE HostAnswers
  <2>1. CASE posted' = Append(posted, Response(token)) /\ token' = token
    BY <1>1, <1>2, <1>4, <2>1, PostedResponse DEF HostAnswers
  <2>2. CASE /\ token < MaxToken /\ token' = token + 1
             /\ posted' = posted \o <<Changed, Response(token + 1)>>
    <3> DEFINE more == Append(posted, Changed)
    <3>1. /\ more \in Seq(ToPage) /\ InOrder(more, token + 1)
          /\ Untold(more) = Untold(posted) + 1
      BY <1>1, PostedChange
    <3>2. posted' = Append(more, Response(token + 1))
      BY <1>1, <2>2
    <3>3. token + 1 \in Versions
      BY <1>1, <2>2, Numbers
    <3> HIDE DEF more
    <3>4. /\ posted' \in Seq(ToPage) /\ InOrder(posted', token')
          /\ Untold(posted') = Untold(more)
      BY <2>2, <3>1, <3>2, <3>3, PostedResponse
    <3>5. changes' = changes
      BY <1>4 DEF HostAnswers
    <3> QED
      BY <1>1, <1>2, <2>2, <3>1, <3>3, <3>4, <3>5
  <2> QED
    BY <1>4, <2>1, <2>2 DEF HostAnswers
<1>5. CASE ReceiveResponse
  <2>1. /\ posted # <<>> /\ Head(posted).key = "response" /\ posted' = Tail(posted)
        /\ UNCHANGED <<token, changes>>
    BY <1>5 DEF ReceiveResponse
  <2> QED
    BY <1>1, <1>2, <2>1, TakenMessage
<1>6. CASE ReceiveChanged
  <2>1. /\ posted # <<>> /\ Head(posted).key = "changed" /\ posted' = Tail(posted)
        /\ token' = token /\ changes' = changes + 1
    BY <1>6 DEF ReceiveChanged
  <2> QED
    BY <1>1, <1>2, <2>1, TakenMessage
<1>7. CASE HearChange
  <2>1. /\ UNCHANGED <<token, posted>> /\ changes > 0 /\ changes' = changes - 1
    BY <1>7 DEF HearChange
  <2> QED
    BY <1>1, <1>2, <1>7, <2>1 DEF Tells
<1>8. ASSUME UNCHANGED <<token, posted, changes>>
      PROVE  Goal
  BY <1>1, <1>2, <1>8
<1>9. CASE \/ HostRejects \/ ReadLoginAccount \/ GiveUp \/ Activate \/ CreateExecutor
           \/ RegisterProvider \/ UpdateToken \/ GetHeaders \/ FetchFromApi \/ ApiResponds
           \/ (\E reader \in Reader : ActivationFails(reader))
           \/ UNCHANGED tokenVars
  <2>1. UNCHANGED <<token, posted, changes>>
    BY <1>9
    DEF HostRejects, ReadLoginAccount, GiveUp, Activate, CreateExecutor, RegisterProvider,
      UpdateToken, GetHeaders, FetchFromApi, ApiResponds, ActivationFails, tokenVars
  <2> QED
    BY <1>1, <1>8, <2>1
<1>10. Goal
  BY <1>3, <1>4, <1>5, <1>6, <1>7, <1>9 DEF TokenNext
<1>11. Told \in Int /\ Told <= token
  BY <1>1
<1> QED
  BY <1>10, <1>11

LEMMA NumbersAreTyped ==
  ASSUME TokenTypeOK
  PROVE  /\ token \in Int /\ session \in Int /\ api.since \in Int
         /\ waiting \in Seq(Reader) /\ answers \in Seq(Answer)
         /\ \A i \in DOMAIN answers : answers[i] \in Answer /\ answers[i].token \in Int
<1>1. \A i \in DOMAIN answers : answers[i] \in Answer
  BY DEF TokenTypeOK
<1>2. \A version \in Versions \union {NoSession, Failed} : version \in Int
  BY Numbers
<1>3. \A answer \in Answer : answer.token \in Versions \union {Failed}
  BY DEF Answer
<1> QED
  BY <1>1, <1>2, <1>3 DEF TokenTypeOK

\* A step that leaves the readers and what they have alone.
LEMMA QuietStep ==
  ASSUME TokenTypeOK, TokenRest, Told' = Told, token' \in Versions, token' >= token,
         UNCHANGED <<waiting, answers, stage, session, api, missed, unread>>
  PROVE  TokenRest'
<1>1. ReadersTakeTurns' /\ HeadersKeepUp' /\ SessionKeepsUp'
  BY DEF TokenRest, ReadersTakeTurns, HeadersKeepUp, SessionKeepsUp, RequestsKeepUp
<1>2. /\ token \in Int /\ token' \in Int
      /\ session \in Int
      /\ \A i \in DOMAIN answers : answers[i].token \in Int
  BY Numbers, NumbersAreTyped
<1>3. TokensArePast'
  BY <1>2 DEF TokenRest, TokensArePast
<1> QED
  BY <1>1, <1>3 DEF TokenRest

\* Some readers are answered, with a token that is no older than the extension knows
\* of, or with a failure.
LEMMA AnswerStep ==
  ASSUME TokenTypeOK, TokenRest, Told \in Int, Told <= token, Told' = Told, token' = token,
         NEW u, Split(waiting, u, waiting'),
         NEW version \in Versions \union {Failed},
         version = Failed \/ (Told <= version /\ version <= token),
         answers' = answers \o AnswersTo(Remote(u), version),
         UNCHANGED <<stage, session, api, missed, unread>>
  PROVE  TokenRest' /\ answers' \in Seq(Answer)
<1>0. /\ token \in Int /\ session \in Int /\ version \in Int /\ api.since \in Int
      /\ waiting \in Seq(Reader) /\ answers \in Seq(Answer)
      /\ \A i \in DOMAIN answers : answers[i].token \in Int
      /\ version >= Told /\ (version = Failed \/ version <= token)
  <2>1. version \in Int /\ (version = Failed => version >= Told)
    <3>1. token \in 0 .. MaxToken /\ Failed = MaxToken + 2 /\ MaxToken \in Nat
      BY Numbers DEF TokenTypeOK
    <3> QED
      BY <3>1, Numbers
  <2> QED
    BY <2>1, NumbersAreTyped
<1>1. /\ Answers(answers, answers', u, version)
      /\ \A reader : Once(waiting, answers, reader) => Once(waiting', answers', reader)
  <2>1. answers \in Seq(Answer)
    BY <1>0
  <2>2. \A more : more = answers \o AnswersTo(Remote(u), version) =>
          /\ Answers(answers, more, u, version)
          /\ \A reader : Once(waiting, answers, reader) => Once(waiting', more, reader)
    BY <2>1, AnsweredAll
  <2> QED
    BY <2>2
<1> USE DEF Answers
<1>2. \A reader : Answered(answers', reader) => Answered(answers, reader) \/ Waits(u, reader)
  BY <1>1 DEF Answered
<1>3. \A reader : Reads(waiting', answers', reader) => Reads(waiting, answers, reader)
  BY <1>2 DEF Reads, Split
<1>4. ReadersTakeTurns'
  BY <1>1, <1>3 DEF TokenRest, ReadersTakeTurns
<1>5. TokensArePast'
  BY <1>0, <1>1 DEF TokenRest, TokensArePast
<1>6. HeadersKeepUp'
  <2>1. ASSUME api.stage = "headers", NEW k \in DOMAIN answers', answers'[k].reader = "api"
        PROVE  answers'[k].token >= api.since
    <3>1. api.since <= Told
      BY <2>1 DEF TokenRest, HeadersKeepUp
    <3>2. CASE k \in DOMAIN answers /\ answers'[k] = answers[k]
      BY <2>1, <3>2 DEF TokenRest, HeadersKeepUp
    <3>3. CASE answers'[k].token = version
      BY <1>0, <3>1, <3>3
    <3> QED
      BY <1>1, <2>1, <3>2, <3>3
  <2> QED
    BY <2>1 DEF TokenRest, HeadersKeepUp, RequestsKeepUp
<1>7. SessionKeepsUp'
  <2>0. DOMAIN answers = 1 .. Len(answers) /\ Len(answers) \in Nat
    BY <1>0
  <2>1. ASSUME ~ missed, stage = "provider", NEW k \in DOMAIN answers', answers'[k].reader = "provider"
        PROVE  answers'[k].token >= Told
    <3>1. CASE k \in DOMAIN answers /\ answers'[k] = answers[k]
      BY <2>1, <3>1 DEF TokenRest, SessionKeepsUp
    <3>2. CASE answers'[k].token = version
      BY <1>0, <3>2
    <3> QED
      BY <1>1, <2>1, <3>1, <3>2
  <2>2. ASSUME ~ missed, stage = "active", ~ Waits(waiting', "update")
        PROVE  /\ \A i \in DOMAIN answers' : LastUpdate(answers', i) => answers'[i].token >= Told
               /\ ~ Answered(answers', "update") /\ ~ unread => session >= Told
    <3>1. CASE Waits(u, "update")
      <4>1. PICK k \in DOMAIN answers' :
              k \notin DOMAIN answers /\ k > Len(answers) /\ answers'[k].reader = "update"
        BY <1>1, <3>1
      <4>2. ASSUME NEW i \in DOMAIN answers', LastUpdate(answers', i)
            PROVE  i \notin DOMAIN answers
        <5>1. ~ (k > i)
          BY <4>1, <4>2 DEF LastUpdate
        <5> QED
          BY <2>0, <4>1, <5>1
      <4>3. Answered(answers', "update")
        BY <4>1 DEF Answered
      <4> QED
        BY <1>0, <1>1, <4>2, <4>3
    <3>2. CASE ~ Waits(u, "update")
      <4>1. ~ Waits(waiting, "update")
        BY <2>2, <3>2 DEF Split
      <4>2. /\ \A i \in DOMAIN answers : LastUpdate(answers, i) => answers[i].token >= Told
            /\ ~ Answered(answers, "update") /\ ~ unread => session >= Told
        BY <2>2, <4>1 DEF TokenRest, SessionKeepsUp
      <4>3. ASSUME NEW i \in DOMAIN answers', LastUpdate(answers', i)
            PROVE  i \in DOMAIN answers /\ answers'[i] = answers[i] /\ LastUpdate(answers, i)
        <5>1. i \in DOMAIN answers /\ answers'[i] = answers[i]
          BY <1>1, <3>2, <4>3 DEF LastUpdate
        <5> QED
          BY <1>1, <4>3, <5>1 DEF LastUpdate
      <4>4. Answered(answers, "update") => Answered(answers', "update")
        BY <1>1 DEF Answered
      <4> QED
        BY <4>2, <4>3, <4>4
    <3> QED
      BY <3>1, <3>2
  <2> QED
    BY <2>1, <2>2 DEF SessionKeepsUp
<1> QED
  BY <1>1, <1>4, <1>5, <1>6, <1>7 DEF TokenRest

\* A reader begins to wait.
LEMMA AskStep ==
  ASSUME TokenTypeOK, TokenRest, InOrder(posted, token),
         ReadLoginAccount \/ Activate \/ HearChange \/ GetHeaders
  PROVE  TokenRest'
<1> USE DEF TokenRest
<1>0. /\ waiting \in Seq(Reader) /\ answers \in Seq(Answer) /\ Told \in Int
      /\ token' = token /\ answers' = answers
      /\ changes' = changes => Told' = Told
      /\ Told' \in Int /\ Told' >= Told
  <2>1. Told \in Int /\ (Told' = Told \/ Tells)
    BY MessageStep DEF TokenNext
  <2>2. Tells => changes' # changes /\ Told' = Told + 1
    BY DEF Tells, HearChange, TokenTypeOK
  <2>3. token' = token /\ answers' = answers
    BY DEF ReadLoginAccount, Activate, HearChange, GetHeaders
  <2> QED
    BY <2>1, <2>2, <2>3, NumbersAreTyped
<1>1. ASSUME NEW asker \in Reader, waiting' = Append(waiting, asker),
             asker \in {"executor", "provider", "api"} => ~ Reads(waiting, answers, asker)
      PROVE  /\ \A reader : Waits(waiting', reader) <=> Waits(waiting, reader) \/ reader = asker
             /\ \A reader : Reads(waiting', answers', reader) =>
                              Reads(waiting, answers, reader) \/ reader = asker
             /\ \A reader \in {"executor", "provider", "api"} : Once(waiting', answers', reader)
  <2>1. /\ \A reader : Waits(waiting', reader) <=> Waits(waiting, reader) \/ reader = asker
        /\ \A reader : Once(waiting, answers, reader)
                       /\ (reader = asker => ~ Reads(waiting, answers, reader)) =>
                         Once(waiting', answers, reader)
    BY <1>0, <1>1, Asked
  <2>2. \A reader : Reads(waiting', answers', reader) =>
                      Reads(waiting, answers, reader) \/ reader = asker
    BY <1>0, <2>1 DEF Reads
  <2> QED
    BY <1>0, <1>1, <2>1, <2>2 DEF ReadersTakeTurns
<1>2. CASE ReadLoginAccount
  <2>1. /\ waiting' = Append(waiting, "login") /\ "login" \in Reader
        /\ UNCHANGED <<session, stage, api, missed, unread>>
    BY <1>2 DEF ReadLoginAccount, Ask, Reader
  <2>2. Told' = Told
    BY <1>0, <1>2 DEF ReadLoginAccount
  <2>3. ReadersTakeTurns'
    BY <1>1, <2>1 DEF ReadersTakeTurns
  <2>4. Waits(waiting', "update") <=> Waits(waiting, "update")
    BY <1>1, <2>1
  <2>5. SessionKeepsUp'
    BY <1>0, <2>1, <2>2, <2>4 DEF SessionKeepsUp
  <2>6. TokensArePast' /\ HeadersKeepUp'
    BY <1>0, <2>1, <2>2 DEF TokensArePast, HeadersKeepUp, RequestsKeepUp
  <2> QED
    BY <2>3, <2>5, <2>6
<1>3. CASE Activate
  <2>1. /\ waiting' = Append(waiting, "executor") /\ "executor" \in Reader
        /\ stage = "inactive" /\ stage' = "executor"
        /\ UNCHANGED <<session, api, missed, unread>>
    BY <1>3 DEF Activate, Ask, Reader
  <2>2. Told' = Told
    BY <1>0, <1>3 DEF Activate
  <2>3. /\ ~ Reads(waiting, answers, "executor") /\ ~ Reads(waiting, answers, "provider")
        /\ ~ Reads(waiting, answers, "update")
    BY <2>1 DEF ReadersTakeTurns
  <2>4. ReadersTakeTurns'
    BY <1>1, <2>1, <2>3 DEF ReadersTakeTurns
  <2>5. TokensArePast' /\ HeadersKeepUp' /\ SessionKeepsUp'
    BY <1>0, <2>1, <2>2 DEF TokensArePast, HeadersKeepUp, RequestsKeepUp, SessionKeepsUp
  <2> QED
    BY <2>4, <2>5
<1>4. CASE HearChange
  <2>1. UNCHANGED <<token, answers, stage, session, api, unread>> /\ Told' >= Told
    BY <1>0, <1>4 DEF HearChange
  <2>2. api.since \in Int
    BY NumbersAreTyped
  <2>3. TokensArePast' /\ HeadersKeepUp'
    <3>1. api.since <= Told => api.since <= Told'
      BY <1>0, <2>2
    <3> QED
      BY <2>1, <3>1 DEF TokensArePast, HeadersKeepUp, RequestsKeepUp
  <2>4. CASE stage = "active"
    <3>1. waiting' = Append(waiting, "update") /\ "update" \in Reader
      BY <1>4, <2>4 DEF HearChange, Ask, Reader
    <3>2. ReadersTakeTurns'
      BY <1>1, <2>1, <2>4, <3>1 DEF ReadersTakeTurns
    <3>3. Waits(waiting', "update")
      BY <1>1, <3>1
    <3> QED
      BY <2>1, <2>3, <2>4, <3>2, <3>3 DEF SessionKeepsUp
  <2>5. CASE stage # "active"
    <3>1. missed' = TRUE /\ waiting' = waiting
      BY <1>4, <2>5 DEF HearChange
    <3> QED
      BY <2>1, <2>3, <3>1 DEF SessionKeepsUp, ReadersTakeTurns
  <2> QED
    BY <2>4, <2>5
<1>5. CASE GetHeaders
  <2>1. /\ waiting' = Append(waiting, "api") /\ "api" \in Reader
        /\ api.stage = "none" /\ api'.stage = "headers" /\ api'.since = Told
        /\ UNCHANGED <<session, stage, missed, unread>>
    BY <1>5 DEF GetHeaders, Ask, Reader, NoApiRequest
  <2>2. Told' = Told
    BY <1>0, <1>5 DEF GetHeaders
  <2>3. ~ Reads(waiting, answers, "api")
    BY <2>1 DEF ReadersTakeTurns
  <2>4. ReadersTakeTurns'
    BY <1>1, <2>1, <2>3 DEF ReadersTakeTurns
  <2>5. Waits(waiting', "update") <=> Waits(waiting, "update")
    BY <1>1, <2>1, <2>3
  <2>6. TokensArePast' /\ SessionKeepsUp'
    BY <1>0, <2>1, <2>2, <2>5 DEF TokensArePast, SessionKeepsUp
  <2>7. \A i \in DOMAIN answers : answers[i].reader # "api"
    BY <2>3 DEF Reads, Answered
  <2>8. HeadersKeepUp'
    BY <1>0, <2>1, <2>2, <2>7 DEF HeadersKeepUp, RequestsKeepUp
  <2> QED
    BY <2>4, <2>6, <2>8
<1> QED
  BY <1>2, <1>3, <1>4, <1>5

\* The updates after the first answer.
LEMMA TailUpdates ==
  ASSUME NEW all \in Seq(Answer), all # <<>>
  PROVE  /\ 1 \in DOMAIN all /\ all[1] = Head(all) /\ Head(all) \in Answer
         /\ \A i \in DOMAIN Tail(all) :
              /\ i + 1 \in DOMAIN all /\ Tail(all)[i] = all[i + 1]
              /\ LastUpdate(Tail(all), i) => LastUpdate(all, i + 1)
         /\ Head(all).reader # "update" /\ Answered(all, "update") => Answered(Tail(all), "update")
         /\ Head(all).reader = "update" /\ ~ Answered(Tail(all), "update") => LastUpdate(all, 1)
<1> DEFINE rest == Tail(all)
<1>1. /\ Head(all) \in Answer
      /\ 1 \in DOMAIN all /\ all[1] = Head(all)
      /\ \A i \in DOMAIN rest : i \in Nat /\ i >= 1 /\ i + 1 \in DOMAIN all /\ rest[i] = all[i + 1]
      /\ \A i \in DOMAIN all :
           i \in Nat /\ (i = 1 \/ (i > 1 /\ i - 1 \in DOMAIN rest /\ rest[i - 1] = all[i]))
  BY TailOf
<1> HIDE DEF rest
<1>2. ASSUME NEW i \in DOMAIN rest, LastUpdate(rest, i)
      PROVE  LastUpdate(all, i + 1)
  <2>1. all[i + 1].reader = "update"
    BY <1>1, <1>2 DEF LastUpdate
  <2>2. ASSUME NEW j \in DOMAIN all, j > i + 1
        PROVE  all[j].reader # "update"
    <3>1. j - 1 \in DOMAIN rest /\ rest[j - 1] = all[j] /\ j - 1 > i
      BY <1>1, <2>2
    <3> QED
      BY <1>2, <3>1 DEF LastUpdate
  <2> QED
    BY <2>1, <2>2 DEF LastUpdate
<1>3. ASSUME Head(all).reader # "update", Answered(all, "update")
      PROVE  Answered(rest, "update")
  BY <1>1, <1>3 DEF Answered
<1>4. ASSUME Head(all).reader = "update", ~ Answered(rest, "update")
      PROVE  LastUpdate(all, 1)
  <2>1. ASSUME NEW j \in DOMAIN all, j > 1
        PROVE  all[j].reader # "update"
    <3>1. j - 1 \in DOMAIN rest /\ rest[j - 1] = all[j]
      BY <1>1, <2>1
    <3> QED
      BY <1>4, <3>1 DEF Answered
  <2> QED
    BY <1>1, <1>4, <2>1 DEF LastUpdate
<1> QED
  BY <1>1, <1>2, <1>3, <1>4 DEF rest

\* The extension takes its first answer, or the answer of the API.
LEMMA ReceiveStep ==
  ASSUME TokenTypeOK, TokenRest, InOrder(posted, token),
         \/ CreateExecutor \/ RegisterProvider \/ UpdateToken \/ FetchFromApi \/ ApiResponds
         \/ \E reader \in Reader : ActivationFails(reader)
  PROVE  TokenRest'
<1> USE DEF TokenRest
<1> DEFINE h == Head(answers)
<1>0. /\ waiting \in Seq(Reader) /\ answers \in Seq(Answer) /\ Told \in Int
      /\ token \in Int /\ session \in Int /\ api.since \in Int
      /\ token' = token /\ Told' = Told
  <2>1. Told \in Int /\ (Told' = Told \/ Tells)
    BY MessageStep DEF TokenNext
  <2>2. token' = token /\ changes' = changes
    BY DEF CreateExecutor, RegisterProvider, UpdateToken, FetchFromApi, ApiResponds, ActivationFails
  <2>3. Tells => changes' # changes
    BY DEF Tells, HearChange, TokenTypeOK
  <2> QED
    BY <2>1, <2>2, <2>3, NumbersAreTyped
<1>1. ASSUME answers # <<>>, answers' = Tail(answers)
      PROVE  /\ h \in Answer /\ h.token \in Int /\ 1 \in DOMAIN answers /\ answers[1] = h
             /\ Reads(waiting, answers, h.reader)
             /\ \A i \in DOMAIN answers' :
                  /\ i + 1 \in DOMAIN answers /\ answers'[i] = answers[i + 1]
                  /\ LastUpdate(answers', i) => LastUpdate(answers, i + 1)
             /\ \A reader : Reads(waiting, answers', reader) => Reads(waiting, answers, reader)
             /\ \A reader \in {"executor", "provider", "api"} :
                  /\ Once(waiting, answers', reader)
                  /\ reader = h.reader => ~ Reads(waiting, answers', reader)
             /\ h.reader # "update" /\ Answered(answers, "update") => Answered(answers', "update")
             /\ h.reader = "update" /\ ~ Answered(answers', "update") => LastUpdate(answers, 1)
  <2>1. /\ h \in Answer /\ answers' \in Seq(Answer)
        /\ Answered(answers, h.reader)
        /\ \A reader : Answered(answers', reader) => Answered(answers, reader)
        /\ \A reader : Once(waiting, answers, reader) => Once(waiting, answers', reader)
        /\ Once(waiting, answers, h.reader) => ~ Reads(waiting, answers', h.reader)
    BY <1>0, <1>1, Received
  <2>2. /\ 1 \in DOMAIN answers /\ answers[1] = h
        /\ \A i \in DOMAIN answers' :
             /\ i + 1 \in DOMAIN answers /\ answers'[i] = answers[i + 1]
             /\ LastUpdate(answers', i) => LastUpdate(answers, i + 1)
        /\ h.reader # "update" /\ Answered(answers, "update") => Answered(answers', "update")
        /\ h.reader = "update" /\ ~ Answered(answers', "update") => LastUpdate(answers, 1)
    BY <1>0, <1>1, TailUpdates
  <2>3. answers[1].token \in Int
    BY <2>2, NumbersAreTyped
  <2> HIDE DEF h
  <2> QED
    BY <2>1, <2>2, <2>3 DEF Reads, ReadersTakeTurns
<1>2. ASSUME answers # <<>>, answers' = Tail(answers), session' = session
      PROVE  \A i \in DOMAIN answers' : answers'[i].token = Failed \/ answers'[i].token <= token'
  BY <1>0, <1>1, <1>2 DEF TokensArePast
<1>3. ASSUME answers # <<>>, answers' = Tail(answers), api' = api
      PROVE  HeadersKeepUp'
  BY <1>0, <1>1, <1>3 DEF HeadersKeepUp, RequestsKeepUp
<1> HIDE DEF h
<1>4. ASSUME NEW reader \in Reader, ActivationFails(reader) PROVE TokenRest'
  <2>1. /\ answers # <<>> /\ answers' = Tail(answers) /\ h.reader = reader
        /\ reader \in {"executor", "provider"} /\ stage' = "failed"
        /\ UNCHANGED <<waiting, session, api, missed, unread>>
    BY <1>4 DEF ActivationFails, Receives, h
  <2>2. stage = reader
    BY <1>1, <2>1 DEF ReadersTakeTurns
  <2>3. ReadersTakeTurns'
    BY <1>1, <2>1, <2>2 DEF ReadersTakeTurns
  <2>4. TokensArePast'
    BY <1>0, <1>2, <2>1 DEF TokensArePast
  <2>5. SessionKeepsUp'
    BY <2>1 DEF SessionKeepsUp
  <2> QED
    BY <1>3, <2>1, <2>3, <2>4, <2>5
<1>5. CASE CreateExecutor
  <2>1. /\ answers # <<>> /\ answers' = Tail(answers) /\ h.reader = "executor"
        /\ waiting' = Append(waiting, "provider") /\ "provider" \in Reader
        /\ stage' = "provider" /\ UNCHANGED <<session, api>>
    BY <1>5 DEF CreateExecutor, Receives, Ask, Reader, h
  <2>2. stage = "executor"
    BY <1>1, <2>1 DEF ReadersTakeTurns
  <2>3. /\ ~ Reads(waiting, answers, "provider") /\ ~ Reads(waiting, answers, "update")
        /\ ~ Reads(waiting, answers', "provider") /\ ~ Reads(waiting, answers', "executor")
        /\ ~ Reads(waiting, answers', "update")
    BY <1>1, <2>1, <2>2 DEF ReadersTakeTurns
  <2>4. answers' \in Seq(Answer)
    BY <1>0, <2>1
  <2>5. /\ \A reader : Waits(waiting', reader) <=> Waits(waiting, reader) \/ reader = "provider"
        /\ \A reader : Once(waiting, answers', reader)
                       /\ (reader = "provider" => ~ Reads(waiting, answers', reader)) =>
                         Once(waiting', answers', reader)
    BY <1>0, <2>1, <2>4, Asked
  <2>6. \A reader : Reads(waiting', answers', reader) =>
                      Reads(waiting, answers', reader) \/ reader = "provider"
    BY <2>5 DEF Reads
  <2>7. ReadersTakeTurns'
    BY <1>1, <2>1, <2>3, <2>5, <2>6 DEF ReadersTakeTurns
  <2>8. TokensArePast'
    BY <1>0, <1>2, <2>1 DEF TokensArePast
  <2>9. SessionKeepsUp'
    BY <2>1, <2>3 DEF SessionKeepsUp, Reads, Answered
  <2> QED
    BY <1>3, <2>1, <2>7, <2>8, <2>9
<1>6. CASE RegisterProvider
  <2>1. /\ answers # <<>> /\ answers' = Tail(answers) /\ h.reader = "provider"
        /\ h.token # Failed /\ session' = h.token
        /\ stage' = "active" /\ UNCHANGED <<waiting, api, missed, unread>>
    BY <1>6 DEF RegisterProvider, Receives, h
  <2>2. stage = "provider"
    BY <1>1, <2>1 DEF ReadersTakeTurns
  <2>3. ~ Reads(waiting, answers, "update") /\ ~ Reads(waiting, answers', "update")
    BY <1>1, <2>1, <2>2 DEF ReadersTakeTurns
  <2>4. ReadersTakeTurns'
    BY <1>1, <2>1, <2>2 DEF ReadersTakeTurns
  <2>5. h.token \in Versions /\ h.token # NoSession /\ h.token <= token
    BY <1>1, <2>1, Numbers DEF Answer, TokensArePast
  <2>6. TokensArePast'
    BY <1>0, <1>1, <2>1, <2>5 DEF TokensArePast
  <2>7. ~ missed => h.token >= Told
    BY <1>1, <2>1, <2>2 DEF SessionKeepsUp
  <2>8. SessionKeepsUp'
    BY <1>0, <2>1, <2>3, <2>7 DEF SessionKeepsUp, Reads, Answered, LastUpdate
  <2> QED
    BY <1>3, <2>1, <2>4, <2>6, <2>8
<1>7. CASE UpdateToken
  <2>1. /\ answers # <<>> /\ answers' = Tail(answers) /\ h.reader = "update"
        /\ session' = IF h.token = Failed THEN session ELSE h.token
        /\ unread' <=> h.token = Failed
        /\ UNCHANGED <<waiting, stage, api, missed>>
    BY <1>7 DEF UpdateToken, Receives, h
  <2>2. ReadersTakeTurns'
    BY <1>1, <2>1 DEF ReadersTakeTurns
  <2>3. h.token # Failed => h.token \in Versions /\ h.token # NoSession /\ h.token <= token
    BY <1>1, Numbers, <2>1 DEF Answer, TokensArePast
  <2>4. TokensArePast'
    BY <1>0, <1>1, <2>1, <2>3 DEF TokensArePast
  <2>5. stage = "active"
    BY <1>1, <2>1 DEF ReadersTakeTurns
  <2>6. ASSUME ~ missed, ~ Waits(waiting, "update")
        PROVE  /\ \A i \in DOMAIN answers' : LastUpdate(answers', i) => answers'[i].token >= Told
               /\ ~ Answered(answers', "update") /\ ~ unread' => session' >= Told
    <3>1. \A i \in DOMAIN answers : LastUpdate(answers, i) => answers[i].token >= Told
      BY <2>5, <2>6 DEF SessionKeepsUp
    <3> QED
      BY <1>1, <2>1, <3>1
  <2>7. SessionKeepsUp'
    BY <1>0, <2>1, <2>5, <2>6 DEF SessionKeepsUp
  <2> QED
    BY <1>3, <2>1, <2>2, <2>4, <2>7
<1>8. CASE FetchFromApi
  <2>1. /\ answers # <<>> /\ answers' = Tail(answers) /\ h.reader = "api"
        /\ api' = IF h.token = Failed THEN NoApiRequest
                  ELSE [api EXCEPT !.stage = "sent", !.token = h.token]
        /\ UNCHANGED <<waiting, stage, session, missed, unread>>
    BY <1>8 DEF FetchFromApi, Receives, h
  <2>2. api.stage = "headers"
    BY <1>1, <2>1 DEF ReadersTakeTurns
  <2>3. ReadersTakeTurns'
    BY <1>1, <2>1 DEF ReadersTakeTurns
  <2>4. TokensArePast'
    BY <1>0, <1>2, <2>1 DEF TokensArePast
  <2>5. ASSUME ~ missed, stage = "active", ~ Waits(waiting, "update")
        PROVE  /\ \A i \in DOMAIN answers' : LastUpdate(answers', i) => answers'[i].token >= Told
               /\ ~ Answered(answers', "update") /\ ~ unread => session >= Told
    <3>1. /\ \A i \in DOMAIN answers : LastUpdate(answers, i) => answers[i].token >= Told
          /\ ~ Answered(answers, "update") /\ ~ unread => session >= Told
      BY <2>5 DEF SessionKeepsUp
    <3> QED
      BY <1>1, <2>1, <3>1
  <2>6. ASSUME ~ missed, stage = "provider"
        PROVE  \A i \in DOMAIN answers' : answers'[i].reader = "provider" => answers'[i].token >= Told
    BY <1>1, <2>1, <2>6 DEF SessionKeepsUp
  <2>7. SessionKeepsUp'
    BY <1>0, <2>1, <2>5, <2>6 DEF SessionKeepsUp
  <2>8. h.token >= api.since /\ api.since <= Told
    BY <1>1, <2>1, <2>2 DEF HeadersKeepUp
  <2>9. api'.stage = "none" \/ (api'.stage = "sent" /\ api'.token = h.token /\ api'.since = api.since)
    BY <2>1 DEF NoApiRequest, TokenTypeOK
  <2>10. HeadersKeepUp'
    BY <1>0, <2>8, <2>9 DEF HeadersKeepUp, RequestsKeepUp
  <2> QED
    BY <2>3, <2>4, <2>7, <2>10
<1>9. CASE ApiResponds
  <2>1. /\ api.stage = "sent" /\ api'.stage = "none"
        /\ UNCHANGED <<waiting, answers, stage, session, missed, unread>>
    BY <1>9 DEF ApiResponds, NoApiRequest
  <2>2. ReadersTakeTurns'
    BY <2>1 DEF ReadersTakeTurns
  <2>3. TokensArePast' /\ SessionKeepsUp' /\ HeadersKeepUp'
    BY <1>0, <2>1 DEF TokensArePast, SessionKeepsUp, HeadersKeepUp, RequestsKeepUp
  <2> QED
    BY <2>2, <2>3
<1> QED
  BY <1>4, <1>5, <1>6, <1>7, <1>8, <1>9

LEMMA TokenRestStep ==
  ASSUME TokenTypeOK, TokenRest, InOrder(posted, token), TokenNext \/ UNCHANGED tokenVars
  PROVE  TokenRest'
<1>0. /\ token' \in Versions /\ token' >= token /\ token \in Int
      /\ Told \in Int /\ Told <= token
      /\ Told' = Told \/ Tells
      /\ posted \in Seq(ToPage) /\ token \in Versions /\ waiting \in Seq(Reader)
      /\ Untold(posted) \in Nat /\ changes \in Nat
      /\ Told = token - changes - Untold(posted)
  <2>1. posted \in Seq(ToPage) /\ token \in Versions /\ changes \in Nat
    BY DEF TokenTypeOK
  <2>2. /\ Cardinality({i \in DOMAIN posted : posted[i] = Changed}) = Untold(posted)
        /\ Untold(posted) \in Nat
    BY <2>1, UntoldIs
  <2>3. Told = token - changes - Untold(posted)
    BY <2>2 DEF Told
  <2> QED
    BY <2>1, <2>2, <2>3, MessageStep, NumbersAreTyped
<1>1. CASE TokenChanges \/ HostAnswers \/ HostRejects \/ ReceiveChanged \/ UNCHANGED tokenVars
  <2>1. UNCHANGED <<waiting, answers, stage, session, api, missed, unread>>
    BY <1>1 DEF TokenChanges, HostAnswers, HostRejects, ReceiveChanged, tokenVars
  <2>2. ~ Tells
    <3>1. TokenChanges \/ HostAnswers \/ HostRejects \/ UNCHANGED tokenVars => changes' = changes
      BY DEF TokenChanges, HostAnswers, HostRejects, tokenVars
    <3>2. ReceiveChanged => changes' = changes + 1
      BY DEF ReceiveChanged
    <3>3. Tells => changes' = changes - 1
      BY DEF Tells, HearChange
    <3> QED
      BY <1>0, <1>1, <3>1, <3>2, <3>3
  <2> QED
    BY <1>0, <2>1, <2>2, QuietStep
<1>2. CASE ReceiveResponse
  <2> DEFINE version == Head(posted).token
  <2>1. /\ posted # <<>> /\ Head(posted).key = "response"
        /\ answers' = answers \o AnswersTo(Remote(waiting), version)
        /\ waiting' = <<>> /\ changes' = changes
        /\ UNCHANGED <<token, stage, session, api, missed, unread>>
    BY <1>2 DEF ReceiveResponse
  <2>2. version \in Versions /\ version = token - Untold(posted)
    BY <1>0, <2>1, TakenMessage
  <2> HIDE DEF version
  <2>3. Told <= version /\ version <= token
    BY <1>0, <2>2
  <2>4. Told' = Told
    BY <1>0, <2>1 DEF Tells, HearChange
  <2>5. Split(waiting, waiting, waiting')
    BY <1>0, <2>1, SplitAll
  <2> QED
    BY <1>0, <2>1, <2>2, <2>3, <2>4, <2>5, AnswerStep
<1>3. CASE GiveUp
  <2> DEFINE first == <<Head(waiting)>>
  <2>1. /\ waiting # <<>> /\ waiting' = Tail(waiting) /\ changes' = changes
        /\ answers' = answers \o AnswersTo(Remote(first), Failed)
        /\ UNCHANGED <<token, stage, session, api, missed, unread>>
    BY <1>3 DEF GiveUp
  <2>2. Split(waiting, first, waiting')
    BY <1>0, <2>1, SplitFirst
  <2>3. Told' = Told
    BY <1>0, <2>1 DEF Tells, HearChange
  <2> HIDE DEF first
  <2> QED
    BY <1>0, <2>1, <2>2, <2>3, AnswerStep
<1> QED
  BY <1>1, <1>2, <1>3, AskStep, ReceiveStep DEF TokenNext

\* A reader begins to wait, is answered, gives up or goes on waiting.
LEMMA WaitingIsTyped ==
  ASSUME TokenTypeOK, TokenNext \/ UNCHANGED tokenVars
  PROVE  waiting' \in Seq(Reader)
<1>0. waiting \in Seq(Reader)
  BY DEF TokenTypeOK
<1>1. CASE \/ waiting' = waiting \/ waiting' = <<>>
           \/ \E asker \in Reader : waiting' = Append(waiting, asker)
           \/ waiting # <<>> /\ waiting' = Tail(waiting)
  <2>1. \A asker \in Reader : Append(waiting, asker) \in Seq(Reader)
    BY <1>0
  <2>2. waiting # <<>> => Tail(waiting) \in Seq(Reader)
    BY <1>0, TailOf
  <2>3. <<>> \in Seq(Reader)
    OBVIOUS
  <2> QED
    BY <1>0, <1>1, <2>1, <2>2, <2>3
<1>2. ReadLoginAccount => waiting' = Append(waiting, "login") /\ "login" \in Reader
  BY DEF ReadLoginAccount, Ask, Reader
<1>3. Activate => waiting' = Append(waiting, "executor") /\ "executor" \in Reader
  BY DEF Activate, Ask, Reader
<1>4. CreateExecutor => waiting' = Append(waiting, "provider") /\ "provider" \in Reader
  BY DEF CreateExecutor, Ask, Reader
<1>5. HearChange =>
        waiting' = waiting \/ (waiting' = Append(waiting, "update") /\ "update" \in Reader)
  BY DEF HearChange, Ask, Reader
<1>6. GetHeaders => waiting' = Append(waiting, "api") /\ "api" \in Reader
  BY DEF GetHeaders, Ask, Reader
<1>7. \/ TokenChanges \/ HostAnswers \/ HostRejects \/ ReceiveChanged
      \/ RegisterProvider \/ UpdateToken \/ FetchFromApi \/ ApiResponds
      \/ (\E reader \in Reader : ActivationFails(reader)) \/ UNCHANGED tokenVars
      => waiting' = waiting
  BY DEF TokenChanges, HostAnswers, HostRejects, ReceiveChanged, RegisterProvider, UpdateToken,
    FetchFromApi, ApiResponds, ActivationFails, tokenVars
<1>8. ReceiveResponse => waiting' = <<>>
  BY DEF ReceiveResponse
<1>9. GiveUp => waiting # <<>> /\ waiting' = Tail(waiting)
  BY DEF GiveUp
<1> QED
  BY <1>1, <1>2, <1>3, <1>4, <1>5, <1>6, <1>7, <1>8, <1>9 DEF TokenNext

\* A token that is answered becomes the session's or the request's.
LEMMA SessionIsTyped ==
  ASSUME TokenTypeOK, Told \in Int, TokenNext \/ UNCHANGED tokenVars
  PROVE  /\ session' \in Versions \union {NoSession}
         /\ api' \in [stage : {"none", "headers", "sent"},
                      token : Versions \union {NoSession}, since : Int]
<1> DEFINE Session == Versions \union {NoSession}
           Api == [stage : {"none", "headers", "sent"}, token : Session, since : Int]
<1>0. session \in Session /\ api \in Api /\ answers \in Seq(Answer)
  BY DEF TokenTypeOK
<1>1. ASSUME answers # <<>>, Head(answers).token # Failed
      PROVE  Head(answers).token \in Session
  <2>1. Head(answers) \in Answer
    BY <1>0, <1>1, TailOf
  <2> QED
    BY <1>1, <2>1 DEF Answer
<1>2. NoApiRequest \in Api
  BY Numbers DEF NoApiRequest
<1>3. CASE RegisterProvider
  BY <1>0, <1>1, <1>3 DEF RegisterProvider, Receives
<1>4. CASE UpdateToken
  BY <1>0, <1>1, <1>4 DEF UpdateToken, Receives
<1>5. CASE GetHeaders
  BY <1>0, <1>5 DEF GetHeaders
<1>6. CASE FetchFromApi
  <2>1. session' = session /\ answers # <<>>
    BY <1>6 DEF FetchFromApi, Receives
  <2>2. CASE Head(answers).token = Failed
    BY <1>0, <1>2, <1>6, <2>1, <2>2 DEF FetchFromApi
  <2>3. CASE Head(answers).token # Failed
    <3>1. api' = [api EXCEPT !.stage = "sent", !.token = Head(answers).token]
      BY <1>6, <2>3 DEF FetchFromApi
    <3>2. Head(answers).token \in Session
      BY <1>1, <2>1, <2>3
    <3> QED
      BY <1>0, <2>1, <3>1, <3>2
  <2> QED
    BY <2>2, <2>3
<1>7. CASE ApiResponds
  BY <1>0, <1>2, <1>7 DEF ApiResponds
<1>8. \/ TokenChanges \/ HostAnswers \/ HostRejects \/ ReadLoginAccount \/ ReceiveResponse
      \/ ReceiveChanged \/ GiveUp \/ Activate \/ CreateExecutor \/ HearChange
      \/ (\E reader \in Reader : ActivationFails(reader)) \/ UNCHANGED tokenVars
      => session' = session /\ api' = api
  BY DEF TokenChanges, HostAnswers, HostRejects, ReadLoginAccount, ReceiveResponse, ReceiveChanged,
    GiveUp, Activate, CreateExecutor, HearChange, ActivationFails, tokenVars
<1> QED
  BY <1>0, <1>3, <1>4, <1>5, <1>6, <1>7, <1>8 DEF TokenNext

\* Answers are made by the page, and taken by the extension.
LEMMA AnswersAreTyped ==
  ASSUME TokenTypeOK, InOrder(posted, token), TokenNext \/ UNCHANGED tokenVars
  PROVE  answers' \in Seq(Answer)
<1>0. /\ answers \in Seq(Answer) /\ waiting \in Seq(Reader)
      /\ posted \in Seq(ToPage) /\ token \in Versions
  BY DEF TokenTypeOK
<1>1. ASSUME NEW u, NEW w, Split(waiting, u, w), NEW version \in Versions \union {Failed},
             answers' = answers \o AnswersTo(Remote(u), version)
      PROVE  answers' \in Seq(Answer)
  <2>1. \A more : more = answers \o AnswersTo(Remote(u), version) =>
          Answers(answers, more, u, version)
    BY <1>0, <1>1, AnsweredAll
  <2> QED
    BY <1>1, <2>1 DEF Answers
<1>2. CASE ReceiveResponse
  <2> DEFINE version == Head(posted).token
  <2>1. /\ posted # <<>> /\ Head(posted).key = "response"
        /\ answers' = answers \o AnswersTo(Remote(waiting), version)
    BY <1>2 DEF ReceiveResponse
  <2>2. version \in Versions
    BY <1>0, <2>1, TakenMessage
  <2> HIDE DEF version
  <2>3. Split(waiting, waiting, <<>>)
    BY <1>0, SplitAll
  <2> QED
    BY <1>1, <2>1, <2>2, <2>3
<1>3. CASE GiveUp
  <2> DEFINE first == <<Head(waiting)>>
  <2>1. waiting # <<>> /\ answers' = answers \o AnswersTo(Remote(first), Failed)
    BY <1>3 DEF GiveUp
  <2>2. Split(waiting, first, Tail(waiting))
    BY <1>0, <2>1, SplitFirst
  <2> HIDE DEF first
  <2> QED
    BY <1>1, <2>1, <2>2
<1>4. \/ CreateExecutor \/ RegisterProvider \/ UpdateToken \/ FetchFromApi
      \/ \E reader \in Reader : ActivationFails(reader)
      => answers # <<>> /\ answers' = Tail(answers)
  BY DEF CreateExecutor, RegisterProvider, UpdateToken, FetchFromApi, ActivationFails, Receives
<1>5. answers # <<>> => Tail(answers) \in Seq(Answer)
  BY <1>0, TailOf
<1>6. \/ TokenChanges \/ HostAnswers \/ HostRejects \/ ReadLoginAccount \/ ReceiveChanged
      \/ Activate \/ HearChange \/ GetHeaders \/ ApiResponds \/ UNCHANGED tokenVars
      => answers' = answers
  BY DEF TokenChanges, HostAnswers, HostRejects, ReadLoginAccount, ReceiveChanged, Activate,
    HearChange, GetHeaders, ApiResponds, tokenVars
<1> QED
  BY <1>0, <1>2, <1>3, <1>4, <1>5, <1>6 DEF TokenNext

LEMMA TokenTyping ==
  ASSUME TokenTypeOK, InOrder(posted, token), TokenNext \/ UNCHANGED tokenVars
  PROVE  TokenTypeOK'
<1>1. /\ token' \in Versions /\ posted' \in Seq(ToPage) /\ changes' \in Nat /\ Told \in Int
  BY MessageStep
<1>2. requests' \in Nat
  BY DEF TokenTypeOK, TokenNext, tokenVars, TokenChanges, HostAnswers, HostRejects, ReadLoginAccount,
    ReceiveResponse, ReceiveChanged, GiveUp, Activate, CreateExecutor, RegisterProvider, HearChange,
    UpdateToken, ActivationFails, GetHeaders, FetchFromApi, ApiResponds, Ask
<1>3. stage' \in {"inactive", "executor", "provider", "active", "failed"}
      /\ missed' \in BOOLEAN /\ unread' \in BOOLEAN
  BY DEF TokenTypeOK, TokenNext, tokenVars, TokenChanges, HostAnswers, HostRejects, ReadLoginAccount,
    ReceiveResponse, ReceiveChanged, GiveUp, Activate, CreateExecutor, RegisterProvider, HearChange,
    UpdateToken, ActivationFails, GetHeaders, FetchFromApi, ApiResponds, Ask
<1> QED
  BY <1>1, <1>2, <1>3, WaitingIsTyped, SessionIsTyped, AnswersAreTyped DEF TokenTypeOK

LEMMA TokenInit0 == TokenInit => TokenInvariant
<1> SUFFICES ASSUME TokenInit PROVE TokenInvariant
  OBVIOUS
<1>1. TokenTypeOK
  <2>1. /\ token = 0 /\ requests = 0 /\ changes = 0 /\ stage = "inactive"
        /\ posted = <<>> /\ waiting = <<>> /\ answers = <<>>
        /\ session = NoSession /\ api = NoApiRequest /\ missed = FALSE /\ unread = FALSE
    BY DEF TokenInit
  <2>2. 0 \in Versions /\ NoSession \in Int
    BY Numbers
  <2>3. api \in [stage : {"none", "headers", "sent"},
                 token : Versions \union {NoSession}, since : Int]
    BY <2>1, <2>2 DEF NoApiRequest
  <2>4. posted \in Seq(ToPage) /\ waiting \in Seq(Reader) /\ answers \in Seq(Answer)
    BY <2>1
  <2> QED
    BY <2>1, <2>2, <2>3, <2>4 DEF TokenTypeOK
<1>2. InOrder(posted, token) /\ ReadersTakeTurns /\ SessionKeepsUp /\ HeadersKeepUp /\ TokensArePast
  BY Numbers DEF TokenInit, InOrder, ReadersTakeTurns, SessionKeepsUp, HeadersKeepUp, RequestsKeepUp,
    TokensArePast, NoApiRequest, Once, Reads, Waits, Answered
<1> QED
  BY <1>1, <1>2 DEF TokenInvariant

LEMMA TokenInvariantHolds == TokenSpec => []TokenInvariant
<1>1. TokenInvariant /\ [TokenNext]_tokenVars => TokenInvariant'
  BY MessageStep, TokenRestStep, TokenTyping DEF TokenInvariant, TokenRest
<1> QED
  BY <1>1, TokenInit0, PTL DEF TokenSpec

\* When every change has been heard the session has the embedder's token, unless a
\* change came before the provider listened, or its reading has failed
\* (registerAuthenticationProvider.ts:14-26, subscribeProviderToChangeMessage.ts:17-27).
THEOREM SessionGetsTheToken == TokenSpec => []SessionFollowsToken
<1>1. TokenInvariant => SessionFollowsToken
  <2> SUFFICES ASSUME TokenInvariant, stage = "active", Heard, ~ missed, ~ unread
               PROVE  session = token
    BY DEF SessionFollowsToken
  <2>1. posted \in Seq(ToPage) /\ waiting \in Seq(Reader) /\ token \in Int /\ session \in Int
    BY NumbersAreTyped DEF TokenInvariant, TokenTypeOK
  <2>2. {i \in DOMAIN posted : posted[i] = Changed} = {}
    BY <2>1 DEF Heard, Contains
  <2>3. Told = token
    <3>1. changes = 0
      BY DEF Heard
    <3>2. Cardinality({i \in DOMAIN posted : posted[i] = Changed}) = 0
      <4> DEFINE S == {i \in DOMAIN posted : posted[i] = Changed}
      <4>1. S = {}
        BY <2>2
      <4> HIDE DEF S
      <4>2. Cardinality(S) = 0
        BY <4>1, FS_EmptySet
      <4> QED
        BY <4>2 DEF S
    <3>3. Told = token - 0 - 0
      BY <3>1, <3>2 DEF Told
    <3> QED
      BY <2>1, <3>3
  <2>4. ~ Waits(waiting, "update") /\ ~ Answered(answers, "update")
    BY <2>1 DEF Heard, Contains, Waits, Answered
  <2>5. session >= token
    BY <2>3, <2>4 DEF TokenInvariant, SessionKeepsUp
  <2>6. session <= token
    BY DEF TokenInvariant, TokensArePast
  <2> QED
    BY <2>1, <2>5, <2>6
<1> QED
  BY <1>1, TokenInvariantHolds, PTL

\* A request that begins after the extension was told of a change has the changed
\* token, or a later one (PortChannelAuthProvider.ts:34-41).
THEOREM RequestsAlwaysKeepUp == TokenSpec => []RequestsKeepUp
<1>1. TokenInvariant => RequestsKeepUp
  BY DEF TokenInvariant, HeadersKeepUp
<1> QED
  BY <1>1, TokenInvariantHolds, PTL

-----------------------------------------------------------------------------
(* File requests. *)

Path == File \union {Folder}

Kind == FileKind \union FolderKind \union {"rename"}

CallStage ==
  {"begun", "stat", "readFile", "writeFile", "createDirectory", "rename",
   "readdir", "statAll", "unlink", "rmdir"}

Call ==
  [kind : Kind, file : Path, to : Path, stage : CallStage,
   pending : SUBSET Path, found : SUBSET File]

Operation ==
  [op : CallStage \union {"lastModifiedTime"}, file : Path, to : Path,
   for : Slots \union Lister]

FilesTypeOK ==
  /\ written \subseteq File /\ folder \in BOOLEAN /\ logged \subseteq Path
  /\ queue \in Seq(Operation)
  /\ inFlight \in [Slots -> Call \union {NoCall}]
  /\ fetches \in [{"overlay", "original", "base"} ->
                    [stage : {"none", "limited", "sent"}, file : Path]]

\* An operation in the queue belongs to a call that waits for it, or has failed.
IsOf(o, calls) ==
  o.op # "lastModifiedTime" =>
    /\ o.for \in Slots
    /\ o.op \in {"unlink", "rename", "writeFile"} => o.file \in File
    /\ o.op = "rename" => o.to \in File
    /\ calls[o.for] # NoCall =>
         o.op = OpOf(calls[o.for].stage) /\ o.file \in calls[o.for].pending

\* Two operations for one call, of the same file.
Twins(o, p) ==
  /\ o.op # "lastModifiedTime" /\ p.op # "lastModifiedTime"
  /\ o.for = p.for /\ o.file = p.file

QueueIsOf(operations, calls) ==
  /\ \A i \in DOMAIN operations : IsOf(operations[i], calls)
  /\ \A i, j \in DOMAIN operations :
       Twins(operations[i], operations[j]) /\ calls[operations[i].for] # NoCall => i = j

HasRemove(operations) == \E i \in DOMAIN operations : operations[i].op = "rmdir"

\* The repository's files that cannot be seen any more, unless they are written.
Gone == {f \in Tracked : f \in logged \/ Folder \in logged}

\* A folder is removed when what it had has been found, and what was found removed.
IsSound(call, gone) ==
  /\ call.stage \in {"unlink", "rename", "writeFile"} => call.pending \subseteq File
  /\ call.kind \in {"rename", "writeFile"} => call.file \in File
  /\ call.kind = "rename" => call.to \in File
  /\ call.kind = "delete" /\ call.file = Folder /\ call.stage = "statAll" =>
       Tracked \subseteq gone \union call.found
  /\ call.kind = "delete" /\ call.file = Folder /\ call.stage = "unlink" =>
       Tracked \subseteq gone \union call.pending
  /\ call.stage = "rmdir" => Tracked \subseteq gone

CallsAreSound == \A r \in Slots : inFlight[r] # NoCall => IsSound(inFlight[r], Gone)

RemovesAreLast == HasRemove(queue) => Tracked \subseteq Gone

FilesAreInFolder == written # {} => folder

\* The overlay fetches for the operation that has the lock.
FetchHasLock ==
  fetches["overlay"] # NoFetch =>
    /\ IsHeld /\ Can(HoldsLock)
    /\ HoldsLock.op \in {"readFile", "rename"}

FilesInvariant ==
  /\ FilesTypeOK /\ QueueIsOf(queue, inFlight) /\ CallsAreSound
  /\ RemovesAreLast /\ FilesAreInFolder /\ FetchHasLock

-----------------------------------------------------------------------------

\* Each element once, in some order.
LEMMA SetToSeqIs ==
  ASSUME NEW S, IsFiniteSet(S)
  PROVE  /\ SetToSeq(S) \in Seq(S)
         /\ \A i, j \in DOMAIN SetToSeq(S) : SetToSeq(S)[i] = SetToSeq(S)[j] => i = j
<1> DEFINE n == Cardinality(S)
<1>1. n \in Nat /\ ExistsBijection(1 .. n, S)
  BY FS_CardinalityType
<1> HIDE DEF n
<1>2. \E f \in [1 .. n -> S] : IsInjective(f)
  BY <1>1 DEF ExistsBijection, Bijection, Injection
<1>3. SetToSeq(S) = CHOOSE f \in [1 .. n -> S] : IsInjective(f)
  BY DEF SetToSeq, n
<1>4. SetToSeq(S) \in [1 .. n -> S] /\ IsInjective(SetToSeq(S))
  BY <1>2, <1>3
<1> QED
  BY <1>1, <1>4 DEF IsInjective

LEMMA OperationsAre ==
  ASSUME NEW r \in Slots, NEW call \in Call
  PROVE  LET added == Operations(r, call) IN
         /\ added \in Seq(Operation)
         /\ \A i \in DOMAIN added :
              /\ added[i].op = OpOf(call.stage) /\ added[i].file \in call.pending
              /\ added[i].to = call.to /\ added[i].for = r
         /\ \A i, j \in DOMAIN added : added[i].file = added[j].file => i = j
<1> DEFINE One(f) == [op |-> OpOf(call.stage), file |-> f, to |-> call.to, for |-> r]
           S == {One(f) : f \in call.pending}
           added == SetToSeq(S)
<1>1. call.pending \subseteq Path /\ call.to \in Path /\ OpOf(call.stage) \in CallStage
  BY DEF Call, OpOf, CallStage
<1>2. IsFiniteSet(call.pending)
  <2>1. IsFiniteSet(File) /\ IsFiniteSet({Folder})
    BY FilesAssumption, FS_Singleton
  <2>2. IsFiniteSet(Path)
    BY <2>1, FS_Union DEF Path
  <2> QED
    BY <1>1, <2>2, FS_Subset
<1>3. IsFiniteSet(S)
  <2> DEFINE g == [f \in call.pending |-> One(f)]
  <2> HIDE DEF One
  <2>1. g \in Surjection(call.pending, S)
    BY DEF Surjection
  <2> QED
    BY <1>2, <2>1, FS_Surjection
<1>4. S \subseteq Operation
  BY <1>1 DEF Operation
<1>5. added \in Seq(S) /\ \A i, j \in DOMAIN added : added[i] = added[j] => i = j
  BY <1>3, SetToSeqIs
<1>6. Operations(r, call) = added
  BY DEF Operations
<1>7. \A o \in S : /\ o.op = OpOf(call.stage) /\ o.file \in call.pending
                   /\ o.to = call.to /\ o.for = r /\ o = One(o.file)
  OBVIOUS
<1> HIDE DEF S, added, One
<1>8. added \in Seq(Operation) /\ \A i \in DOMAIN added : added[i] \in S
  BY <1>4, <1>5
<1>9. ASSUME NEW i \in DOMAIN added, NEW j \in DOMAIN added, added[i].file = added[j].file
      PROVE  i = j
  <2>1. added[i] = One(added[i].file) /\ added[j] = One(added[j].file)
    BY <1>7, <1>8
  <2> QED
    BY <1>5, <1>9, <2>1
<1> QED
  BY <1>6, <1>7, <1>8, <1>9

\* What a call comes to.
LEMMA AfterIs ==
  ASSUME NEW call \in Call
  PROVE  /\ After(call) \in CallStage \union {"done"}
         /\ After(call) = "rmdir" =>
              /\ call.kind = "delete"
              /\ \/ call.stage = "readdir" /\ call.found = {}
                 \/ call.stage = "unlink" /\ call.file = Folder
         /\ After(call) = "unlink" =>
              call.kind = "delete" /\ (call.stage = "statAll" \/ call.file # Folder)
         /\ After(call) = "statAll" => call.stage = "readdir"
         /\ After(call) \in {"rename", "writeFile"} => After(call) = call.kind
<1>1. call.kind \in Kind /\ call.stage \in CallStage
  BY DEF Call
<1>2. CASE call.stage = "begun"
  BY <1>1, <1>2 DEF After, Kind, FileKind, FolderKind, CallStage
<1>3. CASE call.stage # "begun"
  BY <1>1, <1>3 DEF After, CallStage
<1> QED
  BY <1>2, <1>3

\* An operation leaves the queue, whatever becomes of the others.
LEMMA QueueTail ==
  ASSUME NEW operations \in Seq(Operation), operations # <<>>, NEW calls,
         QueueIsOf(operations, calls)
  PROVE  /\ Head(operations) \in Operation /\ Tail(operations) \in Seq(Operation)
         /\ IsOf(Head(operations), calls)
         /\ QueueIsOf(Tail(operations), calls)
         /\ \A i \in DOMAIN Tail(operations) :
              Twins(Head(operations), Tail(operations)[i]) => calls[Head(operations).for] = NoCall
         /\ HasRemove(Tail(operations)) => HasRemove(operations)
         /\ Head(operations).op = "rmdir" => HasRemove(operations)
<1> DEFINE rest == Tail(operations)
<1>1. /\ Head(operations) \in Operation /\ rest \in Seq(Operation)
      /\ 1 \in DOMAIN operations /\ operations[1] = Head(operations)
      /\ \A i \in DOMAIN rest : i \in Nat /\ i >= 1 /\ i + 1 \in DOMAIN operations /\ rest[i] = operations[i + 1]
  OBVIOUS
<1> HIDE DEF rest
<1>2. \A i \in DOMAIN rest : IsOf(rest[i], calls)
  BY <1>1 DEF QueueIsOf
<1>3. ASSUME NEW i \in DOMAIN rest, NEW j \in DOMAIN rest,
             Twins(rest[i], rest[j]), calls[rest[i].for] # NoCall
      PROVE  i = j
  <2>1. i + 1 = j + 1
    BY <1>1, <1>3 DEF QueueIsOf
  <2> QED
    BY <1>1, <2>1
<1>4. ASSUME NEW i \in DOMAIN rest, Twins(Head(operations), rest[i]),
             calls[Head(operations).for] # NoCall
      PROVE  FALSE
  <2>1. 1 = i + 1
    BY <1>1, <1>4 DEF QueueIsOf
  <2> QED
    BY <1>1, <2>1
<1>5. IsOf(Head(operations), calls)
  BY <1>1 DEF QueueIsOf
<1>6. /\ HasRemove(rest) => HasRemove(operations)
      /\ Head(operations).op = "rmdir" => HasRemove(operations)
  BY <1>1 DEF HasRemove
<1>7. QueueIsOf(rest, calls)
  BY <1>2, <1>3 DEF QueueIsOf
<1> QED
  BY <1>1, <1>4, <1>5, <1>6, <1>7 DEF rest

Calls == [Slots -> Call \union {NoCall}]

\* A search asks for a time.
LEMMA QueueAppend ==
  ASSUME NEW operations \in Seq(Operation), NEW calls, QueueIsOf(operations, calls),
         NEW o \in Operation, o.op = "lastModifiedTime"
  PROVE  /\ Append(operations, o) \in Seq(Operation)
         /\ QueueIsOf(Append(operations, o), calls)
         /\ HasRemove(Append(operations, o)) => HasRemove(operations)
         /\ operations # <<>> => Append(operations, o) # <<>> /\ Head(Append(operations, o)) = Head(operations)
<1> DEFINE more == Append(operations, o)
<1>1. /\ more \in Seq(Operation)
      /\ \A i \in DOMAIN more : (i \in DOMAIN operations /\ more[i] = operations[i]) \/ more[i] = o
  OBVIOUS
<1>2. operations # <<>> => more # <<>> /\ Head(more) = Head(operations)
  OBVIOUS
<1> HIDE DEF more
<1>3. \A i \in DOMAIN more : IsOf(more[i], calls)
  BY <1>1 DEF QueueIsOf, IsOf
<1>4. ASSUME NEW i \in DOMAIN more, NEW j \in DOMAIN more,
             Twins(more[i], more[j]), calls[more[i].for] # NoCall
      PROVE  i = j
  <2>1. /\ i \in DOMAIN operations /\ more[i] = operations[i]
        /\ j \in DOMAIN operations /\ more[j] = operations[j]
    BY <1>1, <1>4 DEF Twins
  <2> QED
    BY <1>4, <2>1 DEF QueueIsOf
<1>5. HasRemove(more) => HasRemove(operations)
  BY <1>1 DEF HasRemove
<1>6. QueueIsOf(more, calls)
  BY <1>3, <1>4 DEF QueueIsOf
<1> QED
  BY <1>1, <1>2, <1>5, <1>6 DEF more

\* A call ends, and leaves what it has in the queue.
LEMMA CallEnds ==
  ASSUME NEW operations \in Seq(Operation), NEW calls \in Calls, NEW r \in Slots,
         QueueIsOf(operations, calls)
  PROVE  QueueIsOf(operations, [calls EXCEPT ![r] = NoCall])
<1> DEFINE after == [calls EXCEPT ![r] = NoCall]
<1>1. \A s \in Slots : after[s] # NoCall => after[s] = calls[s]
  BY DEF Calls
<1> HIDE DEF after
<1>2. \A i \in DOMAIN operations : IsOf(operations[i], after)
  BY <1>1 DEF QueueIsOf, IsOf
<1>3. ASSUME NEW i \in DOMAIN operations, NEW j \in DOMAIN operations,
             Twins(operations[i], operations[j]), after[operations[i].for] # NoCall
      PROVE  i = j
  <2>1. operations[i].for \in Slots
    BY <1>3 DEF QueueIsOf, IsOf, Twins
  <2> QED
    BY <1>1, <1>3, <2>1 DEF QueueIsOf
<1> QED
  BY <1>2, <1>3 DEF QueueIsOf, after

\* One of the operations of a call is done.
LEMMA CallAdvances ==
  ASSUME NEW operations \in Seq(Operation), NEW calls \in Calls, NEW r \in Slots,
         QueueIsOf(operations, calls), calls[r] # NoCall,
         NEW file, NEW call, call.stage = calls[r].stage,
         call.pending = calls[r].pending \ {file},
         \A i \in DOMAIN operations :
           operations[i].op # "lastModifiedTime" /\ operations[i].for = r => operations[i].file # file
  PROVE  QueueIsOf(operations, [calls EXCEPT ![r] = call])
<1> DEFINE after == [calls EXCEPT ![r] = call]
<1>1. after[r] = call /\ \A s \in Slots : s # r => after[s] = calls[s]
  BY DEF Calls
<1> HIDE DEF after
<1>2. ASSUME NEW i \in DOMAIN operations
      PROVE  IsOf(operations[i], after)
  <2>1. IsOf(operations[i], calls)
    BY DEF QueueIsOf
  <2>2. CASE operations[i].for = r
    BY <1>1, <2>1, <2>2 DEF IsOf
  <2>3. CASE operations[i].for # r
    BY <1>1, <2>1, <2>3 DEF IsOf
  <2> QED
    BY <2>2, <2>3
<1>3. ASSUME NEW i \in DOMAIN operations, NEW j \in DOMAIN operations,
             Twins(operations[i], operations[j]), after[operations[i].for] # NoCall
      PROVE  i = j
  <2>1. operations[i].for \in Slots
    BY <1>3 DEF QueueIsOf, IsOf, Twins
  <2> QED
    BY <1>1, <1>3, <2>1 DEF QueueIsOf
<1> QED
  BY <1>2, <1>3 DEF QueueIsOf, after

\* NoMrLoad of the operations is of slot r.
Free(operations, r) ==
  \A i \in DOMAIN operations : operations[i].op # "lastModifiedTime" => operations[i].for # r

\* A call goes on with operations of its own, or ends.
LEMMA CallContinues ==
  ASSUME NEW operations \in Seq(Operation), NEW calls \in Calls, NEW r \in Slots,
         QueueIsOf(operations, calls), Free(operations, r),
         NEW call \in Call,
         call.stage \in {"unlink", "rename", "writeFile"} => call.pending \subseteq File,
         call.stage = "rename" => call.to \in File
  PROVE  LET more == operations \o Operations(r, call) IN
         /\ more \in Seq(Operation)
         /\ QueueIsOf(more, [calls EXCEPT ![r] = call])
         /\ HasRemove(more) => HasRemove(operations) \/ call.stage = "rmdir"
         /\ operations # <<>> => more # <<>> /\ Head(more) = Head(operations)
<1> DEFINE added == Operations(r, call)
           more == operations \o added
           after == [calls EXCEPT ![r] = call]
<1>1. /\ added \in Seq(Operation)
      /\ \A i \in DOMAIN added :
           /\ added[i].op = OpOf(call.stage) /\ added[i].file \in call.pending
           /\ added[i].to = call.to /\ added[i].for = r
      /\ \A i, j \in DOMAIN added : added[i].file = added[j].file => i = j
  BY OperationsAre
<1>2. after[r] = call /\ \A s \in Slots : s # r => after[s] = calls[s]
  BY DEF Calls
<1> HIDE DEF added, after
<1>3. /\ more \in Seq(Operation) /\ Len(operations) \in Nat
      /\ \A i \in DOMAIN more : i \in Nat /\
           \/ i \in DOMAIN operations /\ more[i] = operations[i]
           \/ /\ i > Len(operations) /\ i - Len(operations) \in DOMAIN added
              /\ more[i] = added[i - Len(operations)]
  <2>1. more \in Seq(Operation) /\ Len(more) = Len(operations) + Len(added)
    BY <1>1
  <2>2. \A i \in 1 .. Len(operations) : more[i] = operations[i]
    BY <1>1
  <2>3. \A i \in Len(operations) + 1 .. Len(operations) + Len(added) :
          more[i] = added[i - Len(operations)]
    BY <1>1
  <2> QED
    BY <1>1, <2>1, <2>2, <2>3
<1>4. operations # <<>> => more # <<>> /\ Head(more) = Head(operations)
  BY <1>1
<1> HIDE DEF more
<1>5. \A i \in DOMAIN added : IsOf(added[i], after)
  BY <1>1, <1>2 DEF IsOf, OpOf
<1>6. \A i \in DOMAIN operations : IsOf(operations[i], after)
  BY <1>2 DEF QueueIsOf, IsOf, Free
<1>7. \A i \in DOMAIN more : IsOf(more[i], after)
  BY <1>3, <1>5, <1>6
<1>8. ASSUME NEW i \in DOMAIN more, NEW j \in DOMAIN more,
             Twins(more[i], more[j]), after[more[i].for] # NoCall
      PROVE  i = j
  <2>1. CASE more[i].for = r
    <3>1. more[j].for = r
      BY <1>8, <2>1 DEF Twins
    <3>2. /\ i - Len(operations) \in DOMAIN added /\ more[i] = added[i - Len(operations)]
          /\ j - Len(operations) \in DOMAIN added /\ more[j] = added[j - Len(operations)]
      BY <1>3, <1>8, <2>1, <3>1 DEF Twins, Free
    <3>3. i - Len(operations) = j - Len(operations)
      BY <1>1, <1>8, <3>2 DEF Twins
    <3> QED
      BY <1>3, <3>3
  <2>2. CASE more[i].for # r
    <3>1. more[j].for # r
      BY <1>8, <2>2 DEF Twins
    <3>2. /\ i \in DOMAIN operations /\ more[i] = operations[i]
          /\ j \in DOMAIN operations /\ more[j] = operations[j]
      BY <1>1, <1>3, <2>2, <3>1
    <3>3. more[i].for \in Slots
      BY <1>7, <1>8 DEF IsOf, Twins
    <3>4. calls[operations[i].for] # NoCall
      BY <1>2, <1>8, <2>2, <3>2, <3>3
    <3> QED
      BY <1>8, <3>2, <3>4 DEF QueueIsOf
  <2> QED
    BY <2>1, <2>2
<1>9. HasRemove(more) => HasRemove(operations) \/ call.stage = "rmdir"
  BY <1>1, <1>3 DEF HasRemove, OpOf
<1>10. QueueIsOf(more, after)
  BY <1>7, <1>8 DEF QueueIsOf
<1> QED
  BY <1>3, <1>4, <1>9, <1>10 DEF more, added, after

\* A call whose stage is done, where these files are gone.
IsDone(call, gone) ==
  /\ call.kind \in {"rename", "writeFile"} => call.file \in File
  /\ call.kind = "rename" => call.to \in File
  /\ call.stage = "readdir" => Tracked \subseteq gone \union call.found
  /\ call.kind = "delete" /\ call.file = Folder =>
       /\ call.stage = "statAll" => Tracked \subseteq gone \union call.found
       /\ call.stage = "unlink" => Tracked \subseteq gone

LEMMA ContinueStep ==
  ASSUME inFlight \in Calls, NEW r \in Slots, NEW call \in Call, NEW gone, IsDone(call, gone),
         NEW rest \in Seq(Operation), QueueIsOf(rest, inFlight), Free(rest, r),
         Continue(r, call, rest)
  PROVE  /\ queue' \in Seq(Operation) /\ inFlight' \in Calls
         /\ QueueIsOf(queue', inFlight')
         /\ HasRemove(queue') => HasRemove(rest) \/ Tracked \subseteq gone
         /\ inFlight'[r] # NoCall => IsSound(inFlight'[r], gone)
         /\ \A s \in Slots : s # r => inFlight'[s] = inFlight[s]
         /\ rest # <<>> => queue' # <<>> /\ Head(queue') = Head(rest)
<1> DEFINE upcoming == After(call)
           next == [call EXCEPT !.stage = upcoming, !.pending = Targets(call, upcoming)]
<1>1. CASE upcoming = "done"
  <2>1. inFlight' = [inFlight EXCEPT ![r] = NoCall] /\ queue' = rest
    BY <1>1 DEF Continue
  <2>2. QueueIsOf(rest, [inFlight EXCEPT ![r] = NoCall])
    BY CallEnds
  <2> QED
    BY <2>1, <2>2 DEF Calls
<1>2. CASE upcoming # "done"
  <2>1. inFlight' = [inFlight EXCEPT ![r] = next] /\ queue' = rest \o Operations(r, next)
    BY <1>2 DEF Continue
  <2>2. /\ upcoming \in CallStage
        /\ upcoming = "rmdir" =>
             /\ call.kind = "delete"
             /\ \/ call.stage = "readdir" /\ call.found = {}
                \/ call.stage = "unlink" /\ call.file = Folder
        /\ upcoming = "unlink" =>
             call.kind = "delete" /\ (call.stage = "statAll" \/ call.file # Folder)
        /\ upcoming = "statAll" => call.stage = "readdir"
        /\ upcoming \in {"rename", "writeFile"} => upcoming = call.kind
    BY <1>2, AfterIs
  <2> HIDE DEF upcoming
  <2>3. /\ call.file \in Path /\ call.found \subseteq File
        /\ call.file # Folder => call.file \in File
        /\ Targets(call, upcoming) \subseteq Path
    BY DEF Call, Path, Targets
  <2>4. /\ next \in Call /\ next.stage = upcoming /\ next.pending = Targets(call, upcoming)
        /\ next.kind = call.kind /\ next.file = call.file /\ next.to = call.to
        /\ next.found = call.found
    BY <2>2, <2>3 DEF Call
  <2> HIDE DEF next
  <2>5. upcoming \in {"unlink", "rename", "writeFile"} => Targets(call, upcoming) \subseteq File
    BY <2>2, <2>3 DEF Targets, IsDone
  <2>6. upcoming = "unlink" /\ call.file = Folder => Targets(call, upcoming) = call.found
    BY DEF Targets
  <2>7. upcoming = "rmdir" => Tracked \subseteq gone
    BY <2>2 DEF IsDone
  <2>8. IsSound(next, gone)
    BY <2>2, <2>4, <2>5, <2>6, <2>7 DEF IsSound, IsDone
  <2>9. upcoming = "rename" => next.to \in File
    BY <2>2, <2>4 DEF IsDone
  <2>10. /\ queue' \in Seq(Operation) /\ QueueIsOf(queue', [inFlight EXCEPT ![r] = next])
         /\ HasRemove(queue') => HasRemove(rest) \/ next.stage = "rmdir"
         /\ rest # <<>> => queue' # <<>> /\ Head(queue') = Head(rest)
    BY <2>1, <2>4, <2>5, <2>9, CallContinues
  <2>11. inFlight' \in Calls /\ inFlight'[r] = next
         /\ \A s \in Slots : s # r => inFlight'[s] = inFlight[s]
    BY <2>1, <2>4 DEF Calls
  <2> QED
    BY <2>1, <2>4, <2>7, <2>8, <2>10, <2>11
<1> QED
  BY <1>1, <1>2

\* What an operation that has the lock does: a file goes by an operation of its own,
\* and the folder without any.
LEMMA DiskStep ==
  ASSUME FilesTypeOK, FilesAreInFolder, NEW o, IsOf(o, inFlight), o.op # "lastModifiedTime",
         o.op = "rmdir" => Tracked \subseteq Gone,
         Can(o), Does(o)
  PROVE  /\ written' \subseteq File /\ folder' \in BOOLEAN /\ logged' \subseteq Path
         /\ FilesAreInFolder' /\ Gone \subseteq Gone'
         /\ o.op = "unlink" /\ o.file \in Tracked => o.file \in Gone'
         /\ o.op = "readdir" => Tracked \subseteq Gone' \union Visible
         /\ \A f \in Visible \ Visible' : o.op \in {"unlink", "rename"} /\ o.file = f
         /\ IsThere(Folder) /\ ~IsThere(Folder)' => Visible = {}
<1> USE FilesAssumption DEF FilesTypeOK, Path
<1>0. /\ Folder \notin Tracked /\ Tracked \subseteq File
      /\ Visible = {f \in Tracked : f \notin Gone} \union written
      /\ Visible' = {f \in Tracked : f \notin Gone'} \union written'
      /\ IsThere(Folder) <=> Folder \notin logged \/ folder
      /\ IsThere(Folder)' <=> Folder \notin logged' \/ folder'
      /\ \A f \in Tracked : InReadable(f) <=> f \notin Gone
  BY DEF Visible, Children, Entries, InEntries, InReadable, Gone, IsThere, InWritable
<1>1. o.op \in {"unlink", "rename", "writeFile"} => o.file \in File
  BY DEF IsOf
<1>2. o.op = "rename" => o.to \in File
  BY DEF IsOf
<1>3. CASE o.op = "writeFile"
  <2>1. written' = written \union {o.file} /\ folder' = TRUE /\ logged' = logged
    BY <1>3 DEF Does, Put
  <2> QED
    BY <1>0, <1>1, <1>3, <2>1 DEF FilesAreInFolder, Gone
<1>4. CASE o.op = "createDirectory"
  <2>1. written' = written /\ folder' = TRUE /\ logged' = logged
    BY <1>4 DEF Does, Mkdir
  <2> QED
    BY <1>0, <1>4, <2>1 DEF FilesAreInFolder, Gone
<1>5. CASE o.op = "unlink"
  <2>1. written' = written \ {o.file} /\ folder' = folder
        /\ logged' = IF InReadable(o.file) THEN logged \union {o.file} ELSE logged
    BY <1>5 DEF Does, Unlink, Log
  <2> QED
    BY <1>0, <1>1, <1>5, <2>1 DEF FilesAreInFolder, Gone
<1>6. CASE o.op = "rename"
  <2>1. written' = (written \union {o.to}) \ {o.file} /\ folder' = TRUE
        /\ logged' = IF InReadable(o.file) THEN logged \union {o.file} ELSE logged
    BY <1>6 DEF Does, Rename, Log
  <2> QED
    BY <1>0, <1>1, <1>2, <1>6, <2>1 DEF FilesAreInFolder, Gone
<1>7. CASE o.op = "rmdir"
  <2>1. written' = written /\ folder' = FALSE
        /\ logged' = IF InReadable(Folder) THEN logged \union {Folder} ELSE logged
    BY <1>7 DEF Does, Rmdir, Log
  <2>2. written = {}
    BY <1>7 DEF Can, FilesAreInFolder
  <2> QED
    BY <1>0, <1>7, <2>1, <2>2 DEF FilesAreInFolder, Gone
<1>8. CASE o.op \notin {"writeFile", "createDirectory", "unlink", "rename", "rmdir"}
  <2>1. UNCHANGED <<written, folder, logged>>
    BY <1>8 DEF Does, disk
  <2> QED
    BY <1>0, <1>8, <2>1 DEF FilesAreInFolder, Gone
<1> QED
  BY <1>3, <1>4, <1>5, <1>6, <1>7, <1>8

LEMMA SoundStays ==
  ASSUME NEW call, NEW gone, NEW more, gone \subseteq more, IsSound(call, gone)
  PROVE  IsSound(call, more)
BY DEF IsSound

\* The operation that has the lock is done.
LEMMA RunStep ==
  ASSUME FilesInvariant, RunOperation
  PROVE  /\ FilesInvariant'
         /\ \A f \in Visible \ Visible' : HoldsLock.op \in {"unlink", "rename"} /\ HoldsLock.file = f
         /\ IsThere(Folder) /\ ~IsThere(Folder)' => Visible = {}
<1> USE DEF FilesInvariant
<1> DEFINE o == Head(queue)
           r == o.for
           call == inFlight[r]
           rest == Tail(queue)
<1>1. /\ queue \in Seq(Operation) /\ queue # <<>> /\ inFlight \in Calls
      /\ o.op # "lastModifiedTime" /\ Can(o) /\ Does(o) /\ Succeed(r)
      /\ fetches["overlay"] = NoFetch /\ fetches' = fetches
  BY DEF FilesTypeOK, RunOperation, IsHeld, HoldsLock, Calls
<1>2. /\ o \in Operation /\ rest \in Seq(Operation) /\ IsOf(o, inFlight) /\ QueueIsOf(rest, inFlight)
      /\ \A i \in DOMAIN rest : Twins(o, rest[i]) => inFlight[o.for] = NoCall
      /\ HasRemove(rest) => HasRemove(queue)
      /\ o.op = "rmdir" => HasRemove(queue)
  BY <1>1, QueueTail
<1>3. HoldsLock = o
  BY DEF HoldsLock
<1> HIDE DEF o, rest
<1>4. o.op = "rmdir" => Tracked \subseteq Gone
  BY <1>2 DEF RemovesAreLast
<1>5. /\ written' \subseteq File /\ folder' \in BOOLEAN /\ logged' \subseteq Path
      /\ FilesAreInFolder' /\ Gone \subseteq Gone'
      /\ o.op = "unlink" /\ o.file \in Tracked => o.file \in Gone'
      /\ o.op = "readdir" => Tracked \subseteq Gone' \union Visible
      /\ \A f \in Visible \ Visible' : o.op \in {"unlink", "rename"} /\ o.file = f
      /\ IsThere(Folder) /\ ~IsThere(Folder)' => Visible = {}
  BY <1>1, <1>2, <1>4, DiskStep
<1>6. PICK gone : gone = Gone'
  OBVIOUS
<1>7. r \in Slots
  BY <1>1, <1>2 DEF IsOf
<1>8. ASSUME queue' \in Seq(Operation), inFlight' \in Calls, QueueIsOf(queue', inFlight'),
             HasRemove(queue') => HasRemove(rest) \/ Tracked \subseteq gone,
             inFlight'[r] # NoCall => IsSound(inFlight'[r], gone),
             \A s \in Slots : s # r => inFlight'[s] = inFlight[s]
      PROVE  FilesInvariant'
  <2>1. FilesTypeOK'
    BY <1>1, <1>5, <1>8 DEF FilesTypeOK, Calls
  <2>2. \A s \in Slots : inFlight'[s] # NoCall => IsSound(inFlight'[s], gone)
    <3>1. ASSUME NEW s \in Slots, s # r, inFlight'[s] # NoCall
          PROVE  IsSound(inFlight'[s], gone)
      <4>1. IsSound(inFlight[s], Gone) /\ inFlight'[s] = inFlight[s] /\ Gone \subseteq gone
        BY <1>5, <1>6, <1>8, <3>1 DEF CallsAreSound
      <4> QED
        BY <4>1, SoundStays
    <3> QED
      BY <1>8, <3>1
  <2>3. CallsAreSound'
    BY <1>6, <2>2 DEF CallsAreSound
  <2>4. RemovesAreLast'
    BY <1>2, <1>5, <1>6, <1>8 DEF RemovesAreLast
  <2>5. FetchHasLock'
    BY <1>1 DEF FetchHasLock, NoFetch
  <2> QED
    BY <1>5, <1>8, <2>1, <2>3, <2>4, <2>5
<1>9. CASE call = NoCall
  <2>1. queue' = rest /\ inFlight' = inFlight
    BY <1>1, <1>3, <1>9 DEF Succeed, rest
  <2> QED
    BY <1>1, <1>2, <1>3, <1>5, <1>8, <1>9, <2>1
<1>10. CASE call # NoCall
  <2> DEFINE done == [call EXCEPT !.pending = @ \ {o.file},
                        !.found = IF o.op = "readdir" THEN Visible ELSE @]
  <2>1. /\ call \in Call /\ o.op = OpOf(call.stage) /\ o.file \in call.pending
        /\ IsSound(call, Gone)
    BY <1>1, <1>2, <1>7, <1>10 DEF Calls, IsOf, CallsAreSound
  <2>2. Visible \subseteq File
    BY FilesAssumption DEF Visible, Children, Entries, FilesTypeOK
  <2>3. /\ done \in Call /\ done.stage = call.stage /\ done.kind = call.kind
        /\ done.file = call.file /\ done.to = call.to
        /\ done.pending = call.pending \ {o.file}
        /\ done.found = IF o.op = "readdir" THEN Visible ELSE call.found
    BY <2>1, <2>2 DEF Call
  <2>4. CASE done.pending = {}
    <3>1. Continue(r, done, rest)
      BY <1>1, <1>3, <1>10, <2>4 DEF Succeed, rest
    <3> HIDE DEF done
    <3>2. Free(rest, r)
      <4>1. ASSUME NEW i \in DOMAIN rest, rest[i].op # "lastModifiedTime", rest[i].for = r
            PROVE  FALSE
        <5>1. IsOf(rest[i], inFlight)
          BY <1>2 DEF QueueIsOf
        <5>2. rest[i].file \in call.pending
          BY <1>10, <4>1, <5>1 DEF IsOf
        <5>3. rest[i].file = o.file
          BY <2>3, <2>4, <5>2
        <5>4. Twins(o, rest[i])
          BY <1>1, <4>1, <5>3 DEF Twins
        <5> QED
          BY <1>2, <1>10, <5>4
      <4> QED
        BY <4>1 DEF Free
    <3>3. IsDone(done, gone)
      <4>1. done.stage = "readdir" => Tracked \subseteq gone \union done.found
        BY <1>5, <1>6, <2>1, <2>3 DEF OpOf
      <4>2. done.kind = "delete" /\ done.file = Folder /\ done.stage = "statAll" =>
              Tracked \subseteq gone \union done.found
        BY <1>5, <1>6, <2>1, <2>3 DEF OpOf, IsSound
      <4>3. done.kind = "delete" /\ done.file = Folder /\ done.stage = "unlink" =>
              Tracked \subseteq gone
        BY <1>5, <1>6, <2>1, <2>3, <2>4 DEF OpOf, IsSound
      <4> QED
        BY <2>1, <2>3, <4>1, <4>2, <4>3 DEF IsDone, IsSound
    <3>4. /\ queue' \in Seq(Operation) /\ inFlight' \in Calls
          /\ QueueIsOf(queue', inFlight')
          /\ HasRemove(queue') => HasRemove(rest) \/ Tracked \subseteq gone
          /\ inFlight'[r] # NoCall => IsSound(inFlight'[r], gone)
          /\ \A s \in Slots : s # r => inFlight'[s] = inFlight[s]
      BY <1>1, <1>2, <1>7, <2>3, <3>1, <3>2, <3>3, ContinueStep
    <3> QED
      BY <1>3, <1>5, <1>8, <3>4
  <2>5. CASE done.pending # {}
    <3>1. queue' = rest /\ inFlight' = [inFlight EXCEPT ![r] = done]
      BY <1>1, <1>3, <1>10, <2>5 DEF Succeed, rest
    <3> HIDE DEF done
    <3>2. \A i \in DOMAIN rest :
            rest[i].op # "lastModifiedTime" /\ rest[i].for = r => rest[i].file # o.file
      BY <1>1, <1>2, <1>10 DEF Twins
    <3>3. QueueIsOf(rest, [inFlight EXCEPT ![r] = done])
      BY <1>1, <1>2, <1>7, <1>10, <2>3, <3>2, CallAdvances
    <3>4. IsSound(done, gone)
      <4>1. done.kind = "delete" /\ done.file = Folder /\ done.stage = "unlink" =>
              Tracked \subseteq gone \union done.pending
        BY <1>5, <1>6, <2>1, <2>3 DEF OpOf, IsSound
      <4>2. done.kind = "delete" /\ done.file = Folder /\ done.stage = "statAll" =>
              Tracked \subseteq gone \union done.found
        BY <1>5, <1>6, <2>1, <2>3 DEF OpOf, IsSound
      <4> QED
        BY <1>5, <1>6, <2>1, <2>3, <4>1, <4>2 DEF IsSound
    <3>5. /\ inFlight' \in Calls /\ inFlight'[r] = done
          /\ \A s \in Slots : s # r => inFlight'[s] = inFlight[s]
      BY <1>1, <1>7, <2>3, <3>1 DEF Calls
    <3> QED
      BY <1>2, <1>3, <1>5, <1>8, <3>1, <3>3, <3>4, <3>5
  <2> QED
    BY <2>4, <2>5
<1> QED
  BY <1>9, <1>10

\* The operation that has the lock can still be done.
LEMMA FetchStays ==
  ASSUME FilesInvariant, UNCHANGED <<written, logged>>, folder => folder',
         queue # <<>> => queue' # <<>> /\ Head(queue') = Head(queue),
         fetches'["overlay"] # NoFetch => fetches["overlay"] # NoFetch
  PROVE  FetchHasLock'
<1> USE FilesAssumption DEF FilesInvariant
<1>1. CASE fetches'["overlay"] = NoFetch
  BY <1>1 DEF FetchHasLock, NoFetch
<1>2. CASE fetches'["overlay"] # NoFetch
  <2>1. /\ queue # <<>> /\ Head(queue).op \in {"readFile", "rename"} /\ Can(Head(queue))
    BY <1>2 DEF FetchHasLock, IsHeld, HoldsLock
  <2>2. PICK o : o = Head(queue)
    OBVIOUS
  <2>3. /\ queue' # <<>> /\ Head(queue') = o /\ o.op \in {"readFile", "rename"} /\ Can(o)
        /\ IsOf(o, inFlight)
    BY <2>1, <2>2, QueueTail DEF FilesTypeOK
  <2>4. o.op = "rename" => o.file \in File /\ o.to \in File
    BY <2>3 DEF IsOf
  <2>5. /\ \A f : IsThere(f) => IsThere(f)'
        /\ \A f \in File : IsThere(f)' => IsThere(f)
    BY DEF IsThere, InReadable, InWritable, InEntries, Entries
  <2>6. CASE o.op = "readFile"
    <3>1. IsThere(o.file)'
      BY <2>3, <2>5, <2>6 DEF Can
    <3> QED
      BY <2>3, <2>6, <3>1 DEF FetchHasLock, IsHeld, HoldsLock, Can
  <2>7. CASE o.op = "rename"
    <3>1. IsThere(o.file)' /\ ~IsThere(o.to)'
      BY <2>3, <2>4, <2>5, <2>7 DEF Can, MayRename
    <3> QED
      BY <2>3, <2>7, <3>1 DEF FetchHasLock, IsHeld, HoldsLock, Can, MayRename
  <2> QED
    BY <2>3, <2>6, <2>7
<1> QED
  BY <1>1, <1>2

\* A step that leaves the files and the calls alone.
LEMMA QuietFilesStep ==
  ASSUME FilesInvariant, UNCHANGED <<written, logged, inFlight>>,
         folder' \in BOOLEAN, folder => folder',
         queue' \in Seq(Operation), QueueIsOf(queue', inFlight),
         HasRemove(queue') => HasRemove(queue),
         fetches' \in [{"overlay", "original", "base"} ->
                         [stage : {"none", "limited", "sent"}, file : Path]],
         FetchHasLock'
  PROVE  FilesInvariant'
<1> USE DEF FilesInvariant
<1>1. Gone' = Gone
  BY DEF Gone
<1>2. FilesTypeOK'
  BY DEF FilesTypeOK
<1>3. CallsAreSound' /\ RemovesAreLast' /\ FilesAreInFolder'
  BY <1>1 DEF CallsAreSound, RemovesAreLast, FilesAreInFolder
<1> QED
  BY <1>2, <1>3

\* A call begins.
LEMMA BeginStep ==
  ASSUME FilesInvariant, NEW r \in Slots, NEW kind, NEW file, NEW to,
         \/ kind \in FileKind /\ file \in File /\ to \in File
         \/ kind \in FolderKind /\ file = Folder /\ to = Folder
         \/ kind = "rename" /\ file \in File /\ to \in File,
         Begin(r, kind, file, to)
  PROVE  FilesInvariant'
<1> USE DEF FilesInvariant
<1> DEFINE call == CallOf(kind, file, to)
<1>1. /\ queue \in Seq(Operation) /\ inFlight \in Calls /\ inFlight[r] = NoCall
      /\ Continue(r, call, queue) /\ Free(queue, r)
      /\ UNCHANGED <<written, logged, folder, fetches>>
  BY DEF FilesTypeOK, Begin, disk, Calls, Free
<1>2. call \in Call /\ call.stage = "begun" /\ call.kind = kind /\ call.file = file /\ call.to = to
  BY DEF CallOf, Call, Kind, Path, CallStage
<1> HIDE DEF call
<1>3. IsDone(call, Gone)
  BY <1>2 DEF IsDone, FileKind, FolderKind
<1>4. /\ queue' \in Seq(Operation) /\ inFlight' \in Calls
      /\ QueueIsOf(queue', inFlight')
      /\ HasRemove(queue') => HasRemove(queue) \/ Tracked \subseteq Gone
      /\ inFlight'[r] # NoCall => IsSound(inFlight'[r], Gone)
      /\ \A s \in Slots : s # r => inFlight'[s] = inFlight[s]
      /\ queue # <<>> => queue' # <<>> /\ Head(queue') = Head(queue)
  BY <1>1, <1>2, <1>3, ContinueStep
<1>5. Gone' = Gone
  BY <1>1 DEF Gone
<1>6. FetchHasLock'
  BY <1>1, <1>4, FetchStays
<1>7. FilesTypeOK' /\ RemovesAreLast' /\ FilesAreInFolder'
  BY <1>1, <1>4, <1>5 DEF FilesTypeOK, RemovesAreLast, FilesAreInFolder, Calls
<1>8. CallsAreSound'
  BY <1>1, <1>4, <1>5 DEF CallsAreSound
<1> QED
  BY <1>4, <1>6, <1>7, <1>8

\* The operation that has the lock fails, and with it the call.
LEMMA FailStep ==
  ASSUME FilesInvariant, queue # <<>>, HoldsLock.op # "lastModifiedTime", Fail(HoldsLock.for),
         UNCHANGED <<written, logged, folder>>,
         fetches' \in [{"overlay", "original", "base"} ->
                         [stage : {"none", "limited", "sent"}, file : Path]],
         fetches'["overlay"] = NoFetch
  PROVE  FilesInvariant'
<1> USE DEF FilesInvariant
<1> DEFINE r == HoldsLock.for
           calls == [inFlight EXCEPT ![r] = NoCall]
<1>1. /\ queue \in Seq(Operation) /\ inFlight \in Calls
      /\ queue' = Tail(queue) /\ inFlight' = calls
  BY DEF FilesTypeOK, Calls, Fail
<1>2. /\ Tail(queue) \in Seq(Operation) /\ QueueIsOf(Tail(queue), inFlight)
      /\ HasRemove(Tail(queue)) => HasRemove(queue)
      /\ IsOf(HoldsLock, inFlight)
  BY <1>1, QueueTail DEF HoldsLock
<1>3. r \in Slots
  BY <1>2 DEF IsOf
<1>4. QueueIsOf(Tail(queue), calls)
  BY <1>1, <1>2, <1>3, CallEnds
<1>5. calls \in Calls /\ \A s \in Slots : calls[s] # NoCall => calls[s] = inFlight[s]
  BY <1>1, <1>3 DEF Calls
<1> HIDE DEF calls
<1>6. Gone' = Gone
  BY DEF Gone
<1>7. FilesTypeOK' /\ RemovesAreLast' /\ FilesAreInFolder'
  BY <1>1, <1>2, <1>5, <1>6 DEF FilesTypeOK, RemovesAreLast, FilesAreInFolder, Calls
<1>8. CallsAreSound' /\ FetchHasLock'
  BY <1>1, <1>5, <1>6 DEF CallsAreSound, FetchHasLock, NoFetch
<1> QED
  BY <1>1, <1>4, <1>7, <1>8

\* Contents are fetched.
LEMMA FetchStep ==
  ASSUME FilesInvariant,
         \/ FetchForOverlay \/ BaseIsAnswered \/ ContentIsRefused("original")
         \/ \E f \in File : ReadOriginal(f) \/ ReadBase(f)
         \/ \E by \in DOMAIN fetches : TakeToken(by)
         \/ \E by \in {"overlay", "original"} : ContentComes(by)
  PROVE  FilesInvariant'
<1> USE DEF FilesInvariant
<1> DEFINE Fetches == [{"overlay", "original", "base"} ->
                         [stage : {"none", "limited", "sent"}, file : Path]]
<1>1. /\ UNCHANGED <<written, logged, inFlight, queue>>
      /\ folder' \in BOOLEAN /\ (folder => folder')
  <2>1. FetchForOverlay => /\ UNCHANGED <<written, logged, inFlight, queue>>
                           /\ folder' \in BOOLEAN /\ (folder => folder')
    BY DEF FetchForOverlay, FilesTypeOK
  <2> QED
    BY <2>1 DEF BaseIsAnswered, ContentIsRefused, ReadOriginal, ReadBase, TakeToken, ContentComes,
      FilesTypeOK, disk
<1>2. queue \in Seq(Operation) /\ fetches \in Fetches /\ Folder \in Path /\ File \subseteq Path
  BY DEF FilesTypeOK, Path
<1>3. NoFetch \in [stage : {"none", "limited", "sent"}, file : Path] /\ NoFetch.stage = "none"
  BY <1>2 DEF NoFetch
<1>4. fetches' \in Fetches
  <2>1. CASE FetchForOverlay
    <3>1. HoldsLock.file \in Path
      <4>1. queue # <<>>
        BY <2>1 DEF FetchForOverlay, NeedsContent, IsHeld
      <4>2. Head(queue) \in Operation
        BY <1>2, <4>1
      <4> QED
        BY <4>2 DEF HoldsLock, Operation
    <3> QED
      BY <1>2, <2>1, <3>1 DEF FetchForOverlay, AskContent
  <2>2. ASSUME NEW f \in File, ReadOriginal(f) \/ ReadBase(f)
        PROVE  fetches' \in Fetches
    BY <1>2, <2>2 DEF ReadOriginal, ReadBase, AskContent
  <2>3. ASSUME NEW by \in DOMAIN fetches, TakeToken(by)
        PROVE  fetches' \in Fetches
    BY <1>2, <2>3 DEF TakeToken
  <2>4. CASE BaseIsAnswered \/ ContentIsRefused("original")
    BY <1>2, <1>3, <2>4 DEF BaseIsAnswered, ContentIsRefused
  <2>5. ASSUME NEW by \in {"overlay", "original"}, ContentComes(by)
        PROVE  fetches' \in Fetches
    BY <1>2, <1>3, <2>5 DEF ContentComes
  <2> QED
    BY <2>1, <2>2, <2>3, <2>4, <2>5
<1>5. FetchHasLock'
  <2>1. CASE FetchForOverlay
    <3>1. /\ queue # <<>> /\ Head(queue).op \in {"readFile", "rename"} /\ Can(Head(queue))
      BY <2>1 DEF FetchForOverlay, NeedsContent, IsHeld, HoldsLock
    <3>2. PICK o : o = Head(queue)
      OBVIOUS
    <3>3. /\ o.op \in {"readFile", "rename"} /\ Can(o) /\ IsOf(o, inFlight)
          /\ o.op = "rename" => o.file \in File /\ o.to \in File
      BY <1>2, <3>1, <3>2, QueueTail DEF IsOf
    <3>4. /\ \A f : IsThere(f) => IsThere(f)'
          /\ \A f \in File : IsThere(f)' => IsThere(f)
      BY <1>1, FilesAssumption DEF IsThere, InReadable, InWritable, InEntries, Entries
    <3>5. o.op = "readFile" => IsThere(o.file)'
      BY <3>3, <3>4 DEF Can
    <3>6. o.op = "rename" => IsThere(o.file)' /\ ~IsThere(o.to)'
      BY <3>3, <3>4 DEF Can, MayRename
    <3>7. Can(o)'
      BY <3>3, <3>5, <3>6 DEF Can, MayRename
    <3>8. IsHeld' /\ HoldsLock' = o
      BY <1>1, <2>1, <3>2 DEF FetchForOverlay, NeedsContent, IsHeld, HoldsLock
    <3> QED
      BY <3>3, <3>7, <3>8 DEF FetchHasLock, Can, MayRename
  <2>2. CASE ~ FetchForOverlay
    <3>1. fetches'["overlay"] # NoFetch => fetches["overlay"] # NoFetch
      BY <1>2, <1>3, <2>2 DEF BaseIsAnswered, ContentIsRefused, ReadOriginal, ReadBase, AskContent,
        TakeToken, ContentComes
    <3> QED
      BY <1>1, <3>1, FetchStays
  <2> QED
    BY <2>1, <2>2
<1> QED
  BY <1>1, <1>2, <1>4, <1>5, QuietFilesStep

\* Searches ask for times, and are told.
LEMMA SearchStep ==
  ASSUME FilesInvariant, ServeTime \/ \E l \in Lister : Search(l) \/ ReadWritable(l)
  PROVE  FilesInvariant'
<1> USE DEF FilesInvariant
<1>1. /\ queue \in Seq(Operation) /\ UNCHANGED <<written, logged, folder, inFlight, fetches>>
      /\ folder \in BOOLEAN
  BY DEF FilesTypeOK, Search, ReadWritable, ServeTime, disk
<1>2. ASSUME NEW l \in Lister, Search(l) \/ ReadWritable(l)
      PROVE  FilesInvariant'
  <2> DEFINE asked == [op |-> "lastModifiedTime", file |-> Folder, to |-> Folder, for |-> l]
  <2>1. queue' = Append(queue, asked)
    BY <1>2 DEF Search, ReadWritable, AskTime
  <2>2. asked \in Operation /\ asked.op = "lastModifiedTime"
    BY DEF Operation, Path
  <2> HIDE DEF asked
  <2>3. /\ queue' \in Seq(Operation) /\ QueueIsOf(queue', inFlight)
        /\ HasRemove(queue') => HasRemove(queue)
        /\ queue # <<>> => queue' # <<>> /\ Head(queue') = Head(queue)
    BY <1>1, <2>1, <2>2, QueueAppend
  <2>4. FetchHasLock'
    BY <1>1, <2>3, FetchStays
  <2> QED
    BY <1>1, <2>3, <2>4, QuietFilesStep DEF FilesTypeOK
<1>3. CASE ServeTime
  <2>1. queue # <<>> /\ HoldsLock.op = "lastModifiedTime" /\ queue' = Tail(queue)
    BY <1>3 DEF ServeTime
  <2>2. /\ queue' \in Seq(Operation) /\ QueueIsOf(queue', inFlight)
        /\ HasRemove(queue') => HasRemove(queue)
    BY <1>1, <2>1, QueueTail
  <2>3. FetchHasLock'
    BY <1>1, <2>1 DEF FetchHasLock, IsHeld, NoFetch
  <2> QED
    BY <1>1, <2>2, <2>3, QuietFilesStep DEF FilesTypeOK
<1> QED
  BY <1>2, <1>3

LEMMA FilesStep ==
  ASSUME FilesInvariant, FilesNext \/ UNCHANGED fileVars
  PROVE  /\ FilesInvariant'
         /\ RunOperation \/ (UNCHANGED <<written, logged>> /\ (folder => folder'))
<1>1. CASE RunOperation
  BY <1>1, RunStep
<1>2. ASSUME NEW r \in Slots,
             \/ \E kind \in FileKind, f \in File : Begin(r, kind, f, f)
             \/ \E kind \in FolderKind : Begin(r, kind, Folder, Folder)
             \/ \E old, new \in File : old # new /\ Begin(r, "rename", old, new)
      PROVE  FilesInvariant' /\ UNCHANGED <<written, logged, folder>>
  <2>1. UNCHANGED <<written, logged, folder>>
    BY <1>2 DEF Begin, disk
  <2>2. ASSUME NEW kind \in FileKind, NEW f \in File, Begin(r, kind, f, f)
        PROVE  FilesInvariant'
    BY <2>2, BeginStep
  <2>3. ASSUME NEW kind \in FolderKind, Begin(r, kind, Folder, Folder)
        PROVE  FilesInvariant'
    BY <2>3, BeginStep
  <2>4. ASSUME NEW old \in File, NEW new \in File, Begin(r, "rename", old, new)
        PROVE  FilesInvariant'
    BY <2>4, BeginStep
  <2> QED
    BY <1>2, <2>1, <2>2, <2>3, <2>4
<1>3. CASE RefuseOperation
  <2>1. /\ queue # <<>> /\ HoldsLock.op # "lastModifiedTime" /\ Fail(HoldsLock.for)
        /\ ~ Can(HoldsLock) /\ UNCHANGED <<written, logged, folder, fetches>>
    BY <1>3 DEF RefuseOperation, IsHeld, disk
  <2>2. fetches["overlay"] = NoFetch
    BY <2>1 DEF FilesInvariant, FetchHasLock
  <2> QED
    BY <2>1, <2>2, FailStep DEF FilesInvariant, FilesTypeOK
<1>4. CASE ContentIsRefused("overlay")
  <2>1. /\ fetches["overlay"].stage = "sent" /\ Fail(HoldsLock.for)
        /\ fetches' = [fetches EXCEPT !["overlay"] = NoFetch]
        /\ UNCHANGED <<written, logged, folder>>
    BY <1>4 DEF ContentIsRefused, disk
  <2>2. queue # <<>> /\ HoldsLock.op # "lastModifiedTime"
    BY <2>1 DEF FilesInvariant, FetchHasLock, NoFetch, IsHeld
  <2>3. /\ fetches' \in [{"overlay", "original", "base"} ->
                           [stage : {"none", "limited", "sent"}, file : Path]]
        /\ fetches'["overlay"] = NoFetch
    BY <2>1 DEF FilesInvariant, FilesTypeOK, NoFetch, Path
  <2> QED
    BY <2>1, <2>2, <2>3, FailStep
<1>5. CASE \/ FetchForOverlay \/ BaseIsAnswered \/ ContentIsRefused("original")
           \/ \E f \in File : ReadOriginal(f) \/ ReadBase(f)
           \/ \E by \in DOMAIN fetches : TakeToken(by)
           \/ \E by \in {"overlay", "original"} : ContentComes(by)
  <2>1. FilesInvariant'
    BY <1>5, FetchStep
  <2>2. FetchForOverlay => UNCHANGED <<written, logged>> /\ (folder => folder')
    BY DEF FetchForOverlay
  <2>3. UNCHANGED <<written, logged>> /\ (folder => folder')
    BY <1>5, <2>2 DEF BaseIsAnswered, ContentIsRefused, ReadOriginal, ReadBase, TakeToken,
      ContentComes, disk
  <2> QED
    BY <2>1, <2>3
<1>6. CASE ServeTime \/ \E l \in Lister : Search(l) \/ ReadWritable(l)
  <2>1. UNCHANGED <<written, logged, folder>>
    BY <1>6 DEF ServeTime, Search, ReadWritable, disk
  <2> QED
    BY <1>6, <2>1, SearchStep
<1>7. CASE \/ Refill \/ ClockTicks \/ UNCHANGED fileVars
           \/ \E l \in Lister : Check(l) \/ ReadLog(l) \/ StoreKey(l)
  <2>1. UNCHANGED <<written, folder, logged, queue, inFlight, fetches>>
    BY <1>7 DEF Refill, ClockTicks, fileVars, Check, ReadLog, StoreKey, disk
  <2>2. FetchHasLock'
    BY <2>1, FetchStays
  <2> QED
    BY <2>1, <2>2, QuietFilesStep DEF FilesInvariant, FilesTypeOK
<1> QED
  BY <1>1, <1>2, <1>3, <1>4, <1>5, <1>6, <1>7 DEF FilesNext

LEMMA FilesInit0 == FilesInit => FilesInvariant
<1> SUFFICES ASSUME FilesInit PROVE FilesInvariant
  OBVIOUS
<1>1. FilesTypeOK
  <2>1. NoFetch \in [stage : {"none", "limited", "sent"}, file : Path]
    BY DEF NoFetch, Path
  <2>2. <<>> \in Seq(Operation) /\ FALSE \in BOOLEAN
    OBVIOUS
  <2>3. /\ written = {} /\ folder = FALSE /\ logged = {} /\ queue = <<>>
        /\ inFlight = [r \in Slots |-> NoCall]
        /\ fetches = [by \in {"overlay", "original", "base"} |-> NoFetch]
    BY DEF FilesInit
  <2>4. /\ inFlight \in [Slots -> Call \union {NoCall}]
        /\ fetches \in [{"overlay", "original", "base"} ->
                          [stage : {"none", "limited", "sent"}, file : Path]]
    BY <2>1, <2>3
  <2> QED
    BY <2>2, <2>3, <2>4 DEF FilesTypeOK
<1>2. QueueIsOf(queue, inFlight) /\ RemovesAreLast
  BY DEF FilesInit, QueueIsOf, RemovesAreLast, HasRemove
<1>3. CallsAreSound /\ FilesAreInFolder /\ FetchHasLock
  BY DEF FilesInit, CallsAreSound, FilesAreInFolder, FetchHasLock
<1> QED
  BY <1>1, <1>2, <1>3 DEF FilesInvariant

LEMMA FilesInvariantHolds == FilesSpec => []FilesInvariant
<1> QED
  BY FilesInit0, FilesStep, PTL DEF FilesSpec

\* A file goes by an operation of its own and never with its folder, whatever calls
\* overlap with the removal of the folder (WebIdeFileSystemBFS.ts:91-105,
\* OverlayFSImpl.ts:259).
THEOREM FolderGoesEmpty == FilesSpec => FolderTakesNoFile
<1> DEFINE Step == /\ \A f \in Visible \ Visible' :
                        HoldsLock.op \in {"unlink", "rename"} /\ HoldsLock.file = f
                   /\ IsThere(Folder) /\ ~IsThere(Folder)' => Visible = {}
<1>1. FilesInvariant /\ [FilesNext]_fileVars => [Step]_fileVars
  <2> SUFFICES ASSUME FilesInvariant, FilesNext \/ UNCHANGED fileVars PROVE Step
    OBVIOUS
  <2>1. CASE RunOperation
    BY <2>1, RunStep
  <2>2. CASE UNCHANGED <<written, logged>> /\ (folder => folder')
    BY <2>2 DEF Visible, Children, Entries, InEntries, InReadable, IsThere, InWritable
  <2> QED
    BY <2>1, <2>2, FilesStep
<1> QED
  BY <1>1, FilesInvariantHolds, PTL DEF FilesSpec, FolderTakesNoFile

-----------------------------------------------------------------------------
(* The list of files that quick open computes. *)

SearchStage == {"idle", "check", "checking", "status", "files", "key", "keying"}

SearchOf == [stage : SearchStage, time : Int, deleted : SUBSET Path, seen : SUBSET Path]

ListTypeOK ==
  /\ clock \in Int /\ rootTime \in Int /\ logTime \in Int
  /\ searches \in [Lister -> SearchOf]
  /\ list \in [time : Int, files : SUBSET File]

\* What a search has read of the log is still in it, and left what was there then.
LogIsRead(search) ==
  search.stage = "files" =>
    /\ search.deleted \intersect Tracked \subseteq Gone
    /\ Tracked \ search.deleted \subseteq search.seen

LogsAreRead == \A l \in Lister : LogIsRead(searches[l])

ListInvariant == FilesInvariant /\ ListTypeOK /\ LogsAreRead

\* Whatever the overlay does, the log forgets nothing.
LEMMA DiskTimes ==
  ASSUME ListTypeOK, NEW o, Does(o), clock' = clock
  PROVE  rootTime' \in Int /\ logTime' \in Int /\ Gone \subseteq Gone'
<1> USE DEF ListTypeOK
<1>1. ASSUME rootTime' = rootTime \/ rootTime' = clock, logTime' = logTime \/ logTime' = clock,
             logged \subseteq logged'
      PROVE  rootTime' \in Int /\ logTime' \in Int /\ Gone \subseteq Gone'
  BY <1>1 DEF Gone
<1>2. Touch => rootTime' = rootTime \/ rootTime' = clock
  BY DEF Touch
<1>3. ASSUME NEW path, Log(path)
      PROVE  (logTime' = logTime \/ logTime' = clock) /\ logged \subseteq logged'
  BY <1>3 DEF Log
<1>4. CASE o.op = "writeFile"
  BY <1>1, <1>2, <1>4 DEF Does, Put
<1>5. CASE o.op = "createDirectory"
  BY <1>1, <1>2, <1>5 DEF Does, Mkdir
<1>6. CASE o.op = "unlink"
  BY <1>1, <1>3, <1>6 DEF Does, Unlink
<1>7. CASE o.op = "rmdir"
  BY <1>1, <1>3, <1>7 DEF Does, Rmdir
<1>8. CASE o.op = "rename"
  BY <1>1, <1>2, <1>3, <1>8 DEF Does, Rename
<1>9. CASE o.op \notin {"writeFile", "createDirectory", "unlink", "rmdir", "rename"}
  BY <1>1, <1>9 DEF Does, disk
<1> QED
  BY <1>4, <1>5, <1>6, <1>7, <1>8, <1>9

\* A search goes on, and the others stay.
LEMMA SearchGoesOn ==
  ASSUME ListTypeOK, LogsAreRead, NEW l \in Lister, NEW search \in SearchOf,
         searches' = [searches EXCEPT ![l] = search], LogIsRead(search), Gone' = Gone
  PROVE  searches' \in [Lister -> SearchOf] /\ LogsAreRead'
<1>1. ASSUME NEW k \in Lister
      PROVE  searches'[k] = search \/ searches'[k] = searches[k]
  BY DEF ListTypeOK
<1>2. \A k \in Lister : LogIsRead(searches[k])
  BY DEF LogsAreRead
<1>3. ASSUME NEW k \in Lister
      PROVE  LogIsRead(searches[k])'
  BY <1>1, <1>2, <1>3 DEF LogIsRead
<1> QED
  BY <1>3 DEF ListTypeOK, LogsAreRead

LEMMA SearchLists ==
  ASSUME FilesInvariant, ListTypeOK, LogsAreRead, NEW l \in Lister,
         Search(l) \/ Check(l) \/ ReadLog(l) \/ ReadWritable(l) \/ StoreKey(l)
  PROVE  ListTypeOK' /\ LogsAreRead'
<1>1. UNCHANGED <<clock, rootTime, logTime>> /\ Gone' = Gone
  BY DEF Search, Check, ReadLog, ReadWritable, StoreKey, disk, Gone
<1>2. /\ searches[l] \in SearchOf /\ NoSearch \in SearchOf
      /\ NoSearch.stage = "idle" /\ NoSearch.time = NoTime /\ NoTime \in Int
      /\ list \in [time : Int, files : SUBSET File]
      /\ clock \in Int /\ rootTime \in Int /\ logTime \in Int
  BY DEF ListTypeOK, SearchOf, SearchStage, NoSearch, NoTime
<1>3. /\ written \subseteq File /\ logged \subseteq Path /\ Tracked \subseteq Path
      /\ Tracked \subseteq File /\ File \subseteq Path
  BY FilesAssumption DEF FilesInvariant, FilesTypeOK, Path
<1>4. Visible \subseteq Path
  BY <1>3 DEF Visible, Children, Entries
<1>5. LastModified(searches[l].time) \in Int
  BY <1>2 DEF LastModified, SearchOf
<1>6. ASSUME NEW search \in SearchOf, LogIsRead(search),
             searches' = [searches EXCEPT ![l] = search],
             list' \in [time : Int, files : SUBSET File]
      PROVE  ListTypeOK' /\ LogsAreRead'
  <2>1. searches' \in [Lister -> SearchOf] /\ LogsAreRead'
    BY <1>1, <1>6, SearchGoesOn
  <2> QED
    BY <1>1, <1>2, <1>6, <2>1 DEF ListTypeOK
<1>7. CASE Search(l)
  <2> DEFINE search == [NoSearch EXCEPT !.seen = Visible, !.stage = "check"]
  <2>1. searches' = [searches EXCEPT ![l] = search] /\ list' = list
    BY <1>7 DEF Search, AskTime, NoSearch
  <2>2. search \in SearchOf /\ search.stage = "check"
    BY <1>2, <1>4 DEF SearchOf, SearchStage
  <2> HIDE DEF search
  <2>3. LogIsRead(search)
    BY <2>2 DEF LogIsRead
  <2> QED
    BY <1>2, <1>6, <2>1, <2>2, <2>3
<1>8. CASE Check(l)
  <2>1. PICK search \in {NoSearch, [NoSearch EXCEPT !.stage = "status"]} :
          searches' = [searches EXCEPT ![l] = search]
    BY <1>8 DEF Check
  <2>2. list' = list
    BY <1>8 DEF Check
  <2>3. search \in SearchOf /\ LogIsRead(search)
    BY <1>2 DEF SearchOf, SearchStage, LogIsRead
  <2> QED
    BY <1>2, <1>6, <2>1, <2>2, <2>3
<1>9. CASE ReadLog(l)
  <2>1. PICK deleted \in SUBSET Path :
          /\ deleted = IF Folder \in logged THEN Tracked ELSE logged
          /\ searches' = [searches EXCEPT ![l].stage = "files", ![l].seen = Visible,
                            ![l].deleted = deleted]
    BY <1>3, <1>9 DEF ReadLog
  <2>2. PICK seen \in SUBSET Path : seen = Visible
    BY <1>4
  <2> DEFINE search == [searches[l] EXCEPT !.stage = "files", !.seen = seen, !.deleted = deleted]
  <2>3. searches' = [searches EXCEPT ![l] = search]
    <3>1. searches' = [searches EXCEPT ![l].stage = "files", ![l].seen = seen, ![l].deleted = deleted]
      BY <2>1, <2>2
    <3> QED
      BY <3>1 DEF ListTypeOK
  <2>4. /\ search \in SearchOf /\ search.stage = "files"
        /\ search.deleted = deleted /\ search.seen = seen
    BY <1>2 DEF SearchOf, SearchStage
  <2> HIDE DEF search
  <2>5. deleted \intersect Tracked \subseteq Gone
    BY <2>1 DEF Gone
  <2>6. Tracked \ deleted \subseteq seen
    BY <2>1, <2>2, FilesAssumption DEF Visible, Children, Entries, InReadable, InEntries
  <2>7. LogIsRead(search)
    BY <2>4, <2>5, <2>6 DEF LogIsRead
  <2>8. list' = list
    BY <1>9 DEF ReadLog
  <2> QED
    BY <1>2, <1>6, <2>3, <2>4, <2>7, <2>8
<1>10. CASE ReadWritable(l)
  <2>1. PICK listed \in SUBSET File : list' = [list EXCEPT !.files = listed]
    BY <1>3, <1>10 DEF ReadWritable
  <2>2. list' \in [time : Int, files : SUBSET File]
    BY <1>2, <2>1
  <2> DEFINE search == [NoSearch EXCEPT !.stage = "key"]
  <2>3. searches' = [searches EXCEPT ![l] = search]
    BY <1>10 DEF ReadWritable, AskTime
  <2>4. search \in SearchOf /\ search.stage = "key"
    BY <1>2 DEF SearchOf, SearchStage
  <2> HIDE DEF search
  <2>5. LogIsRead(search)
    BY <2>4 DEF LogIsRead
  <2> QED
    BY <1>6, <2>2, <2>3, <2>4, <2>5
<1>11. CASE StoreKey(l)
  <2>1. /\ list' = [list EXCEPT !.time = LastModified(searches[l].time)]
        /\ searches' = [searches EXCEPT ![l] = NoSearch]
    BY <1>11 DEF StoreKey
  <2>2. list' \in [time : Int, files : SUBSET File]
    BY <1>2, <1>5, <2>1
  <2>3. LogIsRead(NoSearch)
    BY <1>2 DEF LogIsRead
  <2> QED
    BY <1>2, <1>6, <2>1, <2>2, <2>3
<1> QED
  BY <1>7, <1>8, <1>9, <1>10, <1>11

\* While the log only grows, the searches are as sound as they were.
LEMMA LogsStayRead ==
  ASSUME LogsAreRead, searches' = searches, Gone \subseteq Gone'
  PROVE  LogsAreRead'
<1>1. ASSUME NEW l \in Lister
      PROVE  LogIsRead(searches[l])'
  <2>1. LogIsRead(searches[l])
    BY DEF LogsAreRead
  <2> QED
    BY <2>1 DEF LogIsRead
<1> QED
  BY <1>1 DEF LogsAreRead

LEMMA ListStep == ListInvariant /\ [FilesNext]_fileVars => ListInvariant'
<1> SUFFICES ASSUME ListInvariant, FilesNext \/ UNCHANGED fileVars PROVE ListInvariant'
  OBVIOUS
<1> USE DEF ListInvariant
<1>1. FilesInvariant'
  BY FilesStep
<1>2. ASSUME UNCHANGED <<clock, rootTime, logTime, logged, searches, list>>
      PROVE  ListTypeOK' /\ LogsAreRead'
  <2>1. Gone' = Gone
    BY <1>2 DEF Gone
  <2> QED
    BY <1>2, <2>1, LogsStayRead DEF ListTypeOK
<1>3. CASE RunOperation
  <2>1. Does(HoldsLock) /\ UNCHANGED <<clock, searches, list>>
    BY <1>3 DEF RunOperation
  <2>2. rootTime' \in Int /\ logTime' \in Int /\ Gone \subseteq Gone'
    BY <2>1, DiskTimes
  <2>3. LogsAreRead'
    BY <2>1, <2>2, LogsStayRead
  <2> QED
    BY <1>1, <2>1, <2>2, <2>3 DEF ListTypeOK
<1>4. CASE FetchForOverlay
  <2>1. /\ rootTime' = rootTime \/ rootTime' = clock
        /\ UNCHANGED <<clock, logTime, logged, searches, list>>
    BY <1>4 DEF FetchForOverlay, Touch
  <2>2. Gone' = Gone
    BY <2>1 DEF Gone
  <2>3. LogsAreRead'
    BY <2>1, <2>2, LogsStayRead
  <2> QED
    BY <1>1, <2>1, <2>3 DEF ListTypeOK
<1>5. CASE ClockTicks
  <2>1. clock' = clock + 1 /\ UNCHANGED <<rootTime, logTime, logged, searches, list>>
    BY <1>5 DEF ClockTicks, disk
  <2>2. Gone' = Gone
    BY <2>1 DEF Gone
  <2>3. LogsAreRead'
    BY <2>1, <2>2, LogsStayRead
  <2> QED
    BY <1>1, <2>1, <2>3 DEF ListTypeOK
<1>6. CASE ServeTime
  <2>1. /\ UNCHANGED <<clock, rootTime, logTime, logged, list>>
        /\ searches' = [searches EXCEPT ![HoldsLock.for].time = rootTime,
                          ![HoldsLock.for].stage = IF @ = "check" THEN "checking" ELSE "keying"]
    BY <1>6 DEF ServeTime, disk
  <2>2. PICK l : l = HoldsLock.for
    OBVIOUS
  <2>3. PICK upcoming \in {"checking", "keying"} :
          searches' = [searches EXCEPT ![l].time = rootTime, ![l].stage = upcoming]
    BY <2>1, <2>2
  <2>4. Gone' = Gone
    BY <2>1 DEF Gone
  <2>5. CASE l \in Lister
    <3> DEFINE search == [searches[l] EXCEPT !.time = rootTime, !.stage = upcoming]
    <3>1. searches' = [searches EXCEPT ![l] = search]
      BY <2>3, <2>5 DEF ListTypeOK
    <3>2. search \in SearchOf /\ search.stage = upcoming
      BY <2>5 DEF ListTypeOK, SearchOf, SearchStage
    <3> HIDE DEF search
    <3>3. LogIsRead(search)
      BY <3>2 DEF LogIsRead
    <3>4. searches' \in [Lister -> SearchOf] /\ LogsAreRead'
      BY <2>4, <2>5, <3>1, <3>2, <3>3, SearchGoesOn
    <3> QED
      BY <1>1, <2>1, <3>4 DEF ListTypeOK
  <2>6. CASE l \notin Lister
    <3>1. searches' = searches
      BY <2>3, <2>6 DEF ListTypeOK
    <3> QED
      BY <1>1, <1>2, <2>1, <3>1
  <2> QED
    BY <2>5, <2>6
<1>7. CASE \E l \in Lister : Search(l) \/ Check(l) \/ ReadLog(l) \/ ReadWritable(l) \/ StoreKey(l)
  BY <1>1, <1>7, SearchLists
<1>8. CASE \/ \E r \in Slots :
                \/ \E kind \in FileKind, f \in File : Begin(r, kind, f, f)
                \/ \E kind \in FolderKind : Begin(r, kind, Folder, Folder)
                \/ \E old, new \in File : old # new /\ Begin(r, "rename", old, new)
           \/ RefuseOperation \/ BaseIsAnswered \/ Refill
           \/ \E f \in File : ReadOriginal(f) \/ ReadBase(f)
           \/ \E by \in DOMAIN fetches : TakeToken(by)
           \/ \E by \in {"overlay", "original"} : ContentComes(by) \/ ContentIsRefused(by)
           \/ UNCHANGED fileVars
  <2>1. UNCHANGED <<clock, rootTime, logTime, logged, searches, list>>
    BY <1>8 DEF Begin, RefuseOperation, BaseIsAnswered, Refill, ReadOriginal, ReadBase, TakeToken,
      ContentComes, ContentIsRefused, fileVars, disk
  <2> QED
    BY <1>1, <1>2, <2>1
<1> QED
  BY <1>3, <1>4, <1>5, <1>6, <1>7, <1>8 DEF FilesNext

LEMMA ListInit == FilesInit => ListInvariant
<1> SUFFICES ASSUME FilesInit PROVE ListInvariant
  OBVIOUS
<1>1. NoSearch \in SearchOf /\ NoSearch.stage = "idle"
  BY DEF NoSearch, SearchOf, SearchStage, NoTime
<1>2. NoTime = -1
  BY DEF NoTime
<1>3. ListTypeOK
  BY <1>1, <1>2 DEF FilesInit, ListTypeOK
<1>4. LogsAreRead
  BY <1>1 DEF FilesInit, LogsAreRead, LogIsRead
<1> QED
  BY <1>3, <1>4, FilesInit0 DEF ListInvariant

\* A list that quick open computes has every file there is when it is done, and none but
\* those there were then or when it read the log, however calls overlap with it
\* (OverlaySourceControl.ts:45-49, FileList.ts:24-33).
THEOREM FreshListsMatch == FilesSpec => FreshListMatches
<1> DEFINE Step == \A l \in Lister : ReadWritable(l) =>
                     /\ Visible \subseteq list'.files
                     /\ list'.files \subseteq searches[l].seen \union Visible
<1>1. ASSUME ListInvariant, NEW l \in Lister, ReadWritable(l)
      PROVE  Visible \subseteq list'.files /\ list'.files \subseteq searches[l].seen \union Visible
  <2>1. list'.files = (Tracked \ searches[l].deleted) \union written
    BY <1>1 DEF ReadWritable, ListInvariant, ListTypeOK
  <2>2. /\ searches[l].deleted \intersect Tracked \subseteq Gone
        /\ Tracked \ searches[l].deleted \subseteq searches[l].seen
    BY <1>1 DEF ReadWritable, ListInvariant, LogsAreRead, LogIsRead
  <2>3. Visible \subseteq (Tracked \ Gone) \union written /\ written \subseteq Visible
    BY DEF Visible, Children, Entries, InReadable, InEntries, Gone
  <2> QED
    BY <2>1, <2>2, <2>3
<1>2. ListInvariant /\ [FilesNext]_fileVars => [Step]_fileVars
  BY <1>1
<1> QED
  BY <1>2, ListInit, ListStep, PTL DEF FilesSpec, FreshListMatches

=============================================================================
