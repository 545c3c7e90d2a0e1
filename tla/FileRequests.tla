---------------------------- MODULE FileRequests ----------------------------
(***************************************************************************)
(* What becomes of the calls of VS Code's file service, of quick open and  *)
(* the diff editors: GitLabFileSystemProvider and WebIdeFileSystemBFS turn *)
(* a call into operations of the overlay, which runs one at a time in      *)
(* the order they come (LockedFS); the contents of the repository's files  *)
(* are fetched when they are first read, under that lock if the overlay    *)
(* reads them; and the list of files is kept until the file system says it *)
(* has been modified.                                                      *)
(*                                                                         *)
(* The files are those in one folder of the repository.  OverlayFS has the *)
(* operations themselves; here they are atomic, and contents left out.     *)
(***************************************************************************)
EXTENDS Integers, Sequences, SequencesExt

CONSTANTS
  File,        \* the files that can be in the folder,
  Tracked,     \* those that the repository has,
  Folder,      \* and the folder
  Slots,       \* bound: the calls there can be at a time
  Lister,      \* the searches there can be at a time
  NoCall,
  Rate,        \* requests for contents per interval
  MaxCalls,    \* bound: how many calls are begun,
  MaxClock     \* and milliseconds

ASSUME FilesAssumption ==
  /\ IsFiniteSet(File) /\ Tracked \subseteq File /\ Tracked # {} /\ Folder \notin File
  /\ Rate \in Nat \ {0} /\ MaxCalls \in Nat /\ MaxClock \in Nat

VARIABLES
  written,    \* the files in writable
  folder,     \* whether the folder is in writable
  logged,     \* what the log of deleted files has
  fetched,    \* the repository's files whose contents have been fetched
  queue,      \* the operations that have, or wait for, the lock of the overlay
  inFlight,   \* the calls of the editor, by their slots,
  begun,      \* and how many there have been
  fetches,    \* of contents: for the overlay, and past it for the diff editors
  tokens,     \* what is left of the rate
  searches,   \* of quick open, and (history) the files seen when they began to look
  list,       \* the list of files, and the time it is for
  clock, rootTime, logTime

disk == <<written, folder, logged, fetched, rootTime, logTime>>
fileVars == <<disk, queue, inFlight, begun, fetches, tokens, searches, list, clock>>

NoTime == -1

\* A call in the stage of an operation, and what that has not been done for yet.
CallOf(kind, file, to) ==
  [kind |-> kind, file |-> file, to |-> to, stage |-> "begun", pending |-> {}, found |-> {}]

NoSearch == [stage |-> "idle", time |-> NoTime, deleted |-> {}, seen |-> {}]
NoFetch == [stage |-> "none", file |-> Folder]

FilesInit ==
  /\ written = {} /\ folder = FALSE /\ logged = {} /\ fetched = {}
  /\ queue = <<>>
  /\ inFlight = [r \in Slots |-> NoCall] /\ begun = 0
  /\ fetches = [by \in {"overlay", "original", "base"} |-> NoFetch] /\ tokens = Rate
  /\ searches = [l \in Lister |-> NoSearch]
  /\ list = [time |-> NoTime - 1, files |-> {}]
  /\ clock = 1 /\ rootTime = 0 /\ logTime = NoTime

-----------------------------------------------------------------------------
(* The overlay, one operation at a time. *)

\* createFileEntryMap: the blobs, and the folders they are in.
Entries == Tracked \union {Folder}

\* readable itself: stat, and readdir of the folder.
InEntries(path) == path \in Entries

Children == Entries \ {Folder}

InReadable(path) == InEntries(path) /\ path \notin logged /\ Folder \notin logged

InWritable(path) == IF path = Folder THEN folder ELSE path \in written

IsThere(path) == InReadable(path) \/ InWritable(path)

Visible == {f \in Children : InReadable(f)} \union written

\* Of a file that is read: whether its content has to be fetched.
IsDeferred(f) == ~InWritable(f) /\ InReadable(f) /\ f \notin fetched

\* mkdirp makes the root of the repository in writable, once.
Touch == rootTime' = IF rootTime = 0 THEN clock ELSE rootTime

\* The log is written for what has been in the repository till now.
Log(path) ==
  IF InReadable(path)
  THEN /\ logged' = logged \union {path}
       /\ logTime' = clock
  ELSE UNCHANGED <<logged, logTime>>

Put(f) ==
  /\ written' = written \union {f}
  /\ folder' = TRUE
  /\ Touch
  /\ UNCHANGED <<logged, fetched, logTime>>

Mkdir ==
  /\ folder' = TRUE
  /\ Touch
  /\ UNCHANGED <<written, logged, fetched, logTime>>

Unlink(f) ==
  /\ Log(f)
  /\ written' = written \ {f}
  /\ UNCHANGED <<folder, fetched, rootTime>>

\* writable refuses a folder that is not empty, and then nothing is logged.
Rmdir ==
  /\ folder' = FALSE
  /\ Log(Folder)
  /\ UNCHANGED <<written, fetched, rootTime>>

Rename(old, new) ==
  /\ written' = (written \union {new}) \ {old}
  /\ folder' = TRUE
  /\ Touch
  /\ Log(old)
  /\ UNCHANGED fetched

MayRename(old, new) == IsThere(old) /\ ~IsThere(new)

\* Mutant: that writable refuses a folder is passed over.
CanForced(operation) ==
  CASE operation.op = "writeFile" -> TRUE
    [] operation.op = "createDirectory" -> ~IsThere(Folder)
    [] operation.op = "rmdir" -> IsThere(Folder)
    [] operation.op = "rename" -> MayRename(operation.file, operation.to)
    [] OTHER -> IsThere(operation.file)

\* What the overlay checks before it does anything, and writable of a folder.
Can(operation) ==
  CASE operation.op = "writeFile" -> TRUE
    [] operation.op = "createDirectory" -> ~IsThere(Folder)
    [] operation.op = "rmdir" -> IsThere(Folder) /\ (folder => written = {})
    [] operation.op = "rename" -> MayRename(operation.file, operation.to)
    [] OTHER -> IsThere(operation.file)

Does(operation) ==
  CASE operation.op = "writeFile" -> Put(operation.file)
    [] operation.op = "createDirectory" -> Mkdir
    [] operation.op = "unlink" -> Unlink(operation.file)
    [] operation.op = "rmdir" -> Rmdir
    [] operation.op = "rename" -> Rename(operation.file, operation.to)
    [] OTHER -> UNCHANGED disk

-----------------------------------------------------------------------------
(* The calls: the operations that each is made of. *)

\* A delete looks at what it is to delete, a folder and its children first;
\* the children are removed all at once, then the folder.
After(call) ==
  CASE call.stage = "begun" ->
         IF call.kind = "readDirectory" THEN "readdir"
         ELSE IF call.kind = "delete" THEN "stat" ELSE call.kind
    [] call.stage = "readdir" /\ call.found # {} -> "statAll"
    [] call.kind = "delete" /\ call.stage = "stat" ->
         IF call.file = Folder THEN "readdir" ELSE "unlink"
    [] call.kind = "delete" /\ call.stage = "readdir" /\ call.found = {} -> "rmdir"
    [] call.kind = "delete" /\ call.stage = "statAll" -> "unlink"
    [] call.kind = "delete" /\ call.stage = "unlink" /\ call.file = Folder -> "rmdir"
    [] OTHER -> "done"

Targets(call, stage) ==
  IF stage = "statAll" \/ (stage = "unlink" /\ call.file = Folder)
  THEN call.found ELSE {call.file}

OpOf(stage) == IF stage = "statAll" THEN "stat" ELSE stage

Operations(r, call) ==
  SetToSeq({[op |-> OpOf(call.stage), file |-> f, to |-> call.to, for |-> r] : f \in call.pending})

\* The call in its next stage, and what waits for the lock then.
Continue(r, call, rest) ==
  LET stage == After(call)
      next == [call EXCEPT !.stage = stage, !.pending = Targets(call, stage)]
  IN  IF stage = "done"
      THEN inFlight' = [inFlight EXCEPT ![r] = NoCall] /\ queue' = rest
      ELSE inFlight' = [inFlight EXCEPT ![r] = next] /\ queue' = rest \o Operations(r, next)

\* What a call that has failed has left in the queue is still done.
Begin(r, kind, file, to) ==
  /\ begun < MaxCalls
  /\ inFlight[r] = NoCall
  /\ \A i \in DOMAIN queue : queue[i].for # r
  /\ begun' = begun + 1
  /\ Continue(r, CallOf(kind, file, to), queue)
  /\ UNCHANGED <<disk, fetches, tokens, searches, list, clock>>

HoldsLock == Head(queue)

IsHeld == queue # <<>> /\ HoldsLock.op # "lastModifiedTime"

\* The operation that has the lock needs a content that is not there yet.
NeedsContent ==
  /\ IsHeld /\ HoldsLock.op \in {"readFile", "rename"}
  /\ Can(HoldsLock) /\ IsDeferred(HoldsLock.file)

\* One of several operations is done, or the last of them.
Succeed(r) ==
  LET done == [inFlight[r] EXCEPT !.pending = @ \ {HoldsLock.file},
                 !.found = IF HoldsLock.op = "readdir" THEN Visible ELSE @]
  IN  IF inFlight[r] = NoCall THEN queue' = Tail(queue) /\ UNCHANGED inFlight
      ELSE IF done.pending = {} THEN Continue(r, done, Tail(queue))
      ELSE queue' = Tail(queue) /\ inFlight' = [inFlight EXCEPT ![r] = done]

\* The promise is rejected, and with it the call.
Fail(r) ==
  /\ queue' = Tail(queue)
  /\ inFlight' = [inFlight EXCEPT ![r] = NoCall]

RunOperation ==
  /\ IsHeld /\ Can(HoldsLock)
  /\ ~NeedsContent /\ fetches["overlay"] = NoFetch
  /\ Does(HoldsLock)
  /\ Succeed(HoldsLock.for)
  /\ UNCHANGED <<begun, fetches, tokens, searches, list, clock>>

RefuseOperation ==
  /\ IsHeld /\ ~Can(HoldsLock)
  /\ Fail(HoldsLock.for)
  /\ UNCHANGED <<disk, begun, fetches, tokens, searches, list, clock>>

-----------------------------------------------------------------------------
(* Contents: GitLabReadableFileSystem.open, GitLabFileContentProvider. *)

AskContent(by, f) ==
  /\ fetches[by] = NoFetch
  /\ fetches' = [fetches EXCEPT ![by] = [stage |-> "limited", file |-> f]]

\* Before a rename copies the content it makes the folder.
FetchForOverlay ==
  /\ NeedsContent
  /\ AskContent("overlay", HoldsLock.file)
  /\ IF HoldsLock.op = "rename" THEN folder' = TRUE /\ Touch ELSE UNCHANGED <<folder, rootTime>>
  /\ UNCHANGED <<written, logged, fetched, logTime>>
  /\ UNCHANGED <<queue, inFlight, begun, tokens, searches, list, clock>>

\* A diff with HEAD reads the repository's file itself, which may be there already.
ReadOriginal(f) ==
  /\ begun < MaxCalls
  /\ begun' = begun + 1
  /\ f \in Tracked \ fetched
  /\ AskContent("original", f)
  /\ UNCHANGED <<disk, queue, inFlight, tokens, searches, list, clock>>

\* One with the merge request's base asks for the content each time.
ReadBase(f) ==
  /\ begun < MaxCalls
  /\ begun' = begun + 1
  /\ AskContent("base", f)
  /\ UNCHANGED <<disk, queue, inFlight, tokens, searches, list, clock>>

TakeToken(by) ==
  /\ fetches[by].stage = "limited"
  /\ tokens > 0
  /\ tokens' = tokens - 1
  /\ fetches' = [fetches EXCEPT ![by].stage = "sent"]
  /\ UNCHANGED <<disk, queue, inFlight, begun, searches, list, clock>>

Refill ==
  /\ tokens < Rate
  /\ tokens' = Rate
  /\ UNCHANGED <<disk, queue, inFlight, begun, fetches, searches, list, clock>>

\* The content is kept, for whoever reads it next.
ContentComes(by) ==
  /\ fetches[by].stage = "sent"
  /\ fetches' = [fetches EXCEPT ![by] = NoFetch]
  /\ fetched' = fetched \union {fetches[by].file}
  /\ UNCHANGED <<written, folder, logged, rootTime, logTime>>
  /\ UNCHANGED <<queue, inFlight, begun, tokens, searches, list, clock>>

\* With a content, none for a file that the base does not have, or an error.
BaseIsAnswered ==
  /\ fetches["base"].stage = "sent"
  /\ fetches' = [fetches EXCEPT !["base"] = NoFetch]
  /\ UNCHANGED <<disk, queue, inFlight, begun, tokens, searches, list, clock>>

\* Mutant: nobody is told, and the overlay stays locked.
ContentIsLost(by) ==
  /\ fetches[by].stage = "sent"
  /\ fetches' = [fetches EXCEPT ![by].stage = "lost"]
  /\ UNCHANGED <<disk, queue, inFlight, begun, tokens, searches, list, clock>>

\* The content stays as it was, to be fetched by whoever reads it next.
ContentIsRefused(by) ==
  /\ fetches[by].stage = "sent"
  /\ fetches' = [fetches EXCEPT ![by] = NoFetch]
  /\ IF by = "overlay" THEN Fail(HoldsLock.for) ELSE UNCHANGED <<queue, inFlight>>
  /\ UNCHANGED <<disk, begun, tokens, searches, list, clock>>

-----------------------------------------------------------------------------
(* The list of files: FileListWithCache, and what DefaultFileList computes. *)

\* lastModifiedTime; the time of the log is read when that of the root is known.
LastModified(time) == IF time < logTime THEN logTime ELSE time

AskTime(l, stage, search) ==
  /\ searches' = [searches EXCEPT ![l] = [search EXCEPT !.stage = stage]]
  /\ queue' = Append(queue, [op |-> "lastModifiedTime", file |-> Folder, to |-> Folder, for |-> l])

Search(l) ==
  /\ begun < MaxCalls
  /\ searches[l] = NoSearch
  /\ begun' = begun + 1
  /\ AskTime(l, "check", [NoSearch EXCEPT !.seen = Visible])
  /\ UNCHANGED <<disk, inFlight, fetches, tokens, list, clock>>

ServeTime ==
  /\ queue # <<>> /\ HoldsLock.op = "lastModifiedTime"
  /\ queue' = Tail(queue)
  /\ searches' = [searches EXCEPT ![HoldsLock.for].time = rootTime,
                    ![HoldsLock.for].stage = IF @ = "check" THEN "checking" ELSE "keying"]
  /\ UNCHANGED <<disk, inFlight, begun, fetches, tokens, list, clock>>

Check(l) ==
  /\ searches[l].stage = "checking"
  /\ searches' = [searches EXCEPT ![l] =
       IF list.time = LastModified(searches[l].time) THEN NoSearch
       ELSE [NoSearch EXCEPT !.stage = "status"]]
  /\ UNCHANGED <<disk, queue, inFlight, begun, fetches, tokens, list, clock>>

\* status() reads the log first, and without the lock,
ReadLog(l) ==
  /\ searches[l].stage = "status"
  /\ searches' = [searches EXCEPT ![l].stage = "files", ![l].seen = Visible,
       ![l].deleted = IF Folder \in logged THEN Tracked ELSE logged]
  /\ UNCHANGED <<disk, queue, inFlight, begun, fetches, tokens, list, clock>>

\* Mutant: the files of the repository are all listed.
ReadWritableUnfiltered(l) ==
  /\ searches[l].stage = "files"
  /\ list' = [list EXCEPT !.files = Tracked \union written]
  /\ AskTime(l, "key", NoSearch)
  /\ UNCHANGED <<disk, inFlight, begun, fetches, tokens, clock>>

\* ... and then the files of writable.
ReadWritable(l) ==
  /\ searches[l].stage = "files"
  /\ list' = [list EXCEPT !.files = (Tracked \ searches[l].deleted) \union written]
  /\ AskTime(l, "key", NoSearch)
  /\ UNCHANGED <<disk, inFlight, begun, fetches, tokens, clock>>

StoreKey(l) ==
  /\ searches[l].stage = "keying"
  /\ list' = [list EXCEPT !.time = LastModified(searches[l].time)]
  /\ searches' = [searches EXCEPT ![l] = NoSearch]
  /\ UNCHANGED <<disk, queue, inFlight, begun, fetches, tokens, clock>>

-----------------------------------------------------------------------------

ClockTicks ==
  /\ clock < MaxClock
  /\ clock' = clock + 1
  /\ UNCHANGED <<disk, queue, inFlight, begun, fetches, tokens, searches, list>>

\* What VS Code asks for: of a file, or of the folder.
FileKind == {"stat", "readFile", "writeFile", "delete"}
FolderKind == {"readDirectory", "createDirectory", "delete"}

FilesNext ==
  \/ \E r \in Slots :
       \/ \E kind \in FileKind, f \in File : Begin(r, kind, f, f)
       \/ \E kind \in FolderKind : Begin(r, kind, Folder, Folder)
       \/ \E old, new \in File : old # new /\ Begin(r, "rename", old, new)
  \/ RunOperation \/ RefuseOperation \/ ServeTime
  \/ FetchForOverlay
  \/ \E f \in File : ReadOriginal(f) \/ ReadBase(f)
  \/ \E by \in DOMAIN fetches : TakeToken(by)
  \/ \E by \in {"overlay", "original"} : ContentComes(by) \/ ContentIsRefused(by)
  \/ BaseIsAnswered \/ Refill
  \/ \E l \in Lister : Search(l) \/ Check(l) \/ ReadLog(l) \/ ReadWritable(l) \/ StoreKey(l)
  \/ ClockTicks

\* The lock is handed on, the rate recovers, a fetch is answered or refused, and what
\* is ready runs; nobody need ask for anything.
FilesFairness ==
  /\ WF_fileVars(RunOperation \/ RefuseOperation \/ ServeTime \/ FetchForOverlay)
  /\ WF_fileVars(Refill)
  /\ \A by \in {"overlay", "original"} :
       WF_fileVars(TakeToken(by) \/ ContentComes(by) \/ ContentIsRefused(by))

FilesSpec == FilesInit /\ [][FilesNext]_fileVars /\ FilesFairness

-----------------------------------------------------------------------------
(* Properties. *)

\* A file goes by an operation of its own and never with its folder: when one comes
\* while the children are removed, new or one of the repository's again, the folder
\* stays (WebIdeFileSystemBFS.ts:91-105, OverlayFSImpl.ts:259).
FolderTakesNoFile ==
  [][/\ \A f \in Visible \ Visible' :
          HoldsLock.op \in {"unlink", "rename"} /\ HoldsLock.file = f
     /\ IsThere(Folder) /\ ~IsThere(Folder)' => Visible = {}]_fileVars

\* Every call ends: no fetch that fails, and no operation refused among several,
\* leaves the overlay locked or a promise pending (LockedFS, GitLabReadableFileSystem.
\* ts:140-161, WebIdeFileSystemBFS.ts:96-104).
CallsEnd == \A r \in Slots : inFlight[r] # NoCall ~> inFlight[r] = NoCall

\* A list that quick open computes has every file there is when it is done, and none
\* but those that were there then or when it read the log: it reads writable after the
\* log, and files come, go and are renamed in between (OverlaySourceControl.ts:45-49,
\* FileList.ts:24-33).
FreshListMatches ==
  [][\A l \in Lister : ReadWritable(l) =>
       /\ Visible \subseteq list'.files
       /\ list'.files \subseteq searches[l].seen \union Visible]_fileVars

\* "invalidates cache when" a file is written or removed (FileListWithCache.test.ts:61):
\* a list that was kept has every file that was there when quick open asked and still
\* is, and none that was not there at either time.
KeptListMatches ==
  [][\A l \in Lister : Check(l) /\ searches'[l] = NoSearch =>
       /\ searches[l].seen \intersect Visible \subseteq list.files
       /\ list.files \subseteq searches[l].seen \union Visible]_fileVars

=============================================================================
