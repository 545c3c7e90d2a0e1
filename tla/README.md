# Web IDE: the verification project

The Web IDE runs VS Code in the browser over a Git repository that lives on a
server.  This directory models the Web IDE's own logic in TLA+, checks it with
TLC on small instances, and proves part of it with TLAPS for every instance.
Source paths below are relative to `packages/`.

## 1. The system

| Component | State it keeps | Operations | Talks to |
|---|---|---|---|
| **Overlay file system** (`web-ide-fs/src/browserfs/OverlayFSImpl.ts`, `OverlayFS.ts`, `OverlayFSDeletedFilesLog.ts`, `utils/mkdirp.ts`) | a writable in-memory file system; the append-only log `/.deletedFiles.log` with `file:` and `dir:` lines; the lock of `LockedFS` | stat, readdir, mkdir, open/sync (write), unlink, rmdir, rename | the readable tree, for what writable does not have |
| **Readable repository tree** (`GitLabReadableFileSystem.ts`, `createFileEntryMap.ts`) | the entries of the commit, file contents once fetched | stat, readdir, readFile (a network request the first time) | the content provider, which limits the rate of its requests |
| **File service facade** (`WebIdeFileSystemBFS.ts`, `vscode-extension-web-ide/src/vscode/GitLabFileSystemProvider.ts`) | none | VS Code's calls; `rm` as one call per entry | the overlay, VS Code's file service |
| **Source control status** (`scm/OverlaySourceControl.ts`, `FileList.ts`) | none: derived from log, writable and readable | status, listAllBlobs | reads the overlay's parts without its lock |
| **Caches** (`ParsedFileCache.ts`, `FileListWithCache.ts`) | a key and a value | getContents, listAllBlobs (quick open) | the log, the file list, the time the file system was last modified |
| **Source control view and commit** (`vscode-extension-web-ide/src/scm/`) | last status, resource groups, "prevent unload" | debounced update, commit, force push, amend | status, the API, reload |
| **Extension lifecycle** (`main.ts`, `commands/reload.ts`) | the list of disposables, what is registered with VS Code | activate, reload | mediator commands, VS Code |
| **Branch commands** (`commands/branchUtilities.ts`, `checkoutBranch.ts`, `createBranch.ts`, `deleteBranch.ts`) | none: they capture the load that registered them | checkout, create and delete a branch | status, the API, reload |
| **Merge request views** (`vscode-extension-web-ide/src/initMergeRequestContext.ts`, `mr/`) | what is registered with VS Code, the context of the menus | mark the changes, offer the base of a file | the API, the readable tree of the base |
| **Mediator commands** (`vscode-mediator-commands`) | the configuration, the auth provider | start(ref), prevent unload, open URI | the API, the embedding page |
| **OAuth client** (`oauth-client`) | cached token and its mutex, token and handshake in local storage, refresh timer | getToken, refresh, handshake and callback, auto refresh | the OAuth server, other tabs by BroadcastChannel |
| **Channels** (`cross-origin-channel`, `khulnasoft-api-client-factory`, `web-ide/src/AuthPortChannelController.ts`) | listeners, message ports | post, wait with a 30 s timeout, request a port, request a token | the page and the iframe |
| **Embedder and bootstrap** (`web-ide/src/index.ts`, `vscode-bootstrap`) | phase of the handshake; in the browser: markers of the last embedder and marketplace context, VS Code's databases | start, ping, config request and response, ready, error, clean client storage | each other, by window messages |
| **Utilities** (`utils/queueAsyncCalls.ts`, the rate limiter of `GitLabFileContentProvider.ts`, `utils-path`, `utils-crypto`, ...) | a queued call; a window of request times; the buffer of SHA-256 | | |

What is hard about it:

- **Everything is asynchronous.** A call reads state, awaits, and acts on what
  it read.  Only the overlay has a lock, and one of its operations outlives it.
- **Three records make one file system.**  What a user sees at a path is decided
  by writable, then by the log, then by the repository; renames and deletions
  have to touch the right ones in the right order, and the log is never pruned.
- **Failures in the middle.**  Any content fetch may fail, after folders have
  been made, lines logged or siblings copied.
- **Two windows and several tabs** exchange uncorrelated messages with timeouts.

What makes each component correct:

- overlay: it is indistinguishable from one plain mutable file system, whatever
  sequence of calls, failures and late copies it has been through;
- status and file list: exactly the difference between the repository and what
  the user sees, never lagging behind for ever because of a cache;
- source control view: shows the latest status, and the page may not be closed
  silently while there are changes; a commit contains what the user was shown;
- OAuth: a valid token stays available, one refresh per expiry, no refresh after
  disposal;
- channels and bootstrap: a start ends, its failure is told, the workbench gets
  the port and finds the data that are its own; the extension gets the token the
  embedder has now;
- commits and branches: what is committed is what was seen, nobody's work is
  overwritten unannounced, and what is loaded exists;
- lifecycle: one set of registered commands at a time, of the last reload that
  got ready, and never none.

## 2. Modules

| Module | Models |
|---|---|
| `Paths` | paths as sequences of names; `dirname`, prefixes, the path of an entry whose folder is renamed |
| `FileTree` | the contents of a file system as a function `Path -> Node`, and the primitives of the in-memory file system (an external package, modelled from its use): `Mkdirp`, `Put`, `Delete`, `Move`, each with the condition under which it succeeds |
| `OverlayFS` | the overlay: one action per call, the copy of a folder rename one action per task and stage |
| `OverlaySourceControl` | the algorithms of `status()` and `listAllBlobs()` over the overlay's parts, and the reference definition `Diff` |
| `FileService` | the overlay under the calls VS Code's file service makes; the properties that need that discipline; the refinement |
| `PlainFS` | the abstract specification: one mutable tree; every operation changes what its name says |
| `FileTreeLemmas`, `OverlayFSProofs` | proofs: paths and primitives; what holds whoever calls |
| `FileServiceProofs` | proofs: the merged view under the editor's calls, and the refinement |
| `MCOverlayFS`, `MCOverlayService` | instances for TLC: any caller; the editor's calls |
| `OAuth` | the OAuth clients of several tabs over one local storage |
| `OAuthProofs` | proofs: the cache and the storage; the refresh timers; what a disposed page leaves; the padding of `Sha256`, which the client's code challenge is made with |
| `Session` | the extension in one workbench: overlapping loads, what they register, the source control view, commit and branch commands as far as they reload |
| `MCSession`, `SessionProofs` | its instance for TLC; proofs: what is registered, what the view shows |
| `ClientStorage` | what the browser keeps for the workbench's origin between starts, and what a start decides by it |
| `Boot` | the page that embeds the Web IDE and the page in the iframe: starts and pings of one window after another, over the window channel and `ClientStorage` |
| `BootProofs` | proofs: types, the port, whose data, which extensions, the first start's answer |
| `Repository` | the Git repository behind the API (external): commits, diffs, and the answer to a POST of a commit |
| `CommitPayload` | what the extension sends for a commit and for an amend, as functions of the status and a diff |
| `Commit` | the commit commands with their dialogs, composed of the two, against a repository that others push to |
| `MCCommit`, `CommitProofs` | its instance for TLC; proofs: what a commit contains, what it overwrites, what a reload drops |
| `BranchCommands` | the picker and its queued searches, the prompt that creates a branch, the deletion, and the start command that finds out what a ref is |
| `Tokens` | the token on its way from the embedder through two ports to the extension's session and its API requests |
| `FileRequests` | each call of the file service as the operations it is made of, queued for the overlay's lock; contents fetched under it and past it; the list of quick open |
| `Sha256` | the buffering and padding of `utils-crypto/sha256` |
| `MergeRequest` | what overlapping loads register late: the merge request's changes and base, the file of the address |
| `ExtensionProofs` | proofs about parts of the extension: `BranchCommands` (a ref that is loaded exists), `MergeRequest` (the base is the newest load's, or the user has been told), `Tokens` (the session and the requests follow the embedder's token), `FileRequests` (what `rm` takes, what quick open lists) |
| `MCSourceControl` | `Session` and `Commit` side by side, for TLC: they share no state, and one of them runs in a behaviour |
| `MCPage` | likewise `Boot`, `Tokens`, `BranchCommands`, `MergeRequest` and `Sha256` |
| `MCOAuthFiles` | likewise `OAuth`, with two tabs and with one, and `FileRequests` |

`Session`, `Commit`, `BranchCommands` and `MergeRequest` look at the same
extension from four sides.  `Session` has the loads and what a reload discards,
and keeps of a command only what it read before and what it reloads;
`Commit` has what a command sends, and its own reload; `BranchCommands` which
ref is loaded; `MergeRequest` what a load registers after `Session`'s part.
`OAuth` is the client behind the port that `Tokens` begins with, and `Boot`
is how that port reaches the page.  Modules that TLC runs side by side are
extended by one instance, so their names differ where they would clash
(`SessionSpec`, `FilesSpec`, `sessionVars`); nothing else joins them.

### State and actions of `OverlayFS`

`writable` is the tree in the in-memory file system; `deletedFiles` and
`deletedDirs` are the sets `parseDeletedFileLog` reads from the log's lines;
`renaming` is the folder rename that holds the lock, if one does, and `tasks`
its copies that have not settled; `strays` are copies of renames that have
already failed.  The repository is the constant `Base`.

| Action | Code |
|---|---|
| `Mkdir`, `Unlink`, `Rmdir` | the methods of `OverlayFSImpl` |
| `WriteFile` | `open` with a writing flag, write, and `sync` on close: `mkdirp` of the folder and the write |
| `RenameFile`, `RenameNewDir` | `rename` of a file, and of a folder only writable has |
| `RenameFails` | the fetch or the primitive rename fails after `mkdirp(dirname(newPath))` |
| `StartRenameDir`, task actions, `FinishRenameDir`, `FailRenameDir` | `rename` of a repository folder: `#copyFromReadableToWritable` for every entry in parallel, then the move and the log line, or the first failure |
| `RunStray`, `DropStray` | the copies that `Promise.all` no longer waits for |

Two sequences of steps are atomic in the model although the code awaits
between them.  A call other than a folder rename is one action, because
`LockedFS` lets no other call in; only a stray copy can get between its
promises.  And the last part of a copy (`mkdirp`, then `writeFile`, both of the
in-memory file system) is one action: the network request before it is where
the time passes, and that is a step boundary.  A call that fails without having
changed anything is a stuttering step.  Modes, times, `lstat`, links, symbolic
flags and the log's own path are left out.

### Callers

Two specifications share the actions.  `Spec` allows any call at any time, also
those that make nonsense (writing a file over a repository folder).
`FileService!ServiceSpec` adds what the code relies on: VS Code's file service
looks before it calls (no entry beneath a file, no file over a folder), and
`WebIdeFileSystemBFS.rm` removes what `stat` calls a file with `unlink` and a
folder after its children.  VS Code is external.

### State and actions of `OAuth`

The tabs of a browser share `storage` (the token) and `handshake` (the state of
the redirect to the authorization page).  A tab has a `page`, a `cache` (the token
in memory), the broadcasts it has not handled (`mail`), the timer that
`refreshTimeout` holds (`armed`), and timers that nothing holds any more
(`leaked`): of two setups that wait at once the later to end replaces the timer of
the other, and one that waits when the page is disposed sets a timer that nobody
clears (`setupAutoRefresh.ts:14-24`).  `calls` are the `getToken` and
`handleCallback` calls that wait, with the stage they have reached.  `failed` is a
history variable.

| Action | Code |
|---|---|
| `Open`, `Start` | `checkOAuthToken`; `startAnyConfig` with `AuthPortChannelController` and `setupAutoRefresh` |
| `Callback` | `oauthCallback`, `handleCallback` |
| `RequestToken` | the extension's token request, answered by `getToken` |
| `FrameReady` | the message of a hidden iframe (`iframeAuth.ts`) |
| `Answer`, `Refuse` | the OAuth server (external) |
| `Receive`, `Finish` | `#requestAndStoreToken`: check, write storage; write the cache, emit, broadcast, go on in the caller |
| `Deliver` | `StorageValueCacheBroadcaster`: `getValue(true)`, then the event |
| `TimerFires` (`FireTimer`, `FireLeaked`) | the callback of `setTimeout`, whether `refreshTimeout` still holds the timer or not |
| `Dispose`, `Close` | `WebIde.dispose`; the page is left |

What is atomic, and why: local storage answers in a promise that is already
settled, and so does a free mutex, so the code between two network requests of
a tab runs before the tab handles its next event.  It is one step, except that
another tab, a process of its own, may write storage between this tab's write
to storage and to its cache: storing a token is two steps, and the tab is
`Busy`, deaf to events, in between.  No page is left and no minute passes in
these microtasks.

What is abstracted: URLs, hashes, the encoding of storage.  The clock is in
minutes.  `checkOAuthToken` uses a client of its own, whose cache is never read
again.  Several leaked timers due at the same minute are one.  The delay of
`setTimeout` is converted to a 32-bit integer as browsers do (`FireTime`).
Nothing in this code empties local storage of its token, so once a tab runs
there is always a token; the branches for none are translated and stay unused.

### State and actions of `Session`

A load is one call of `initialize` (`main.ts`).  `stage` says how far it is:
`starting` (the start command), `started` (its file system and branch commands
are registered; it waits for `getConfig`), `opening` (its provider of original
contents is; it waits for `preventUnload`), `ready`, `failed`, or `refused`
(VS Code has thrown because another load's registration is there).  `files`,
`scheme`, `watchers` and `commitCommands` say which loads' registrations are alive.
`changes` is what `status()` would find in each load's file system (the subject
of `OverlaySourceControl`), `debounced` and `runs` are the watcher's callbacks
that wait and that are in `status()`, `lastStatus`, `hasStatus` and `prevent`
what they leave behind.  `commands` are commits and branch commands in flight;
they keep the load that registered them.

| Action | Code |
|---|---|
| `ReloadWorkbench` (of `EndCommit`, `LoadRefUnasked`, `ReloadWithWarning`) | the reload command: dispose the shared list, call `initialize` |
| `Start`, `StartFails` | `initialize` up to `registerCommands`; the start request rejects |
| `OpenView`, `Watch` | `initializeSourceControl` before and after its `await` |
| `ChangeFile` | a write through the registered file system, and the watchers' events |
| `BeginStatus`, `EndStatus`, `StatusFails` | the debounced callback: `status()`, the view model, the page's warning |
| `BeginCommit`, `EndCommit` | the commit command, from its first check to its reload |
| `BeginBranch`, `BeginLoadRef`, `LoadRefUnasked`, `AskBeforeReload` | a branch command; `loadRef` |
| `EndCommand` | any of the ways a command ends early |

VS Code is external: it throws at a second provider for a scheme and at a second
command of a name, it runs a registered command only while it is registered, and
it goes on running one whose registration is disposed.  An edit and the watcher's
event are one step; the debouncing is that callbacks of one load that wait are
one.  `status()` reads the file system in its first steps and fetches contents
after that, so what it returns is what was there when it began.  What a commit
sends and its dialogs are the subject of `Commit`, which branch is chosen that of
`BranchCommands`, the views of a merge request that of `MergeRequest`.  `older`,
`overtaken`, `atRisk` and `blind` are history: which of two runs began first,
whether a later one has ended, what was changed when `loadRef` looked, and whether
a view is behind for one of the reasons `ViewFollowsChanges` excepts.

`commands/index.ts` imports the command that opens the project's pages as
`goToKhulnaSoft` and uses it as `goToGitLab`, a name left over from a rename; a
bundle that is built regardless would stop every load at that line.  The model
takes the import that is meant.

### State and actions of `Boot`

`attempts` are the calls of `start` and `pingWorkbench` in this load of the
window: what each waits for (`pc`), where the second end of its auth channel is
(`port`), and what its listeners have done.  `frame` and `page` are the iframe
that is in the document and what `main()` and `start()` in it wait for; `toHost`
and `toPage` are the messages on their way; `local` and `db` what `ClientStorage`
keeps.  `unpurged` and `unsure` are history.

| Action | Code |
|---|---|
| `PingWorkbench`, `StartWorkbench`, `Dispose`, `LeaveWindow` | `web-ide/src/index.ts`: the iframe is appended and listened to; `dispose()`; the window is left |
| `HostReceive` | every listener in the window hears the message (`Hear`), the one whose iframe is there answers it (`Replies`) |
| `FollowFrame` | `set-href`; or a second configuration request after `ready`, upon which the window reloads |
| `HostTimeout` | a wait of 30 s, or 2.5 s for the ping |
| `RequestConfig`, `CheckCors`, `LoadScripts`, `ReceivePort`, `PageFails` | `main()` and `start()` between their awaits |
| `HandleEmbedderChange`, `PurgeClientStorage`, `PurgeFails`, `RefuseStorage` | `handleEmbedderChange.ts` |
| `KeepExtensions`, `ClearExtensions`, `ClearFails`, `SaveFails` | `cleanExtensions.ts` |
| `MissMessage` | a message that nobody in the document waits for |
| `UseWorkbench`, `ExtensionPosts`, `ReloadPage` | VS Code's use of its databases; the extension's messages to the window; the user reloads the iframe |

`DefaultCrossWindowChannel` ignores a message only if both its source and its
origin are wrong.  All attempts have one workbench origin, so each listener hears
all iframes; that is why `attempts` is a sequence, and why a stale message can
take an attempt's one answer.

### State and actions of `Commit`

`commits` and `branches` are the repository, `ref` what is checked out, `local`
the files as the user sees them, and `command` the commit command that runs: what
it read when it began (`snapshot`), where it is (`stage`), the head it has counted
(`counted`), the `difference` of the numbers, and whether the user was asked and
agreed (`confirmed`).  The actions are its steps between awaits: `Begin`,
`CountDifference`/`CountFails`, `ConfirmForcePush`, the choices of a branch
(`KeepBranch`, `ContinueOnDefault`, `CreateNewBranch`, `PromptBranchName`),
`PostCommit`/`PostFails`, `CommitToNewBranch` after a refusal, `Reload`; and
between any two of them `Edit` and `OtherPushes`: others use this program too, so
they commit on top, amend the last commit, or force push from below it.  What the
server refuses, and what it does with `start_sha` and `force`, is external:
`Repository` has it from the errors the extension knows and the parameters it
sends.  Commit messages, file modes and the encoding of contents are left out.

### State and actions of `BranchCommands`

`picker` is the quick pick: its items, what they were found for, the debounced
search, and the two places of `queueAsyncCalls` (the call that runs, and the one
that is queued, which a later one replaces).  `box` is the input box that creates
a branch, `job` the command, `loaded` the ref.  `Type`, `Debounced`, `SearchEnds`
are a search; `Accept`, `HidePicker`, `Submit`, `CreationEnds`, `HideBox` the
dialogs; `CheckProtected`, `ConfirmDeletion`, `Delete` the deletion; `Keep`,
`LoadEmpty`, `FetchBranch`, `FetchMetadata`, `FetchFails` the start command's
`fetchRef`.  `OtherCreates` and `OtherDeletes` are others.

### State and actions of `Tokens`

A token is the number of times it has changed.  `requests` and `posted` are on
the auth port, `waiting` are the readers in the page, `answers` and `changes` are
on the extension's port, `session` and `api` are what the extension has made of
them.  `TokenChanges`, `HostAnswers`, `HostRejects` are
`AuthPortChannelController`; `ReceiveResponse`, `ReceiveChanged`, `GiveUp`
`PortChannelAuthProvider` with its 30 s; `Activate` to `UpdateToken` the
extension's authentication provider; `GetHeaders` to `ApiResponds` a request of
the API client.  An answer has no correlation: it is taken by all who wait.

### State and actions of `FileRequests`

One folder of the repository and the calls for it.  `queue` is the operations that
have, or wait for, the overlay's lock; `inFlight` the calls they belong to;
`fetches` the contents that are asked for, `tokens` what is left of the rate
limit; `searches` and `list` quick open.  `Begin` is a call of VS Code,
`RunOperation` and `RefuseOperation` one operation of it (`rm` goes through
`stat`, `readdir`, a `stat` and an `unlink` of each child at once, and `rmdir`),
`FetchForOverlay`, `TakeToken`, `Refill`, `ContentComes`, `ContentIsRefused` a
content on its way under the lock, `ReadOriginal`, `ReadBase`, `BaseIsAnswered`,
`ContentIsLost` those of the diff editors, which go past it.  `Search` to
`StoreKey` are `listAllBlobs`, with its reads of the time, the log and writable as
separate steps.  `searches[l].seen` is history: what there was when the search
read the log or asked for the list.  Times are in milliseconds; two changes may
share one.

### State and actions of `MergeRequest` and `Sha256`

`MergeRequest` has the loads' `phase` after the file system is registered, and
who has registered the base (`base`), the decorations and the menus' context.
`ChangesCome`, `ChangesFail`, `RegisterBase`, `OpenChanges` are
`initMergeRequestContext`; `LookForInitFile` and `TouchInitFile` the file that the
address names, which is looked for when the first load has ended, in whatever file
system is registered then.

`Sha256` has the message, how much of it is in, and the buffer that every block
reuses; `HashWhole` and `FillBuffer` are `update`, `Digest` is `digest`.  What the
compression does to the eight words is left out: a hash stands for the blocks it
was made of.

## 3. Runs

| Run | Question | Distinct states |
|---|---|---|
| `overlay_any_caller` | What holds whatever a caller does? `writable` stays a tree (`WritableIsTree`); what the log hides is never uncovered (`DeletedStaysHidden`); a folder rename gives back the lock (`RenameReleasesLock`, under fairness) | 157,000 |
| `overlay_service` | Under the editor's calls: is the overlay one plain file system (`ImplementsPlainFS`), and is what is seen of it a tree (`ViewIsTree`)? Do `readdir`, `listAllBlobs` and `status`, each computed in its own way, agree with `stat` (`ReaddirAgreesWithStat`, `FileListIsVisibleFiles`, `StatusIsDiff`)? Is the copying of a rename invisible (`CopyingIsInvisible`)? | 60,000 |
| `overlay_stray_copy` | Is a copy always invisible? No: finding 1 | violation |
| `overlay_rename_modified` | Does a folder rename fail only when a copy fails? No: finding 2 | violation |
| `source_control` | Part `view`: does the newest load, if it gets ready, own everything (`NewestOwnsAll`)? Do loads that refuse each other leave a file system, a watcher and commands (`WorkbenchIsUsable`)? Does a view that is quiet show what has changed (`ViewFollowsChanges`)? Part `commit`: with edits and others' commits, amends and force pushes between any two steps, is what is committed what was seen (`CommitIsWhatWasSeen`), do others' changes survive a plain commit (`OthersChangesSurvive`), does a push delete more of what it counted than it announced (`OverwriteIsCounted`), when is an amend refused (`AmendIsRefusedOnlyIf`), what does the reload drop (`ReloadDropsOnlyLateChanges`)? | 2,981,000 (1,493,000 and 1,488,000) |
| `session_loss` | Are changes never discarded unasked? No: finding 3 | violation |
| `commit_overwrite` | Is a new branch new? No: finding 4 | violation |
| `commit_silent` | Is a force push never silent about others' commits? No: finding 5 | violation |
| `page` | Starts and pings one after another, with disposal, reloads, timeouts and failures at every await: is the first attempt's answer wasted (`AnswerIsNotWasted`), has a workbench its own port (`WorkbenchHasItsPort`) and only data it may find (`DataIsOwnOrUnpurged`, `ExtensionsBelongToContext`), does every start settle (`StartsSettle`), and is every failure told (`FailureIsTold`)? Has the session the embedder's token (`SessionFollowsToken`), a request one that is not older than the last change heard of (`RequestsKeepUp`), and does the activation end (`ActivationSettles`)? Is the ref that is loaded one that exists (`ExistingRefIsLoaded`), and does the picker catch up with the typing (`SearchCatchesUp`)? Is the base the newest load's (`BaseIsOwnOrTold`)? Is the padded message hashed (`HashesPaddedMessage`)? | 488,000 (246,000 of them the start) |
| `oauth_files` | Two tabs, and one for longer: do the caches converge to storage (`CachesConverge`), is a refresh always planned (`RefreshIsPlanned`) and sent when its timer fires (`TimerGuaranteesRefresh`), do the refreshes come to rest (`StorageSettles`), and what a disposed page has left (`DisposedComesToRest`)? Does every file call end (`CallsEnd`), does a folder go only empty (`FolderTakesNoFile`), and does a list that quick open computes match what is there (`FreshListMatches`)? | 691,000 (552,000 and 139,000) |
| `timer_leak` | Does a disposed page not refresh? It does: finding 7 | violation |
| `list_stale` | Is a kept list of quick open one that was right? No: finding 6 | violation |

**Bounds.**  `MCOverlayFS` has two folders with two file names each and two
contents: enough for a folder to be renamed away and back, for a deleted file to
be recreated with the same or another content, and for a copy to outlive its
rename while the user deletes, saves and renames the same files.
`MCOverlayService` has a folder in a folder with two files in that; the outer
folder has two places, and the inner one a place in either: enough for `dir:`
lines at two depths, for renames of the outer and of the inner folder in either
order and back, and for copies at two levels at once.  The two files are symmetric
(no liveness is checked there).  Every counter is bounded by the paths: nothing
else is cut off.  The only bound in an action is `StaysInPath`: a rename whose
entries would leave the paths of the instance is not taken.

`oauth_files` has a buffer of 2 minutes, a refresh buffer of 1 and lifetimes
of 1 (shorter than the buffer, to be rejected) and 3: enough for a token to be
granted, to be refreshed by its timer, and for answers of different minutes to
be received in either order.  `Slot` bounds the calls that wait at once and
`MaxTime` the clock.  The two tabs are of one user and run to minute 2
(`TabsMaxTime`).  One tab alone runs to minute 5, long enough for a timer that
nothing holds to fire, and the token it finds in storage may be another user's.
Both parts are checked for the same properties.  No lifetime of a run comes near
`TimerRange`: what happens beyond it is only said by the assumption of the
theorems (`ShortLifetimes`).  Two tabs of two users are in no run: each answers
the other's broadcast by a refresh, which it broadcasts, and neither ever rests.

The view in `source_control` has three loads (one that overlaps the next, which
overlaps the last), two runs of `status()` (one overtaking the other), one file
and one command: commands only meet through what they reload and what they read of
the view, and `session_loss` has two.  `MCSession!SessionObserved` is the view TLC
distinguishes states by: it leaves out what no action reads any more, the view
models of loads that have ended among it; the same run without it has 8.2 million
states and the same result.  `MaxLoads`, `Run` and `Command` are the only bounds.

The start in `page` has two embedders, two marketplace contexts and `MaxPages = 2`
documents, one after another: what one start leaves behind meets the next, an
iframe is reloaded once, and a late message of the first reaches the second.  What
came before is in `Init`: the storage is empty, or as any configuration's
workbench leaves it.  `MaxQueue = 1` bounds only what the workbench itself posts.

The commit has two files, three contents and two branches; `MCFirstTrees` lets the
commit that may be amended modify, rename, add or delete a file; the user commits
once (a first commit or one on top) and somebody else pushes once (on top, an
amend, or by force from below), before or between any two steps. 
`MCCommit!Observed` leaves out of a command what no later step or property reads.

The rest of `page` has one branch of each kind (default, feature, tag, commit) and
one creation or deletion by somebody else; a token that changes twice and four
messages or readers at a time; three loads on or off the merge request's branch;
blocks of 64 bytes, all messages of up to 136 bytes (every remainder, after none
and after one block), and words that wrap at 1024, so that the length in bits
does not fit into the low one.  The file calls of `oauth_files` have a folder with
one file of the repository and one that is not, two calls at a time and three in
all, a search, a rate of one request, and two milliseconds.

**Fairness.**  In `OverlayFS` it is weak fairness of the copy tasks of the rename
that holds the lock, and of its last step: a promise that has been started
settles, because a request answers or fails, and the event loop runs what is ready.
Callers owe nothing, and neither do strays: nobody waits for them.
`StorageSettles` says that something stops, and needs no fairness.  In `Boot` a
message that was posted to a window that is there arrives, timers fire, and a
document goes on once it has begun; the user need not do anything.  In `Tokens`
ports deliver, timers fire and the extension handles what it gets; the embedder
need not answer.  In `BranchCommands` the debounce runs out and a search is
answered or refused.  In `FileRequests` the lock is handed on, the rate recovers
and a fetch is answered or refused, which is what makes every call behind it end.

Deadlock is checked of the overlay, which can always take a call, in
`overlay_any_caller` and `overlay_service` and the violations of findings 1 and 2.
The other systems may really stop, and their runs say so: a workbench whose start
request has failed has nothing to run, a user may do nothing, and time, loads,
documents, commits and messages are bounded.

**Refinement.**  `PlainFS` has one tree.  `FileService!Plain` maps it to what
`stat` finds (`View`), and every step of the overlay is one step of `PlainFS` or
a stutter: a copy is a stutter, the end of a folder rename is the whole rename.
Stray copies are the exception the abstract specification has to make room for:
`late` is the set of paths a stray may still restore, and `PutBack` restores
one.  Without `PutBack` the refinement fails; that is finding 1.  And a rename
may overwrite a file at its target, if it is the repository's: while a folder is
copied, after `rename` has looked, a stray may put one back there.  The instance
of `overlay_service` does not get there: it would take a second folder of the
repository.  The theorem of section 5 covers it.

**Mutants.**  Beside a definition stands, marked `Mutant`, the form a plausible
bug would give it; each property is checked to fail for one of them.

## 4. Findings

1. **A copy outlives its rename** (`overlay_stray_copy`).  When one copy of a
   folder rename fails, `Promise.all` rejects, the rename rejects and the lock
   is free.  The other copies go on.  One that then gets its content writes the
   repository's version over what the user has saved meanwhile, or brings back
   what was deleted.  The class comment says that "Writable contains the most
   up-to-date changes" (`OverlayFSImpl.ts:64`).
2. **A folder with an edited file cannot be renamed** (`overlay_rename_modified`).
   `#copyFromReadableToWritable` handles "a file that writable does not have";
   a file that it does have falls through to `readable.readdir`, which refuses a
   file.  The comment at the call says "we need to move any missing children"
   (`OverlayFSImpl.ts:246`).
3. **A branch command looks at the wrong file system** (`session_loss`).
   `loadRef` asks the `sourceControl` of the load that registered the command
   (`branchUtilities.ts:185`).  If another branch command's reload has come in
   between, while this one was in its prompts, it finds no changes there, and
   reloads over those in the file system registered now, where the test has
   "should show confirmation dialog when uncommitted changes would be lost"
   (`branchUtilities.test.ts:266`).
4. **A new branch may be an old one** (`commit_overwrite`).  The dialog says
   "Create a new branch and commit" (`promptBranchName.ts:23`).  A force push or
   an amend sends `force: true` for a new branch as well
   (`getCommitPayload.ts:69`): a branch of that name is overwritten, and the
   number of commits that the warning has counted is of another branch.
5. **A force push may be silent** (`commit_silent`).  The comment says "Show a
   warning before force committing" (`command.ts:60`).  What is compared is the
   number of commits (`getRemoteCommitDifference.ts:35`): if somebody else has
   amended the head, or replaced commits by as many or fewer, it is 0 or less,
   nothing is asked at 0 (`showConfirmForcePush.ts:35`), and their commit is
   deleted.
6. **A list may be kept under a newer key** (`list_stale`).  The list of quick
   open is computed before the time it is kept under is read
   (`FileListWithCache.ts:33-34`).  A file that comes or goes in between is not in
   the list, or is, for every search until its key changes, where the test has
   "invalidates cache when" a file is written or removed
   (`FileListWithCache.test.ts:61`).
7. **A disposed Web IDE refreshes once more** (`timer_leak`).  A setup that waits
   in `getToken` when the page is disposed sets its timer afterwards
   (`setupAutoRefresh.ts:14-24`), and it fires, where the test of a disposed setup
   has "does not refresh when expiresAt time has elapsed"
   (`setupAutoRefresh.test.ts:106`) and disposes later.  That this is all, once for
   each setup that waited, is `DisposedComesToRest`.

Seen while modelling, each a behaviour of a model above.  Where a property would
be broken by it, the property names it as its exception: it then says that nothing
else goes wrong, and is no check of the exception itself, which the notes of the
hazards in `PROJECT.json` repeat.

- Overlay: `rename` looks at its target before it copies a folder and moves the
  folder afterwards; what a stray copy has put there in between is overwritten
  (`PlainFS!Rename`).
- OAuth: two setups that wait at once set two timers, and `refreshTimeout` holds
  the later; the other still fires at its time, which sends nothing while the token
  that is held by then is valid.  The comment of `protectRefreshToken` (`web-ide-types/src/config.ts:20-25`)
  describes what `createOAuthClient.ts:25` does when it is false.
- Session: "Dispose everything" (`commands/reload.ts:45`) disposes what is in the
  shared list; a load that still waits goes on and registers, so that a newer load
  that is refused leaves a workbench of two loads.
- Boot: a purge that is cut short is not begun again (`DataIsOwnOrUnpurged`); a
  removal that fails is swallowed where the extension host has an origin of its
  own, and the new context is recorded (`ExtensionsBelongToContext`); an attempt
  after the first may give its one answer to a message of the one before it
  (`AnswerIsNotWasted`).
- Commit: amending a first commit adds one on top, and what the commit created
  and the user deleted stays (`CommitIsWhatWasSeen`); an amend of a commit with a
  rename is refused (`AmendIsRefusedOnlyIf`); a deletion carries no
  `last_commit_id` (`OthersChangesSurvive`); what is pushed after the counting is
  not counted, and the counting misses as many commits as others have taken from
  under what is checked out (`OverwriteIsCounted`); what is edited during the
  dialogs is dropped by the reload (`ReloadDropsOnlyLateChanges`).
- Branches: an input box whose value was accepted and that then fails to hide can
  be submitted again, and one that is hidden during the creation leaves the branch
  unloaded; a search that never settles blocks those behind it, which is why
  `SearchCatchesUp` assumes answers.
- Tokens: a reader whose request is rejected learns of it after 30 s; a change
  before the provider listens, or one whose reading fails, is not made up for
  (`SessionFollowsToken`).
- Files: a rate-limited fetch holds the overlay's lock, and every call waits; when
  one child's `unlink` is refused `rm` rejects while the others go on, and no event
  tells the status of those that are gone; a diff's original is read past the lock.
- Merge request: a load that is late registers after a reload, and the newer one
  is refused and warns (`BaseIsOwnOrTold`); the menus' context is not cleared.

## 5. Proofs

For every set of names, paths and contents and every repository that satisfies
the named assumptions of `FileTree` and `OverlayFS` (a path's folder is in play,
the repository is a tree, the markers are distinct):

| Theorem | Says |
|---|---|
| `TypeCorrect` | `Spec => []TypeOK` |
| `WritableStaysTree` | `Spec => []WritableIsTree` |
| `DeletedIsNeverUncovered` | `Spec => DeletedStaysHidden` |

`FileTreeLemmas` first proves what the paths do (`dirname` commutes with the
rebasing of a renamed path; what is above an entry's folder is above the entry)
and then that each primitive keeps a tree a tree.  The inductive invariant of
`OverlayFSProofs` is `TypeOK /\ CopiesAreOfBase /\ WritableIsTree`:
`CopiesAreOfBase` (a task is only ever started for an entry the repository has)
is what makes a copied file have a content.  The action property needs only that
the log grows.

Under the same assumptions, and the calls the editor makes:

| Theorem | Says |
|---|---|
| `ViewStaysTree` | `ServiceSpec => []ViewIsTree` |
| `ReaddirAlwaysAgrees` | `ServiceSpec => []ReaddirAgreesWithStat` |
| `StatusIsAlwaysDiff` | `ServiceSpec => []StatusIsDiff` |
| `FileListIsAlwaysExact` | `ServiceSpec => []FileListIsVisibleFiles` |
| `CopyingIsNeverSeen` | `ServiceSpec => CopyingIsInvisible` |
| `OverlayImplementsPlainFS` | `ServiceSpec => ImplementsPlainFS` |

None of the four invariants is inductive: they speak of the view, and a step
changes the records behind it.  `ServiceInvariant` says what the records owe each
other.  `LogIsOfBase`: a line in the log is for a file, or for a folder, of the
repository, as the line says.  `KindsAgree`: where writable and the repository
both have something that the log does not hide, both have a folder or neither
has.  `RenameIsOfBase`: nothing shines through where a folder is to go.
`CopiesAreVisible`: what is about to be copied is visible already.  From the first
two follow the four invariants; from the last, that a copy is not seen.
`KindsAgree` needs the editor's discipline, which is why `Spec` alone does not
have it.

For the refinement, `RenameIsUnderWay` adds that what is visible beneath the
folder and not in writable yet is always left to some task: each task copies its
entry or hands it on to its children (`TaskHandsOn`).  So when no task is left
the move in writable is a move of all that is seen (`ViewOfMove`), and the `dir:`
line hides the rest.  Every action has a lemma of its own that names the step of
`PlainFS` it is, or that it is none.

For any number of tabs, users, access tokens and waiting calls, any buffers with
`RefreshBuffer < Buffer`, and any lifetimes:

| Theorem | Says |
|---|---|
| `OAuthProofs!TypeCorrect` | `Spec => []TypeOK` |
| `CachesAgree` | `Spec => []CachesConverge` |
| `RefreshesArePlanned` | `ShortLifetimes` gives `Spec => []RefreshIsPlanned` |
| `TimersRefresh` | `ShortLifetimes` gives `Spec => TimerGuaranteesRefresh` |
| `DisposedPagesRest` | `Spec => DisposedComesToRest` |
| `PaddedMessageIsHashed` | `ShaSpec => []HashesPaddedMessage`, whatever the length, the alignment, the size of a block and the range of a word |

`CachesConverge` says nothing while a tab is writing, so it is not inductive.
`Invariant` adds what holds meanwhile: one write per tab at a time (`OneStore`,
the mutex); storage holds no excluded refresh token (`StorageIsStored`); whatever
a tab has written is still in storage, or the
tab has a broadcast of the one that overwrote it to handle or to expect
(`StoringIsNewest`); and only pages that are there have calls and mail
(`CallsHaveAPage`).  A token is only accepted while it is valid for `Buffer`, so
a timer's delay is not negative; `ShortLifetimes` says that it does not exceed
2^31 ms either.  Without it the timer fires at once, nothing is
refreshed, and no timer is left: 24.8 days are beyond the lifetimes of KhulnaSoft
tokens, but not excluded by the code.  That a refresh is planned, and sent when the
timer fires, rests on `TimerMatchesToken`: the timer that `refreshTimeout` holds in
a running tab is due `RefreshBuffer` before the token in its cache expires, so that
when it fires the token is not valid for `Buffer` any more and `getToken` asks for
another.  It says
nothing of the timers that nothing holds (`leaked`), which may be for older tokens.
`DisposedPagesRest` is about those: setups only begin in running pages, so of a
disposed page's timers some fire, and none is set but by a setup that was waiting
and ends with it.

`ShaInvariant` says of the hash what its reused buffer has to: until `digest`, the
blocks hashed so far are the message up to a multiple of the block size, and what
is behind that begins the buffer (`RestIsBuffered`); what an earlier block left
behind it is not known.  `OneLastBlock` and `TwoLastBlocks` say what `digest` makes
of it, byte by byte, and `TailIsPadded` that this is what the standard's padding
adds.  The number of zeros in the standard is a `CHOOSE`, so it takes the
uniqueness of remainders (`RestsAgree`), which is proved from the uniqueness of
quotients because the provers do not divide by a variable.

For any number of loads, of runs of `status()`, of commands and of files:

| Theorem | Says |
|---|---|
| `SessionProofs!TypeCorrect` | `SessionSpec => []SessionTypeOK` |
| `NewestOwnsAllAlways` | `SessionSpec => []NewestOwnsAll` |
| `WorkbenchStaysUsable` | `SessionSpec => []WorkbenchIsUsable` |
| `ViewFollowsChangesAlways` | `SessionSpec => []ViewFollowsChanges` |

`Registration` is the invariant of the first part: whoever has registered the
file system since the last reload has registered the original contents after it
or found some there, and whoever has those has commands after them or found some
there; so once nobody is on his way all three are there.  `ViewInvariant` is that
of the second: a view that no callback waits for shows what is there, or some run
of `status()` is `Current`, that is, has read what is there and has not been
overtaken; and every run that is behind is older than a current one, so that the
current one's end marks it (`ViewCatchesUp`).  The runs of a load are ordered by
their beginnings (`RunsAreOrdered`), and a load that does not watch yet has seen
nothing (`NothingSeenYet`).

For any embedders, contexts, configurations, and any number of starts and
messages:

| Theorem | Says |
|---|---|
| `BootProofs!TypeCorrect` | `Spec => []BootTypeOK` |
| `EveryWorkbenchHasItsPort` | `Spec => []WorkbenchHasItsPort` |
| `DataStaysWithItsEmbedder` | `Spec => []DataIsOwnOrUnpurged` |
| `ExtensionsStayInTheirContext` | `Spec => []ExtensionsBelongToContext` |
| `FirstAnswerIsNotWasted` | `Spec => []AnswerIsNotWasted` |

The workbench is the last thing a start makes, so what it finds rests on what the
starts before it left.  `PortIsSentOnce`: a port message on its way is one of a
kind, to the start whose port it is, which is not disposed of.  `OwnersAreMarked`:
whatever the databases hold is of the embedder that the marker names, or a purge
of it was begun; and between the configuration and the workbench the marker names
the sender of the configuration.  `ExtensionsAreMarked`: a recorded context
vouches for the listed extensions, and a workbench that may install some is one
that the marker tells of, or one it never will.  `FirstStartIsFresh`: before the first
document of the first start asks, nothing is on its way to the window, so that
nothing else can have used up the one answer.

For any repository to begin with, any files and contents, and any edits, commits,
amends and force pushes in between:

| Theorem | Says |
|---|---|
| `CommitTypeCorrect` | `Spec => []CommitTypeOK` |
| `CommitsWhatWasSeen` | `Spec => []CommitIsWhatWasSeen` |
| `PlainCommitsTakeNothingBack` | `Spec => []OthersChangesSurvive` |
| `OverwritesAreCounted` | `Spec => []OverwriteIsCounted` |
| `AmendsAreRefusedOnlyIf` | `Spec => []AmendIsRefusedOnlyIf` |
| `ReloadsDropOnlyLateChanges` | `Spec => ReloadDropsOnlyLateChanges` |

The types carry the history: every commit is numbered after its parent and counts
one more than it (`IsRepository`).  `CommandIsTold`: from the counting to the push
the difference is that of the counted head's number and the number of what is
checked out (or one, where the count failed), and the user has agreed to it unless
it is a force push and the difference is 0.  `OverwriteIsCounted` is then an
argument by counting (`TakenIsAnnounced`): the commits in a history are as many as
its last one's number (`HistoryCount`), so those of the counted head that are not
in the history of what is checked out are as many as the difference, and those the
other way round, which others have taken away.  So where others have only added, a
push deletes no more than was announced; where they have amended or forced, it is
off by what they took, and finding 5 is the case where that hides everything.
What a commit contains is proved by cases of the payload: for a file, the action that
is sent for it and what the server makes of that (`Posted`, `Merged`).

For any names, and any typing, creations and deletions:

| Theorem | Says |
|---|---|
| `LoadedRefExists` | `BranchSpec => []ExistingRefIsLoaded` |

`RefInvariant` adds the types and `ChoiceIsKnown`: what the picker lists was a
branch when the search looked, so that it is one now or somebody has deleted it
since, and likewise what the prompt has created; and only a deletion gets to the
stages of a deletion.

For any number of changes of the token, of reads that overlap, and of answers late
or failed:

| Theorem | Says |
|---|---|
| `SessionGetsTheToken` | `TokenSpec => []SessionFollowsToken` |
| `RequestsAlwaysKeepUp` | `TokenSpec => []RequestsKeepUp` |

A channel keeps order, which `InOrder` states in numbers: a token on its way is the
embedder's less the changes announced behind it, so whoever is given it knows as
much as he has been told of.  `ReadersTakeTurns`: but for updates a reader waits or
is answered once, and only in its stage.  `SessionKeepsUp`: of the updates that are
answered the last one counts, and it is no older than what was heard when it was
answered; `HeadersKeepUp` is the same for a request's headers.

For any number of files, calls, searches and fetches:

| Theorem | Says |
|---|---|
| `FolderGoesEmpty` | `FilesSpec => FolderTakesNoFile` |
| `FreshListsMatch` | `FilesSpec => FreshListMatches` |

`FilesInvariant` is about the queue for the overlay's lock.  `QueueIsOf`: an
operation in it is of the stage of the call that waits for it, for a file that is
pending there, and no call has two for one file, so that the last answer leaves
none behind.  `CallsAreSound`: what a removal of the folder found, together with
what is gone, is all the folder had; and it asks for the folder itself when all is
gone (`RemovesAreLast`), after which nothing uncovers a repository's file.
`ListInvariant` adds what a search relies on between its reads (`LogsAreRead`): the
log only grows, so what it has read there is still gone; and what was not in it was
there then.  So the list, made of that and of writable as it is now, has every file
there is now and none that was there neither now nor when the log was read.  What
becomes of the list in the cache is finding 6.

For any number of loads of any refs:

| Theorem | Says |
|---|---|
| `BaseStaysOwn` | `MergeRequestSpec => []BaseIsOwnOrTold` |

`BaseInvariant`: the newest load, once it has come to registering, has the base or
has told why not, and nothing takes it away but a reload, after which it is not
the newest.

**How recursion is proved about.**  `History`, `Remote` and the library's
`FlattenSeq` are recursive functions, and an induction theorem of the library takes
an operator as a parameter, which no prover here can instantiate.  What these
functions do is proved by least counterexample instead: among the numbers for
which the claim fails there would be a least one (`LeastNumber`, from the
well-foundedness of `<`), and the function's equation refutes it.

**Assumptions.**  The theorems rest on the named assumptions of the modules, which
TLC evaluates in the runs.  Beyond the ranges of constants they say: markers for
"nothing" are none of the values (`NoneAssumption`, `NotRunningAssumption`,
`AbsentAssumption`, ...); a repository's tree is a tree (`BaseAssumption`);
`File` is finite, since a call asks for its pending files one by one
(`FilesAssumption`); a block has whole words, and room for more than the size
(`Sha256Assumption`; the code's is 64 bytes).

**Only model-checked.**  The liveness properties: `RenameReleasesLock`,
`StorageSettles`, `StartsSettle`, `FailureIsTold`,
`SearchCatchesUp`, `ActivationSettles`, `CallsEnd`.  They are consequences of
fairness, hence of `ENABLED`, which the provers do not handle (`StorageSettles` of
the finiteness of what can still happen).  Every other
property that a passing run checks is stated by a theorem above.  Not proved
either, because they are false of the code, are the properties of the runs that
expect a violation.

## 6. Plan

In this order; each item is a module with its instance and its run.

1. *(done)* The overlay, its status, its refinement, the first proofs.
2. *(done)* `OAuth` and its proofs.
3. *(done)* `Session`: overlapping loads, the view, the commands, and its proofs.
4. *(done)* `Boot` with `ClientStorage`, its proofs, and `Tokens`: the handshake
   between page and iframe, requests and answers over a port with timeouts.
5. *(done)* `Commit` on `Repository` and `CommitPayload`: what a commit sends,
   against what the view showed and what the reload drops.
6. *(done)* `FileRequests`: `rm` as the sequence of its calls among those of other
   callers, contents, the list of quick open and its key.
7. *(done)* `BranchCommands` with the queue of searches, and `MergeRequest`, with
   their proofs; `Sha256`.
8. *(done)* Proofs under `ServiceSpec`: the merged view is a tree, `readdir`, the
   status and the list of files agree with `stat`, and the refinement.
9. *(done)* Proofs about `Commit` (by cases of the payload), `FileRequests`,
   `Tokens`, `Sha256`, and the answer of `Boot`.
10. Abstract specifications of `Session` (one set of registrations) and of `Commit`
    (a linear history per branch), with their refinements.

### Not modelled

- `Boot`: what makes a configuration valid; the configuration that `start.ts`
  builds for VS Code (a value computed once); a second window of the same origin.
- The request and response mapping of the API client, and which endpoint a
  mediator command asks: one request each, and nothing is kept.
- `Sha256`'s compression of a block, and base64: published algorithms with
  published vectors, which the tests use.
- File service: which change events the editor is sent (nothing in the repository
  reads them), modes, times of single files, links, the ranking of quick open.
- `OverlayFS`: the path of the log itself.
- Welcome page, status bar items, the generated commit message and its linting,
  the look of a decoration: wording and rendering that nothing waits for.
- `cloudflare`: an asset proxy that is a copy of a third party's, stateless.
- Escaping, logging, types, themes, the example application, build scripts.
