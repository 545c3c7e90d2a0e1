--------------------------- MODULE ClientStorage ---------------------------
(***************************************************************************)
(* What the workbench's origin keeps in the browser between starts         *)
(* (packages/vscode-bootstrap): markers in localStorage, and the IndexedDB *)
(* databases of VS Code.  Each start compares the markers with its         *)
(* configuration, and decides by them whether to purge everything (another *)
(* embedder) or to remove the installed extensions (another marketplace    *)
(* context).                                                               *)
(***************************************************************************)
CONSTANTS
  Embedder,  \* origins of the pages that embed the workbench
  Context,   \* settingsContextHash: which marketplace settings are in force
  None,      \* no embedder is recorded
  NoContext  \* no context is given, or none is recorded

ASSUME NoneAssumption == None \notin Embedder /\ NoContext \notin Context

\* The part of a configuration the start depends on; from is the origin of the
\* page that sends it.
Config ==
  [from : Embedder, auth : {"oauth", "token"}, crossOriginExtensionHost : BOOLEAN,
   marketplace : BOOLEAN, context : Context \union {NoContext}]

\* localStorage: the last embedder, whether the marketplace was enabled, and the
\* last context.
Local ==
  [origin : Embedder \union {None}, marketplace : BOOLEAN,
   context : Context \union {NoContext}]

\* The databases: whose data they hold, and the contexts in which the listed
\* extensions were installed.
Databases == [owners : SUBSET Embedder, extensions : SUBSET (Context \union {NoContext})]

EmptyLocal == [origin |-> None, marketplace |-> FALSE, context |-> NoContext]

EmptyDatabases == [owners |-> {}, extensions |-> {}]

-----------------------------------------------------------------------------

EmbedderChanged(local, c) == local.origin \notin {None, c.from}

RegisterOrigin(local, c) == [local EXCEPT !.origin = c.from]

\* Each deletion succeeds or not; one that is refused (another tab has the
\* database open) fails the purge and leaves what it held.
DeletedDatabases(db) ==
  [owners : {{}, db.owners}, extensions : {{}, db.extensions}]

\* The marketplace needs the extension host on an origin of its own.
IsMarketplaceEnabled(c) == c.crossOriginExtensionHost /\ c.marketplace

ClearByMarketplace(local, c) == ~ IsMarketplaceEnabled(c) /\ local.marketplace

\* Mutant: a marker that is there is enough, whichever it is.
ClearByNewContext(local, c) ==
  c.marketplace /\ c.context # NoContext /\ local.context = NoContext

\* A marker that is missing or empty keeps the extensions ("so that users can
\* migrate").
ClearByContext(local, c) ==
  /\ c.marketplace
  /\ c.context # NoContext
  /\ local.context \notin {NoContext, c.context}

ShouldClear(local, c) == ClearByMarketplace(local, c) \/ ClearByContext(local, c)

\* removeExtensions and removeLastSyncedExtensionsData, two requests: the list
\* may be gone although the other failed.
RemovedExtensions(db) == {[db EXCEPT !.extensions = {}], db}

SaveConfigState(local, c) ==
  [local EXCEPT !.marketplace = IsMarketplaceEnabled(c), !.context = c.context]

=============================================================================
