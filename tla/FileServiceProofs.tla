------------------------- MODULE FileServiceProofs -------------------------
(***************************************************************************)
(* Under the calls the editor makes, the log, writable and the repository  *)
(* merge into one tree, and what readdir, status() and the file list       *)
(* compute from them is what stat finds; for every set of paths and        *)
(* contents and every repository.                                          *)
(***************************************************************************)
EXTENDS FileService, OverlayFSProofs

\* The log has lines for what the repository has, each of the right kind.
LogIsOfBase ==
  /\ \A p \in deletedFiles : Base[p] \in Content
  /\ \A p \in deletedDirs : Base[p] = Dir

\* What writable and the repository both have, unless the log hides it, is a
\* folder in both or in neither.
KindsAgreeIn(w) ==
  \A p \in Path : InReadable(p) /\ w[p] # Absent => (w[p] = Dir <=> Base[p] = Dir)

KindsAgree == KindsAgreeIn(writable)

\* A folder that is copied is the repository's, and nothing shines through where
\* it is to go.
RenameIsOfBase ==
  renaming # NoRename => Base[renaming.from] = Dir /\ ~ InReadable(renaming.to)

\* Copies are made under the lock, of entries that are visible already.
CopiesAreVisible ==
  /\ tasks # {} => renaming # NoRename
  /\ \A t \in tasks :
       t.stage = "copy" => InReadable(t.path) /\ writable[t.path] \in {Absent, Base[t.path]}

ServiceInvariant ==
  Invariant /\ LogIsOfBase /\ KindsAgree /\ RenameIsOfBase /\ CopiesAreVisible

-----------------------------------------------------------------------------
(* The repository's tree, and what the log hides of it. *)

\* Above an entry of the repository there are folders only.
LEMMA BaseAbove ==
  ASSUME NEW p \in Path, Base[p] # Absent, NEW a \in Lineage[p], a # p
  PROVE  Base[a] = Dir
  BY BaseAssumption, TreeAbove

\* What is above something that the log does not hide is not hidden either.
LEMMA ReadableAbove ==
  ASSUME LogIsOfBase, NEW p \in Path, NEW a \in Lineage[p], InReadable(p)
  PROVE  a \in Path /\ InReadable(a) /\ (a # p => Base[a] = Dir)
<1>1. a \in Path
  BY DEF Lineage
<1>2. a # p => Base[a] = Dir
  BY BaseAbove DEF InReadable
<1>3. Base[a] # Absent
  BY <1>2, NodeAssumption DEF InReadable
<1>4. a \notin deletedFiles
  BY <1>2, NodeAssumption DEF InReadable, IsDeleted, LogIsOfBase
<1>5. Lineage[a] \cap deletedDirs = {}
  <2>1. \A b \in Lineage[a] : b \in Lineage[p]
    BY LineageTransitive
  <2> QED
    BY <2>1 DEF InReadable, IsDeleted
<1> QED
  BY <1>1, <1>2, <1>3, <1>4, <1>5 DEF InReadable, IsDeleted

LEMMA ReadableFolder ==
  ASSUME LogIsOfBase, NEW p \in Path, InReadable(p), Dirname(p) # Root
  PROVE  Dirname(p) \in Path /\ InReadable(Dirname(p)) /\ Base[Dirname(p)] = Dir
<1>1. Dirname(p) \in Lineage[p] /\ Dirname(p) # p
  BY DirnameInLineage, LineageSelf
<1> QED
  BY <1>1, ReadableAbove

-----------------------------------------------------------------------------
(* The view. *)

LEMMA ViewTree ==
  ASSUME TypeOK, WritableIsTree, LogIsOfBase, KindsAgree
  PROVE  ViewIsTree
<1> SUFFICES ASSUME NEW p \in Path, View[p] # Absent, Dirname(p) # Root
             PROVE  View[Dirname(p)] = Dir
  BY DEF ViewIsTree, IsTree, IsDir
<1>1. Dirname(p) \in Path
  BY PathFacts
<1>2. CASE writable[p] # Absent
  <2>1. writable[Dirname(p)] = Dir
    BY <1>1, <1>2 DEF WritableIsTree, IsTree, IsDir
  <2> QED
    BY <1>1, <2>1, NodeAssumption DEF View, Stat
<1>3. CASE writable[p] = Absent
  <2>1. InReadable(p)
    BY <1>3 DEF View, Stat
  <2>2. InReadable(Dirname(p)) /\ Base[Dirname(p)] = Dir
    BY <2>1, ReadableFolder
  <2> QED
    BY <1>1, <2>2 DEF View, Stat, KindsAgree, KindsAgreeIn
<1> QED
  BY <1>2, <1>3

LEMMA ReaddirAgrees ==
  ASSUME TypeOK, LogIsOfBase
  PROVE  ReaddirAgreesWithStat
<1> SUFFICES ASSUME NEW d \in Path, NEW p \in Path, Dirname(p) = d
             PROVE  p \in Readdir(d) <=> View[p] # Absent
  BY DEF ReaddirAgreesWithStat, Readdir, Children
<1>1. d # Root
  BY PathFacts
<1>2. InReadable(p) => ~ IsDeleted(d)
  BY <1>1, ReadableFolder DEF InReadable
<1>3. p \in Readdir(d) <=> writable[p] # Absent \/ InReadable(p)
  BY <1>2 DEF Readdir, Children, InReadable
<1>4. InReadable(p) => Base[p] # Absent
  BY DEF InReadable
<1> QED
  BY <1>3, <1>4 DEF View, Stat

\* A file of the repository is in the status's list of deleted paths if the log
\* hides it.
LEMMA DeletedPathsAreHidden ==
  ASSUME LogIsOfBase, TypeOK
  PROVE  DeletedPaths = {p \in Path : Base[p] \in Content /\ IsDeleted(p)}
<1> SUFFICES ASSUME NEW p \in Path
             PROVE  p \in DeletedPaths <=> Base[p] \in Content /\ IsDeleted(p)
  BY DEF DeletedPaths, TypeOK
<1>1. \A d \in deletedDirs : d \in Path /\ (Base[p] \in Content => d # p)
  BY NodeAssumption DEF LogIsOfBase, TypeOK
<1>2. \A d \in deletedDirs : d # p => (Beneath(d, p) <=> d \in Lineage[p])
  BY <1>1, AboveIsLineage DEF Above
<1> QED
  BY <1>1, <1>2 DEF DeletedPaths, IsDeleted, LogIsOfBase

\* What a path shows, kind by kind.
LEMMA ViewKinds ==
  ASSUME TypeOK, LogIsOfBase, KindsAgree, NEW p \in Path
  PROVE  /\ Base[p] \in Content /\ View[p] \notin Content <=>
              Base[p] \in Content /\ IsDeleted(p) /\ writable[p] \notin Content
         /\ View[p] \in Content /\ View[p] # Base[p] <=>
              writable[p] \in Content /\ writable[p] # Base[p]
         /\ View[p] \in Content /\ Base[p] \notin Content <=>
              writable[p] \in Content /\ Base[p] \notin Content
<1>1. writable[p] \in Node /\ Base[p] \in Node
  BY BaseAssumption DEF TypeOK, Tree
<1>2. View[p] = IF writable[p] # Absent THEN writable[p]
                ELSE IF InReadable(p) THEN Base[p] ELSE Absent
  BY DEF View, Stat
<1>3. CASE writable[p] = Absent
  BY <1>1, <1>2, <1>3, NodeAssumption DEF InReadable
<1>4. CASE writable[p] = Dir
  BY <1>1, <1>2, <1>4, NodeAssumption DEF InReadable, KindsAgree, KindsAgreeIn
<1>5. CASE writable[p] \in Content
  BY <1>1, <1>2, <1>5, NodeAssumption
<1> QED
  BY <1>1, <1>3, <1>4, <1>5 DEF Node

LEMMA StatusAgrees ==
  ASSUME TypeOK, LogIsOfBase, KindsAgree
  PROVE  StatusIsDiff
<1> DEFINE deleted(p) == [path |-> p, type |-> "deleted"]
           created(p) == [path |-> p, type |-> "created"]
           modified(p) == [path |-> p, type |-> "modified"]
<1>1. DeletedPaths \ TouchedPaths = {q \in Path : Base[q] \in Content /\ View[q] \notin Content}
  BY DeletedPathsAreHidden, ViewKinds DEF TouchedPaths
<1>2. UNION {StatusOf(p) : p \in TouchedPaths} =
        {created(p) : p \in {q \in TouchedPaths : Base[q] \notin Content}}
        \union {modified(p) : p \in {q \in TouchedPaths : Base[q] \in Content /\ writable[q] # Base[q]}}
  BY DEF StatusOf
<1>3. {q \in TouchedPaths : Base[q] \notin Content} =
        {q \in Path : Base[q] \notin Content /\ View[q] \in Content}
  BY ViewKinds DEF TouchedPaths
<1>4. {q \in TouchedPaths : Base[q] \in Content /\ writable[q] # Base[q]} =
        {q \in Path : Base[q] \in Content /\ View[q] \in Content /\ Base[q] # View[q]}
  BY ViewKinds DEF TouchedPaths
<1> QED
  BY <1>1, <1>2, <1>3, <1>4 DEF StatusIsDiff, Status, Diff

LEMMA FileListAgrees ==
  ASSUME TypeOK, LogIsOfBase, KindsAgree
  PROVE  FileListIsVisibleFiles
<1> SUFFICES ASSUME NEW p \in Path
             PROVE  p \in AllBlobs <=> Stat(writable, p) \in Content
  BY DEF FileListIsVisibleFiles, AllBlobs
<1>1. Status = Diff(Base, View)
  BY StatusAgrees DEF StatusIsDiff
<1>2. View[p] = Stat(writable, p)
  BY DEF View
<1>3. [path |-> p, type |-> "deleted"] \in Status <=> Base[p] \in Content /\ View[p] \notin Content
  BY <1>1 DEF Diff
<1>4. [path |-> p, type |-> "created"] \in Status <=> Base[p] \notin Content /\ View[p] \in Content
  BY <1>1 DEF Diff
<1> QED
  BY <1>2, <1>3, <1>4 DEF AllBlobs

-----------------------------------------------------------------------------
(* Kinds keep agreeing. *)

\* A step never uncovers anything of the repository.
LEMMA ReadableShrinks ==
  ASSUME [Next]_vars, NEW p \in Path, InReadable(p)'
  PROVE  InReadable(p)
  BY LogOnlyGrows DEF InReadable, IsDeleted

LEMMA KindsStayAgreed ==
  ASSUME [Next]_vars, KindsAgreeIn(writable')
  PROVE  KindsAgree'
  BY ReadableShrinks DEF KindsAgree, KindsAgreeIn

\* Folders made where no file is visible.
LEMMA FoldersAgree ==
  ASSUME TypeOK, KindsAgree, NEW p \in Path \union {Root},
         p # Root => \A a \in Lineage[p] : View[a] \notin Content
  PROVE  KindsAgreeIn(Mkdirp(writable, p))
<1> SUFFICES ASSUME NEW q \in Path, InReadable(q), Mkdirp(writable, p)[q] # Absent
             PROVE  Mkdirp(writable, p)[q] = Dir <=> Base[q] = Dir
  BY DEF KindsAgreeIn
<1>1. CASE Mkdirp(writable, p)[q] = writable[q]
  BY <1>1 DEF KindsAgree, KindsAgreeIn
<1>2. CASE Mkdirp(writable, p)[q] # writable[q]
  <2>1. p # Root /\ q \in Lineage[p] /\ writable[q] = Absent /\ Mkdirp(writable, p)[q] = Dir
    BY <1>2 DEF Mkdirp, Exists
  <2>2. View[q] = Base[q]
    BY <2>1 DEF View, Stat
  <2>3. Base[q] \in Node /\ Base[q] # Absent
    BY BaseAssumption DEF Tree, InReadable
  <2> QED
    BY <2>1, <2>2, <2>3 DEF Node
<1> QED
  BY <1>1, <1>2

\* The folder of p, made where the file service has seen no file above p.
LEMMA DirnameAgrees ==
  ASSUME TypeOK, KindsAgree, NEW p \in Path, NoFileAbove(View, p)
  PROVE  KindsAgreeIn(Mkdirp(writable, Dirname(p)))
<1>1. ASSUME Dirname(p) # Root, NEW a \in Lineage[Dirname(p)]
      PROVE  a \in Above[p]
  <2>1. Dirname(p) \in Path /\ Dirname(p) \in Lineage[p] /\ p \notin Lineage[Dirname(p)]
    BY <1>1, DirnameInLineage
  <2> QED
    BY <1>1, <2>1, LineageTransitive, AboveIsLineage
<1>2. Dirname(p) \in Path \union {Root}
  BY DirnameIsPlace
<1> QED
  BY <1>1, <1>2, FoldersAgree DEF NoFileAbove

LEMMA PutAgrees ==
  ASSUME NEW t \in Tree, KindsAgreeIn(t), NEW p \in Path, NEW content \in Content,
         InReadable(p) => Base[p] # Dir
  PROVE  KindsAgreeIn(Put(t, p, content))
<1>1. \A q \in Path : Put(t, p, content)[q] = IF q = p THEN content ELSE t[q]
  BY DEF Put, Tree
<1> QED
  BY <1>1, NodeAssumption DEF KindsAgreeIn

LEMMA DeleteAgrees ==
  ASSUME NEW t \in Tree, KindsAgreeIn(t), NEW p \in Path
  PROVE  KindsAgreeIn(Delete(t, p))
<1>1. \A q \in Path : Delete(t, p)[q] = IF q = p THEN Absent ELSE t[q]
  BY DEF Delete, Tree
<1> QED
  BY <1>1 DEF KindsAgreeIn

\* Where nothing shines through, nothing does beneath it, whatever is moved
\* there.
LEMMA MoveAgrees ==
  ASSUME LogIsOfBase, NEW t \in Tree, KindsAgreeIn(t), NEW old \in Path, NEW new \in Path,
         ~ InReadable(new)
  PROVE  KindsAgreeIn(Move(t, old, new))
<1> SUFFICES ASSUME NEW q \in Path, InReadable(q), Move(t, old, new)[q] # Absent
             PROVE  Move(t, old, new)[q] = t[q]
  BY DEF KindsAgreeIn
<1>1. new \notin Lineage[q]
  BY ReadableAbove
<1> QED
  BY <1>1 DEF Move

\* What a copy step changes: it puts what the repository has at the entry it
\* copies, and the repository's folders above it where they are missing.
LEMMA TaskStepEffect ==
  ASSUME Invariant, NEW todo, NEW todoNext, NEW t \in Task, Base[t.path] # Absent,
         TaskStep(t, todo, todoNext), NEW q \in Path, writable'[q] # writable[q]
  PROVE  /\ t.stage = "copy"
         /\ q \in Lineage[t.path]
         /\ q # t.path => writable[q] = Absent
         /\ writable'[q] = Base[q]
<1>1. t.path \in Path /\ writable \in Tree
  BY DEF Task, Invariant, TypeOK
<1>2. CASE CopyDir(t, todo, todoNext)
  <2>1. q \in Lineage[t.path] /\ writable[q] = Absent /\ writable'[q] = Dir
    BY <1>2 DEF CopyDir, Mkdirp
  <2>2. Base[q] = Dir
    BY <1>1, <1>2, <2>1, BaseAbove DEF CopyDir
  <2> QED
    BY <1>2, <2>1, <2>2 DEF CopyDir
<1>3. CASE CopyFile(t, todo, todoNext)
  <2> DEFINE d == Dirname(t.path)
             prepared == Mkdirp(writable, d)
  <2>1. /\ t.stage = "copy"
        /\ writable' = Put(prepared, t.path, Base[t.path])
    BY <1>3 DEF CopyFile
  <2>2. prepared \in Tree
    BY <1>1, DirnameIsPlace, MkdirpNodes
  <2>3. \A r \in Path : writable'[r] = IF r = t.path THEN Base[t.path] ELSE prepared[r]
    BY <2>1, <2>2 DEF Put, Tree
  <2>4. CASE q = t.path
    BY <1>1, <2>1, <2>3, <2>4, LineageSelf
  <2>5. CASE q # t.path
    <3>1. prepared[q] # writable[q]
      BY <2>3, <2>5
    <3>2. d # Root /\ q \in Lineage[d] /\ writable[q] = Absent /\ prepared[q] = Dir
      BY <3>1 DEF Mkdirp, Exists
    <3>3. q \in Lineage[t.path]
      BY <1>1, <3>2, DirnameInLineage, LineageTransitive
    <3>4. Base[q] = Dir
      BY <1>1, <2>5, <3>3, BaseAbove
    <3> QED
      BY <2>1, <2>3, <2>5, <3>2, <3>3, <3>4
  <2> QED
    BY <2>4, <2>5
<1>4. CASE ~ CopyDir(t, todo, todoNext) /\ ~ CopyFile(t, todo, todoNext)
  BY <1>4 DEF TaskStep, VisitDeleted, VisitMissing, VisitPresentDir
<1> QED
  BY <1>2, <1>3, <1>4

LEMMA CopyAgrees ==
  ASSUME Invariant, KindsAgree, NEW todo, NEW todoNext, NEW t \in Task, Base[t.path] # Absent,
         TaskStep(t, todo, todoNext)
  PROVE  KindsAgreeIn(writable')
<1>1. \A q \in Path : writable'[q] = writable[q] \/ writable'[q] = Base[q]
  BY TaskStepEffect
<1> QED
  BY <1>1 DEF KindsAgree, KindsAgreeIn

-----------------------------------------------------------------------------
(* The invariant. *)

LEMMA ServiceStepsAreSteps == [ServiceNext]_vars => [Next]_vars
  BY DEF ServiceNext, ServiceCall, Next, Call

LEMMA ServiceInvariantHoldsInitially == Init => ServiceInvariant
  BY InvariantHoldsInitially
     DEF Init, ServiceInvariant, LogIsOfBase, KindsAgree, KindsAgreeIn, RenameIsOfBase,
         CopiesAreVisible, EmptyTree

\* A call keeps it.
LEMMA CallKeepsServiceInvariant ==
  ASSUME ServiceInvariant, ServiceCall
  PROVE  LogIsOfBase' /\ KindsAgreeIn(writable') /\ RenameIsOfBase' /\ CopiesAreVisible'
<1> USE DEF log, copying
<1>1. /\ TypeOK /\ writable \in Tree
      /\ LogIsOfBase /\ KindsAgree /\ KindsAgreeIn(writable)
      /\ tasks # {} => renaming # NoRename
  BY DEF ServiceInvariant, Invariant, TypeOK, KindsAgree, CopiesAreVisible
\* What a call has to establish when it starts no copying.
<1>2. ASSUME LogIsOfBase', KindsAgreeIn(writable'), renaming = NoRename, UNCHANGED copying
      PROVE  LogIsOfBase' /\ KindsAgreeIn(writable') /\ RenameIsOfBase' /\ CopiesAreVisible'
  BY <1>1, <1>2 DEF RenameIsOfBase, CopiesAreVisible
<1>3. \A p \in Path : View[p] = Stat(writable, p)
  BY DEF View
<1>4. ASSUME NEW p \in Path, NoFileAbove(View, p), Mkdir(p)
      PROVE  KindsAgreeIn(writable') /\ LogIsOfBase'
  <2>1. \A a \in Lineage[p] : View[a] \notin Content
    BY <1>3, <1>4, AboveIsLineage, NodeAssumption DEF Mkdir, NoFileAbove
  <2> QED
    BY <1>1, <1>4, <2>1, FoldersAgree DEF Mkdir, LogIsOfBase
<1>5. ASSUME NEW p \in Path, NEW content \in Content,
             NoFileAbove(View, p), View[p] # Dir, WriteFile(p, content)
      PROVE  KindsAgreeIn(writable') /\ LogIsOfBase'
  <2> DEFINE prepared == Mkdirp(writable, Dirname(p))
  <2>1. prepared \in Tree /\ KindsAgreeIn(prepared)
    BY <1>1, <1>5, DirnameIsPlace, MkdirpNodes, DirnameAgrees
  <2>2. InReadable(p) => Base[p] # Dir
    BY <1>1, <1>3, <1>5 DEF Stat, KindsAgreeIn
  <2>3. KindsAgreeIn(Put(prepared, p, content))
    BY <2>1, <2>2, PutAgrees
  <2> QED
    BY <1>1, <1>5, <2>3 DEF WriteFile, LogIsOfBase
<1>6. ASSUME NEW p \in Path, View[p] \in Content, Unlink(p)
      PROVE  KindsAgreeIn(writable') /\ LogIsOfBase'
  <2>1. Base[p] \in Node
    BY BaseAssumption DEF Tree
  <2>2. InReadable(p) => Base[p] \in Content
    BY <1>1, <1>3, <1>6, <2>1, NodeAssumption DEF Stat, KindsAgreeIn, InReadable, Node
  <2>3. LogIsOfBase'
    BY <1>1, <1>6, <2>2 DEF Unlink, LogIsOfBase
  <2> QED
    BY <1>1, <1>6, <2>3, DeleteAgrees DEF Unlink
<1>7. ASSUME NEW p \in Path, View[p] = Dir, Rmdir(p)
      PROVE  KindsAgreeIn(writable') /\ LogIsOfBase'
  <2>1. InReadable(p) => Base[p] = Dir
    BY <1>1, <1>3, <1>7, NodeAssumption DEF Stat, KindsAgreeIn
  <2>2. LogIsOfBase'
    BY <1>1, <1>7, <2>1 DEF Rmdir, LogIsOfBase
  <2> QED
    BY <1>1, <1>7, <2>2, DeleteAgrees DEF Rmdir
<1>8. ASSUME NEW old \in Path, NEW new \in Path, NoFileAbove(View, new), Rename(old, new)
      PROVE  LogIsOfBase' /\ KindsAgreeIn(writable') /\ RenameIsOfBase' /\ CopiesAreVisible'
  <2>1. MayRename(old, new)
    BY <1>8 DEF Rename, RenameFile, RenameNewDir, RenameFails, StartRenameDir
  <2>2. /\ Prepared(new) \in Tree /\ KindsAgreeIn(Prepared(new))
        /\ writable[old] # Absent => Prepared(new)[old] = writable[old]
        /\ Prepared(new)[old] = Absent => writable[old] = Absent
    BY <1>1, <1>8, DirnameIsPlace, MkdirpNodes, DirnameAgrees DEF Prepared
  <2>3. /\ ~ InReadable(new) /\ renaming = NoRename
        /\ Base[old] \in Node
    BY <2>1, BaseAssumption DEF MayRename, Stat, InReadable, Tree
  <2>4. CASE RenameFile(old, new)
    <3>1. Stat(Prepared(new), old) \in Content
      BY <2>4 DEF RenameFile
    <3>2. InReadable(old) => Base[old] \in Content
      BY <2>2, <2>3, <3>1, NodeAssumption DEF Stat, KindsAgreeIn, InReadable, Node
    <3>3. LogIsOfBase'
      BY <1>1, <2>4, <3>2 DEF RenameFile, LogIsOfBase
    <3>4. KindsAgreeIn(writable')
      <4>1. CASE writable[old] # Absent
        BY <1>1, <2>2, <2>3, <2>4, <4>1, MoveAgrees DEF RenameFile
      <4>2. CASE writable[old] = Absent
        <5>1. InReadable(old)
          BY <2>1, <4>2 DEF MayRename, Stat
        <5> QED
          BY <2>2, <2>3, <2>4, <3>2, <4>2, <5>1, PutAgrees DEF RenameFile
      <4> QED
        BY <4>1, <4>2
    <3> QED
      BY <1>2, <2>3, <2>4, <3>3, <3>4 DEF RenameFile
  <2>5. CASE RenameNewDir(old, new)
    <3>1. KindsAgreeIn(writable')
      BY <1>1, <2>2, <2>3, <2>5, MoveAgrees DEF RenameNewDir
    <3>2. LogIsOfBase'
      BY <1>1, <2>5 DEF RenameNewDir, LogIsOfBase
    <3> QED
      BY <1>2, <2>3, <2>5, <3>1, <3>2 DEF RenameNewDir
  <2>6. CASE RenameFails(old, new)
    <3>1. KindsAgreeIn(writable') /\ LogIsOfBase'
      BY <1>1, <2>2, <2>6 DEF RenameFails, LogIsOfBase
    <3> QED
      BY <1>2, <2>3, <2>6, <3>1 DEF RenameFails
  <2>7. CASE StartRenameDir(old, new)
    <3>1. KindsAgreeIn(writable') /\ LogIsOfBase'
      BY <1>1, <2>2, <2>7 DEF StartRenameDir, LogIsOfBase
    <3>2. Base[old] = Dir
      BY <2>2, <2>7, NodeAssumption DEF StartRenameDir, Stat, KindsAgreeIn
    <3>3. RenameIsOfBase'
      BY <2>3, <2>7, <3>2 DEF StartRenameDir, RenameIsOfBase, InReadable, IsDeleted
    <3>4. renaming' # NoRename
      BY <2>7, NoRenameAssumption DEF StartRenameDir
    <3>5. CopiesAreVisible'
      BY <2>7, <3>4 DEF StartRenameDir, CopiesAreVisible
    <3> QED
      BY <3>1, <3>3, <3>5
  <2> QED
    BY <1>8, <2>4, <2>5, <2>6, <2>7 DEF Rename
<1> QED
  BY <1>2, <1>4, <1>5, <1>6, <1>7, <1>8 DEF ServiceCall, Mkdir, WriteFile, Unlink, Rmdir

\* What runs behind the calls keeps it.
LEMMA BackgroundKeepsServiceInvariant ==
  ASSUME ServiceInvariant, Background
  PROVE  LogIsOfBase' /\ KindsAgreeIn(writable') /\ RenameIsOfBase' /\ CopiesAreVisible'
<1> USE DEF log
<1>1. /\ Invariant /\ TypeOK /\ writable \in Tree
      /\ tasks \subseteq Task /\ strays \subseteq Task
      /\ \A t \in tasks \union strays : Base[t.path] # Absent
      /\ LogIsOfBase /\ KindsAgree /\ KindsAgreeIn(writable) /\ RenameIsOfBase
      /\ CopiesAreVisible
  BY DEF ServiceInvariant, Invariant, TypeOK, CopiesAreOfBase, KindsAgree
<1>2. CASE FinishRenameDir
  <2>1. /\ renaming.from \in Path /\ renaming.to \in Path
        /\ Base[renaming.from] = Dir /\ ~ InReadable(renaming.to)
    BY <1>1, <1>2 DEF FinishRenameDir, TypeOK, RenameIsOfBase
  <2>2. LogIsOfBase'
    BY <1>1, <1>2, <2>1 DEF FinishRenameDir, LogIsOfBase
  <2>3. KindsAgreeIn(writable')
    BY <1>1, <1>2, <2>1, MoveAgrees DEF FinishRenameDir
  <2> QED
    BY <1>2, <2>2, <2>3 DEF FinishRenameDir, RenameIsOfBase, CopiesAreVisible
<1>3. ASSUME NEW t \in tasks, RunTask(t)
      PROVE  LogIsOfBase' /\ KindsAgreeIn(writable') /\ RenameIsOfBase' /\ CopiesAreVisible'
  <2>1. /\ t \in Task /\ Base[t.path] # Absent
        /\ TaskStep(t, tasks, tasks') /\ UNCHANGED <<log, renaming, strays>>
    BY <1>1, <1>3 DEF RunTask
  <2>2. KindsAgreeIn(writable')
    BY <1>1, <2>1, CopyAgrees
  <2>3. \A q \in Path : writable'[q] = writable[q] \/ writable'[q] = Base[q]
    BY <1>1, <2>1, TaskStepEffect
  <2>4. \A s \in tasks' :
          \/ s \in tasks
          \/ s.stage = "visit"
          \/ s = [t EXCEPT !.stage = "copy"] /\ VisitMissing(t, tasks, tasks')
    BY <2>1 DEF TaskStep, VisitDeleted, VisitMissing, VisitPresentDir, CopyDir, CopyFile, ChildTasks
  <2>5. ASSUME NEW s \in tasks', s.stage = "copy"
        PROVE  InReadable(s.path) /\ writable'[s.path] \in {Absent, Base[s.path]}
    <3>1. CASE s \in tasks
      <4>1. s.path \in Path /\ InReadable(s.path) /\ writable[s.path] \in {Absent, Base[s.path]}
        BY <1>1, <2>5, <3>1 DEF CopiesAreVisible, Task
      <4> QED
        BY <2>3, <4>1
    <3>2. CASE s = [t EXCEPT !.stage = "copy"] /\ VisitMissing(t, tasks, tasks')
      <4>1. s.path = t.path
        BY <2>1, <3>2 DEF Task
      <4> QED
        BY <2>1, <3>2, <4>1 DEF VisitMissing, InReadable
    <3> QED
      BY <2>4, <2>5, <3>1, <3>2
  <2>6. \A p : InReadable(p)' <=> InReadable(p)
    BY <2>1 DEF InReadable, IsDeleted
  <2>7. CopiesAreVisible'
    BY <1>1, <1>3, <2>1, <2>5, <2>6 DEF CopiesAreVisible
  <2> QED
    BY <1>1, <2>1, <2>2, <2>6, <2>7 DEF LogIsOfBase, RenameIsOfBase
<1>4. ASSUME NEW t \in tasks, FailRenameDir(t)
      PROVE  LogIsOfBase' /\ KindsAgreeIn(writable') /\ RenameIsOfBase' /\ CopiesAreVisible'
  BY <1>1, <1>4 DEF FailRenameDir, LogIsOfBase, RenameIsOfBase, CopiesAreVisible
<1>5. ASSUME NEW t \in strays, RunStray(t)
      PROVE  LogIsOfBase' /\ KindsAgreeIn(writable') /\ RenameIsOfBase' /\ CopiesAreVisible'
  <2>1. /\ t \in Task /\ Base[t.path] # Absent
        /\ TaskStep(t, strays, strays') /\ UNCHANGED <<log, renaming, tasks>>
    BY <1>1, <1>5 DEF RunStray
  <2>2. KindsAgreeIn(writable')
    BY <1>1, <2>1, CopyAgrees
  <2>3. \A q \in Path : writable'[q] = writable[q] \/ writable'[q] = Base[q]
    BY <1>1, <2>1, TaskStepEffect
  <2>4. \A p : InReadable(p)' <=> InReadable(p)
    BY <2>1 DEF InReadable, IsDeleted
  <2>5. \A s \in tasks : s.path \in Path
    BY <1>1 DEF Task
  <2> QED
    BY <1>1, <2>1, <2>2, <2>3, <2>4, <2>5 DEF LogIsOfBase, RenameIsOfBase, CopiesAreVisible
<1>6. ASSUME NEW t \in strays, DropStray(t)
      PROVE  LogIsOfBase' /\ KindsAgreeIn(writable') /\ RenameIsOfBase' /\ CopiesAreVisible'
  BY <1>1, <1>6 DEF DropStray, LogIsOfBase, RenameIsOfBase, CopiesAreVisible, InReadable, IsDeleted
<1> QED
  BY <1>2, <1>3, <1>4, <1>5, <1>6 DEF Background

LEMMA ServiceInvariantIsKept == ServiceInvariant /\ [ServiceNext]_vars => ServiceInvariant'
<1> SUFFICES ASSUME ServiceInvariant, [ServiceNext]_vars
             PROVE  ServiceInvariant'
  OBVIOUS
<1>1. [Next]_vars /\ Invariant'
  BY ServiceStepsAreSteps, InvariantIsKept DEF ServiceInvariant
<1>2. CASE ServiceNext
  <2>1. LogIsOfBase' /\ KindsAgreeIn(writable') /\ RenameIsOfBase' /\ CopiesAreVisible'
    BY <1>2, CallKeepsServiceInvariant, BackgroundKeepsServiceInvariant DEF ServiceNext
  <2>2. KindsAgree'
    BY <1>1, <2>1, KindsStayAgreed
  <2> QED
    BY <1>1, <2>1, <2>2 DEF ServiceInvariant
<1>3. CASE UNCHANGED vars
  BY <1>1, <1>3
     DEF vars, ServiceInvariant, LogIsOfBase, KindsAgree, KindsAgreeIn, RenameIsOfBase,
         CopiesAreVisible, InReadable, IsDeleted
<1> QED
  BY <1>2, <1>3

LEMMA ServiceInvariantHolds == ServiceSpec => []ServiceInvariant
  BY ServiceInvariantHoldsInitially, ServiceInvariantIsKept, PTL DEF ServiceSpec

LEMMA PartsOfServiceInvariant ==
  ServiceInvariant => TypeOK /\ WritableIsTree /\ LogIsOfBase /\ KindsAgree
  BY DEF ServiceInvariant, Invariant

-----------------------------------------------------------------------------
(* What the user sees. *)

\* Nothing is ever visible beneath a missing folder or beneath a file, in
\* whatever order folders are renamed, deleted and made again.
THEOREM ViewStaysTree == ServiceSpec => []ViewIsTree
<1>1. ServiceInvariant => ViewIsTree
  BY PartsOfServiceInvariant, ViewTree
<1> QED
  BY <1>1, ServiceInvariantHolds, PTL

\* readdir, which looks at the log once for the folder and once per child,
\* always lists exactly what stat finds.
THEOREM ReaddirAlwaysAgrees == ServiceSpec => []ReaddirAgreesWithStat
<1>1. ServiceInvariant => ReaddirAgreesWithStat
  BY PartsOfServiceInvariant, ReaddirAgrees
<1> QED
  BY <1>1, ServiceInvariantHolds, PTL

\* status(), which never looks at the merged tree, is always the difference
\* between the repository and what the user sees.
THEOREM StatusIsAlwaysDiff == ServiceSpec => []StatusIsDiff
<1>1. ServiceInvariant => StatusIsDiff
  BY PartsOfServiceInvariant, StatusAgrees
<1> QED
  BY <1>1, ServiceInvariantHolds, PTL

\* The list for quick-open never misses a visible file and never has a hidden
\* one.
THEOREM FileListIsAlwaysExact == ServiceSpec => []FileListIsVisibleFiles
<1>1. ServiceInvariant => FileListIsVisibleFiles
  BY PartsOfServiceInvariant, FileListAgrees
<1> QED
  BY <1>1, ServiceInvariantHolds, PTL

\* A task that has taken its step is gone from its set.
LEMMA TaskIsDone ==
  ASSUME NEW todo, NEW todoNext, NEW t \in todo, t \in Task, TaskStep(t, todo, todoNext)
  PROVE  t \notin todoNext
<1>1. t.path \in Path /\ \A p \in Path : Dirname(p) = t.path => p # t.path
  BY PathFacts DEF Task
<1>2. t \notin ChildTasks(t.path)
  BY <1>1 DEF ChildTasks, Children
<1>3. t.stage = "visit" => t # [t EXCEPT !.stage = "copy"]
  BY DEF Task
<1> QED
  BY <1>2, <1>3 DEF TaskStep, VisitDeleted, VisitMissing, VisitPresentDir, CopyDir, CopyFile

\* A task of the rename that holds the lock changes nothing visible.
LEMMA TaskIsUnseen ==
  ASSUME ServiceInvariant, NEW t \in tasks, RunTask(t)
  PROVE  UNCHANGED View
<1>1. /\ Invariant /\ LogIsOfBase /\ CopiesAreVisible
      /\ t \in Task /\ Base[t.path] # Absent
      /\ TaskStep(t, tasks, tasks') /\ UNCHANGED log
  BY DEF ServiceInvariant, Invariant, TypeOK, CopiesAreOfBase, RunTask
<1>2. \A q \in Path : InReadable(q)' <=> InReadable(q)
  BY <1>1 DEF InReadable, IsDeleted, log
<1>3. ASSUME NEW q \in Path, writable'[q] # writable[q]
      PROVE  writable[q] = Absent /\ writable'[q] = Base[q] /\ InReadable(q)
  <2>1. /\ t.stage = "copy" /\ q \in Lineage[t.path]
        /\ q # t.path => writable[q] = Absent
        /\ writable'[q] = Base[q]
    BY <1>1, <1>3, TaskStepEffect
  <2>2. InReadable(t.path) /\ writable[t.path] \in {Absent, Base[t.path]}
    BY <1>1, <2>1 DEF CopiesAreVisible
  <2>3. t.path \in Path
    BY <1>1 DEF Task
  <2>4. InReadable(q)
    BY <1>1, <2>1, <2>2, <2>3, ReadableAbove
  <2> QED
    BY <1>3, <2>1, <2>2, <2>4
<1>4. \A q \in Path : Stat(writable, q)' = Stat(writable, q)
  BY <1>2, <1>3 DEF Stat, InReadable
<1> QED
  BY <1>4 DEF View

\* Whatever order the copy tasks of a folder rename run in, the user sees
\* nothing of them until the folder moves.
THEOREM CopyingIsNeverSeen == ServiceSpec => CopyingIsInvisible
<1> USE DEF log, copying
<1>1. ASSUME ServiceInvariant, [ServiceNext]_vars, renaming # NoRename,
             UNCHANGED <<renaming, strays>>
      PROVE  UNCHANGED View
  <2>1. /\ Invariant /\ LogIsOfBase /\ CopiesAreVisible
        /\ tasks \subseteq Task /\ strays \subseteq Task
        /\ \A t \in tasks : Base[t.path] # Absent
    BY <1>1 DEF ServiceInvariant, Invariant, TypeOK, CopiesAreOfBase
  <2>2. CASE UNCHANGED vars
    BY <2>2 DEF vars, View, Stat, InReadable, IsDeleted
  <2>3. ASSUME NEW t \in tasks, RunTask(t)
        PROVE  UNCHANGED View
    BY <1>1, <2>3, TaskIsUnseen
  <2>4. ASSUME NEW t \in strays
        PROVE  ~ RunStray(t) /\ ~ DropStray(t)
    BY <1>1, <2>1, TaskIsDone DEF RunStray, DropStray
  <2>5. ~ FinishRenameDir /\ \A t \in tasks : ~ FailRenameDir(t)
    BY <1>1 DEF FinishRenameDir, FailRenameDir
  <2>6. ~ ServiceCall
    BY <1>1 DEF ServiceCall, Mkdir, WriteFile, Unlink, Rmdir, Rename, RenameFile, RenameNewDir,
                RenameFails, StartRenameDir, MayRename
  <2> QED
    BY <1>1, <2>2, <2>3, <2>4, <2>5, <2>6 DEF ServiceNext, Background
<1>2. ServiceInvariant /\ [ServiceNext]_vars =>
        [renaming # NoRename /\ UNCHANGED <<renaming, strays>> => UNCHANGED View]_vars
  BY <1>1
<1> QED
  BY <1>2, ServiceInvariantHolds, PTL DEF ServiceSpec, CopyingIsInvisible

-----------------------------------------------------------------------------
(* Refinement.  What a rename under way has yet to copy, and where to. *)

RenameIsUnderWay ==
  renaming # NoRename =>
    /\ InReadable(renaming.from)
    /\ writable[renaming.to] \in {Absent, Base[renaming.to]}
    /\ \A t \in tasks : renaming.from \in Lineage[t.path]
    \* what is visible and not in writable yet is left to some task
    /\ \A q \in Path :
         renaming.from \in Lineage[q] /\ InReadable(q) /\ writable[q] = Absent =>
           \E t \in tasks : t.path \in Lineage[q]

FullInvariant == ServiceInvariant /\ RenameIsUnderWay

\* A task hands what it has to cover on to the tasks that follow it, or copies it.
LEMMA TaskHandsOn ==
  ASSUME LogIsOfBase, NEW todo, NEW todoNext, NEW t \in Task, writable \in Tree,
         TaskStep(t, todo, todoNext), NEW q \in Path, t.path \in Lineage[q], InReadable(q),
         writable'[q] = Absent
  PROVE  \E s \in todoNext : s.path \in Lineage[q]
<1>1. t.path \in Path /\ InReadable(t.path) /\ (t.path # q => Base[t.path] = Dir)
  BY ReadableAbove DEF Task
<1>2. ASSUME t.path # q, ChildTasks(t.path) \subseteq todoNext
      PROVE  \E s \in todoNext : s.path \in Lineage[q]
  <2>1. PICK c \in Path : Dirname(c) = t.path /\ c \in Lineage[q]
    BY <1>1, <1>2, ChildOnTheWay
  <2>2. Base[c] # Absent
    BY <2>1, ReadableAbove DEF InReadable
  <2>3. [path |-> c, stage |-> "visit"] \in ChildTasks(t.path)
    BY <2>1, <2>2 DEF ChildTasks, Children
  <2> QED
    BY <1>2, <2>1, <2>3
<1>3. CASE VisitDeleted(t, todo, todoNext)
  BY <1>1, <1>3 DEF VisitDeleted, InReadable
<1>4. CASE VisitMissing(t, todo, todoNext)
  <2>1. [t EXCEPT !.stage = "copy"].path = t.path
    BY DEF Task
  <2> QED
    BY <1>4, <2>1 DEF VisitMissing
<1>5. CASE VisitPresentDir(t, todo, todoNext)
  BY <1>2, <1>5 DEF VisitPresentDir
<1>6. CASE CopyDir(t, todo, todoNext)
  <2>1. writable'[t.path] # Absent
    BY <1>1, <1>6, PathFacts, LineageSelf, NodeAssumption DEF CopyDir, Mkdirp, Exists
  <2> QED
    BY <1>2, <1>6, <2>1 DEF CopyDir
<1>7. CASE CopyFile(t, todo, todoNext)
  <2>1. t.path = q
    BY <1>1, <1>7 DEF CopyFile
  <2>2. Mkdirp(writable, Dirname(t.path)) \in Tree
    BY <1>1, DirnameIsPlace, MkdirpNodes
  <2>3. writable'[q] = Base[q]
    BY <1>7, <2>1, <2>2 DEF CopyFile, Put, Tree
  <2> QED
    BY <2>3 DEF InReadable
<1> QED
  BY <1>3, <1>4, <1>5, <1>6, <1>7 DEF TaskStep

\* The tasks that follow a task are beneath it.
LEMMA TaskStaysBeneath ==
  ASSUME NEW todo, NEW todoNext, NEW t \in Task, TaskStep(t, todo, todoNext), NEW s \in todoNext
  PROVE  s \in todo \/ (s.path \in Path /\ t.path \in Lineage[s.path])
<1>1. t.path \in Path /\ [t EXCEPT !.stage = "copy"].path = t.path
  BY DEF Task
<1>2. t.path \in Lineage[t.path]
  BY <1>1, LineageSelf
<1>3. ASSUME s \in ChildTasks(t.path)
      PROVE  s.path \in Path /\ t.path \in Lineage[s.path]
  <2>1. s.path \in Path /\ Dirname(s.path) = t.path
    BY <1>3 DEF ChildTasks, Children
  <2> QED
    BY <1>1, <2>1, PathFacts, DirnameInLineage
<1> QED
  BY <1>1, <1>2, <1>3 DEF TaskStep, VisitDeleted, VisitMissing, VisitPresentDir, CopyDir, CopyFile

LEMMA FullInvariantIsKept == FullInvariant /\ [ServiceNext]_vars => FullInvariant'
<1> SUFFICES ASSUME FullInvariant, [ServiceNext]_vars
             PROVE  RenameIsUnderWay'
  BY ServiceInvariantIsKept DEF FullInvariant
<1> USE DEF log, copying
<1>1. /\ ServiceInvariant /\ Invariant /\ TypeOK /\ LogIsOfBase /\ KindsAgree
      /\ writable \in Tree
      /\ tasks \subseteq Task /\ strays \subseteq Task
      /\ \A t \in tasks \union strays : Base[t.path] # Absent
      /\ renaming # NoRename => renaming.from \in Path /\ renaming.to \in Path
  BY DEF FullInvariant, ServiceInvariant, Invariant, TypeOK, CopiesAreOfBase
<1>2. CASE UNCHANGED vars
  BY <1>2 DEF vars, FullInvariant, RenameIsUnderWay, InReadable, IsDeleted
<1>3. ASSUME NEW old \in Path, NEW new \in Path, StartRenameDir(old, new)
      PROVE  RenameIsUnderWay'
  <2>1. /\ InReadable(old) /\ writable[new] = Absent
        /\ writable' = Mkdirp(writable, Dirname(new)) /\ UNCHANGED log
        /\ renaming' = [from |-> old, to |-> new]
        /\ tasks' = {[path |-> old, stage |-> "visit"]}
    BY <1>3 DEF StartRenameDir, MayRename, Stat, Prepared
  <2>2. writable'[new] = Absent
    BY <2>1, DirnameInLineage DEF Mkdirp, Exists
  <2>3. InReadable(old)'
    BY <2>1 DEF InReadable, IsDeleted
  <2>4. old \in Lineage[old]
    BY LineageSelf
  <2> QED
    BY <2>1, <2>2, <2>3, <2>4 DEF RenameIsUnderWay
<1>4. ASSUME renaming' = NoRename
      PROVE  RenameIsUnderWay'
  BY <1>4 DEF RenameIsUnderWay
<1>5. CASE ServiceCall
  <2>1. \/ renaming' = NoRename
        \/ \E old, new \in Path : StartRenameDir(old, new)
    BY <1>5 DEF ServiceCall, Mkdir, WriteFile, Unlink, Rmdir, Rename, RenameFile, RenameNewDir,
                RenameFails, MayRename
  <2> QED
    BY <1>3, <1>4, <2>1
<1>6. ASSUME NEW t \in tasks, RunTask(t), renaming # NoRename
      PROVE  RenameIsUnderWay'
  <2>1. /\ t \in Task /\ TaskStep(t, tasks, tasks') /\ UNCHANGED log /\ renaming' = renaming
        /\ Base[t.path] # Absent /\ t.path \in Path
    BY <1>1, <1>6 DEF RunTask, Task
  <2>2. \A q : InReadable(q)' <=> InReadable(q)
    BY <2>1 DEF InReadable, IsDeleted
  <2>3. \A q \in Path : writable'[q] = writable[q] \/ writable'[q] = Base[q]
    BY <1>1, <2>1, TaskStepEffect
  <2>4. \A s \in tasks' : renaming.from \in Lineage[s.path]
    <3>1. renaming.from \in Lineage[t.path]
      BY <1>6 DEF FullInvariant, RenameIsUnderWay
    <3> QED
      BY <1>6, <2>1, <3>1, TaskStaysBeneath, LineageTransitive DEF FullInvariant, RenameIsUnderWay
  <2>5. ASSUME NEW q \in Path, renaming.from \in Lineage[q], InReadable(q), writable'[q] = Absent
        PROVE  \E s \in tasks' : s.path \in Lineage[q]
    <3>1. writable[q] = Absent
      BY <2>3, <2>5 DEF InReadable
    <3>2. PICK s \in tasks : s.path \in Lineage[q]
      BY <1>6, <2>5, <3>1 DEF FullInvariant, RenameIsUnderWay
    <3>3. CASE s = t
      BY <1>1, <2>1, <2>5, <3>2, <3>3, TaskHandsOn
    <3>4. CASE s # t
      <4>1. s \in tasks'
        BY <2>1, <3>4 DEF TaskStep, VisitDeleted, VisitMissing, VisitPresentDir, CopyDir, CopyFile
      <4> QED
        BY <3>2, <4>1
    <3> QED
      BY <3>3, <3>4
  <2> QED
    BY <1>1, <1>6, <2>1, <2>2, <2>3, <2>4, <2>5 DEF FullInvariant, RenameIsUnderWay
<1>7. ASSUME NEW t \in strays, RunStray(t) \/ DropStray(t), renaming # NoRename
      PROVE  RenameIsUnderWay'
  <2>1. t \in Task /\ UNCHANGED <<log, renaming, tasks>> /\ Base[t.path] # Absent
    BY <1>1, <1>7 DEF RunStray, DropStray
  <2>2. \A q : InReadable(q)' <=> InReadable(q)
    BY <2>1 DEF InReadable, IsDeleted
  <2>3. \A q \in Path : writable'[q] = writable[q] \/ writable'[q] = Base[q]
    BY <1>1, <1>7, <2>1, TaskStepEffect DEF RunStray, DropStray
  <2> QED
    BY <1>1, <1>7, <2>1, <2>2, <2>3 DEF FullInvariant, RenameIsUnderWay, InReadable
<1>8. CASE Background
  <2>1. CASE renaming = NoRename
    BY <1>4, <1>8, <2>1 DEF Background, FinishRenameDir, RunTask, FailRenameDir, RunStray, DropStray
  <2>2. CASE renaming # NoRename
    BY <1>4, <1>6, <1>7, <1>8, <2>2 DEF Background, FinishRenameDir, FailRenameDir
  <2> QED
    BY <2>1, <2>2
<1> QED
  BY <1>2, <1>5, <1>8 DEF ServiceNext

LEMMA FullInvariantHolds == ServiceSpec => []FullInvariant
<1>1. Init => FullInvariant
  BY ServiceInvariantHoldsInitially DEF FullInvariant, RenameIsUnderWay, Init
<1> QED
  BY <1>1, FullInvariantIsKept, PTL DEF ServiceSpec

-----------------------------------------------------------------------------
(* The operators of the plain file system are the overlay's. *)

LEMMA PlainOperators ==
  /\ \A t, p : Plain!Mkdirp(t, p) = Mkdirp(t, p)
  /\ \A t, p : Plain!NoFileAbove(t, p) <=> NoFileAbove(t, p)
  /\ \A t, p : Plain!Children(t, p) = Children(t, p)
  /\ \A t, p : Plain!Delete(t, p) = Delete(t, p)
  /\ \A t, p, c : Plain!Put(t, p, c) = Put(t, p, c)
  /\ \A t, old, new : Plain!Move(t, old, new) = Move(t, old, new)
  /\ \A p : Plain!Dirname(p) = Dirname(p)
  /\ \A p, q : Plain!Within(p, q) <=> Within(p, q)
  /\ Plain!Lineage = Lineage
<1>1. \A p, q : (Plain!Within(p, q) <=> Within(p, q)) /\ (Plain!Beneath(p, q) <=> Beneath(p, q))
  BY DEF Plain!Within, Within, Plain!Beneath, Beneath, Plain!IsPrefix, IsPrefix,
         Plain!IsStrictPrefix, IsStrictPrefix
<1>2. Plain!Lineage = Lineage /\ Plain!Above = Above
  BY <1>1 DEF Plain!Lineage, Lineage, Plain!Above, Above
<1>3. \A p : Plain!Dirname(p) = Dirname(p)
  BY DEF Plain!Dirname, Dirname, Plain!Root, Root, Plain!Front, Front
<1>4. \A t, p : Plain!Mkdirp(t, p) = Mkdirp(t, p)
  BY <1>2 DEF Plain!Mkdirp, Mkdirp, Plain!Exists, Exists, Plain!Root, Root
<1>5. \A t, p : Plain!NoFileAbove(t, p) <=> NoFileAbove(t, p)
  BY <1>2 DEF Plain!NoFileAbove, NoFileAbove
<1>6. \A t, p : Plain!Children(t, p) = Children(t, p)
  BY <1>3 DEF Plain!Children, Children
<1>7. \A t, p : Plain!Delete(t, p) = Delete(t, p)
  BY DEF Plain!Delete, Delete
<1>8. \A t, p, c : Plain!Put(t, p, c) = Put(t, p, c)
  BY DEF Plain!Put, Put
<1>9. \A t, old, new : Plain!Move(t, old, new) = Move(t, old, new)
  BY <1>2 DEF Plain!Move, Move, Plain!Rebase, Rebase
<1> QED
  BY <1>1, <1>2, <1>3, <1>4, <1>5, <1>6, <1>7, <1>8, <1>9

-----------------------------------------------------------------------------
(* What the primitives do to the view. *)

\* What the user would see if writable held w.
ViewOf(w) == [p \in Path |-> Stat(w, p)]

LEMMA ViewIsATree ==
  ASSUME FullInvariant
  PROVE  View \in Tree /\ IsTree(View)
<1>1. \A p \in Path : View[p] \in Node
  BY StatNode DEF View, FullInvariant, ServiceInvariant, Invariant, TypeOK
<1>2. View \in [Path -> Node]
  BY <1>1 DEF View
<1>3. ViewIsTree
  BY PartsOfServiceInvariant, ViewTree DEF FullInvariant
<1> QED
  BY <1>2, <1>3 DEF Tree, ViewIsTree

LEMMA ViewUnderSameLog ==
  ASSUME UNCHANGED log
  PROVE  View' = ViewOf(writable') /\ \A p : InReadable(p)' <=> InReadable(p)
  BY DEF View, ViewOf, Stat, InReadable, IsDeleted, log

LEMMA NoFileAtDirname ==
  ASSUME NEW t, NEW p \in Path, NoFileAbove(t, p), Dirname(p) # Root
  PROVE  /\ Dirname(p) \in Path
         /\ \A a \in Lineage[Dirname(p)] : t[a] \notin Content
         /\ NoFileAbove(t, Dirname(p))
<1>1. Dirname(p) \in Path /\ Dirname(p) \in Lineage[p] /\ p \notin Lineage[Dirname(p)]
  BY DirnameInLineage
<1>2. \A a \in Lineage[Dirname(p)] : a \in Above[p]
  BY <1>1, LineageTransitive, AboveIsLineage
<1>3. \A a \in Above[Dirname(p)] : a \in Above[p]
  BY <1>1, <1>2, AboveIsLineage
<1> QED
  BY <1>1, <1>2, <1>3 DEF NoFileAbove

\* mkdirp in writable is mkdirp in the view, where no file is in its way.
LEMMA ViewOfMkdirp ==
  ASSUME TypeOK, LogIsOfBase, NEW p \in Path \union {Root},
         p # Root => \A a \in Lineage[p] : View[a] \notin Content
  PROVE  ViewOf(Mkdirp(writable, p)) = Mkdirp(View, p)
<1>1. CASE p = Root
  BY <1>1 DEF Mkdirp, Exists, View, ViewOf
<1>2. CASE p # Root
  <2> DEFINE w == Mkdirp(writable, p)
  <2>1. /\ p \in Path
        /\ \A q \in Path : View[q] = Stat(writable, q)
    BY <1>2 DEF View
  <2>2. \A q \in Path : w[q] = IF writable[p] = Absent /\ q \in Lineage[p] /\ writable[q] = Absent
                                 THEN Dir ELSE writable[q]
    BY <1>2 DEF Mkdirp, Exists
  <2>3. \A q \in Path : Mkdirp(View, p)[q] =
          IF View[p] = Absent /\ q \in Lineage[p] /\ View[q] = Absent THEN Dir ELSE View[q]
    BY <1>2 DEF Mkdirp, Exists, View
  <2> HIDE DEF w
  <2>4. ASSUME NEW q \in Path
        PROVE  Stat(w, q) = Mkdirp(View, p)[q]
    <3>1. CASE writable[q] # Absent
      BY <2>1, <2>2, <2>3, <3>1 DEF Stat
    <3>2. CASE writable[q] = Absent /\ q \notin Lineage[p]
      BY <2>1, <2>2, <2>3, <3>2 DEF Stat
    <3>3. CASE writable[q] = Absent /\ q \in Lineage[p] /\ InReadable(q)
      <4>1. View[q] = Base[q] /\ Base[q] \in Node /\ Base[q] # Absent
        BY <2>1, <3>3, BaseAssumption DEF Stat, InReadable, Tree
      <4>2. Base[q] = Dir
        BY <1>2, <3>3, <4>1 DEF Node
      <4> QED
        BY <2>2, <2>3, <3>3, <4>1, <4>2, NodeAssumption DEF Stat
    <3>4. CASE writable[q] = Absent /\ q \in Lineage[p] /\ ~ InReadable(q)
      <4>1. View[q] = Absent
        BY <2>1, <3>4 DEF Stat
      <4>2. InReadable(p) => InReadable(q)
        BY <2>1, <3>4, ReadableAbove
      <4>3. View[p] = Absent <=> writable[p] = Absent
        BY <2>1, <3>4, <4>2 DEF Stat
      <4> QED
        BY <2>2, <2>3, <3>4, <4>1, <4>3, NodeAssumption DEF Stat
    <3> QED
      BY <3>1, <3>2, <3>3, <3>4
  <2>5. Mkdirp(View, p) = [q \in Path |-> Mkdirp(View, p)[q]]
    BY DEF Mkdirp, View
  <2> QED
    BY <2>4, <2>5 DEF ViewOf, w
<1> QED
  BY <1>1, <1>2

LEMMA ViewOfPut ==
  ASSUME NEW w \in Tree, NEW p \in Path, NEW content \in Content
  PROVE  ViewOf(Put(w, p, content)) = Put(ViewOf(w), p, content)
<1>1. \A q \in Path : Put(w, p, content)[q] = IF q = p THEN content ELSE w[q]
  BY DEF Put, Tree
<1> QED
  BY <1>1, NodeAssumption DEF ViewOf, Put, Stat

\* A move in writable is a move in the view, if all that is visible at the old
\* place is in writable, and the log hides what is left there.
LEMMA ViewOfMove ==
  ASSUME LogIsOfBase, NEW w \in Tree, NEW old \in Path, NEW new \in Path,
         writable' = Move(w, old, new),
         ~ InReadable(new),
         \A q \in Path : old \in Lineage[q] => Stat(w, q) = w[q] /\ ~ InReadable(q)',
         \A q \in Path : old \notin Lineage[q] => (InReadable(q)' <=> InReadable(q))
  PROVE  View' = Move(ViewOf(w), old, new)
<1>1. \A q \in Path : View'[q] =
        IF writable'[q] # Absent THEN writable'[q] ELSE IF InReadable(q)' THEN Base[q] ELSE Absent
  BY DEF View, Stat
<1>2. \A q \in Path : writable'[q] =
        IF new \in Lineage[q]
          THEN IF Rebase(q, new, old) \in Path THEN w[Rebase(q, new, old)] ELSE Absent
          ELSE IF old \in Lineage[q] THEN Absent ELSE w[q]
  BY DEF Move
<1>3. \A q \in Path : Move(ViewOf(w), old, new)[q] =
        IF new \in Lineage[q]
          THEN IF Rebase(q, new, old) \in Path THEN Stat(w, Rebase(q, new, old)) ELSE Absent
          ELSE IF old \in Lineage[q] THEN Absent ELSE Stat(w, q)
  BY DEF Move, ViewOf
<1>4. ASSUME NEW q \in Path
      PROVE  View'[q] = Move(ViewOf(w), old, new)[q]
  <2>1. CASE new \in Lineage[q]
    <3>1. ~ InReadable(q)'
      BY <2>1, ReadableAbove
    <3>2. Rebase(q, new, old) \in Path => old \in Lineage[Rebase(q, new, old)]
      BY <2>1, RebaseIsBeneath
    <3>3. Rebase(q, new, old) \in Path => Stat(w, Rebase(q, new, old)) = w[Rebase(q, new, old)]
      BY <3>2
    <3> QED
      BY <1>1, <1>2, <1>3, <2>1, <3>1, <3>3
  <2>2. CASE new \notin Lineage[q] /\ old \in Lineage[q]
    BY <1>1, <1>2, <1>3, <2>2
  <2>3. CASE new \notin Lineage[q] /\ old \notin Lineage[q]
    BY <1>1, <1>2, <1>3, <2>3 DEF Stat
  <2> QED
    BY <2>1, <2>2, <2>3
<1> QED
  BY <1>4 DEF View, Move

-----------------------------------------------------------------------------
(* Each step is a step of the plain file system, or none. *)

LEMMA FactsOfFullInvariant ==
  ASSUME FullInvariant
  PROVE  /\ Invariant /\ TypeOK /\ LogIsOfBase /\ KindsAgree /\ CopiesAreVisible
         /\ writable \in Tree /\ IsTree(writable)
         /\ View \in Tree /\ IsTree(View)
         /\ \A p \in Path : View[p] = Stat(writable, p) /\ Base[p] \in Node
         /\ View = ViewOf(writable)
  BY ViewIsATree, BaseAssumption
     DEF FullInvariant, ServiceInvariant, Invariant, TypeOK, WritableIsTree, View, ViewOf, Tree

\* The view after rename's mkdirp.
LEMMA PreparedView ==
  ASSUME FullInvariant, NEW new \in Path, NoFileAbove(View, new), View[new] = Absent
  PROVE  /\ Prepared(new) \in Tree
         /\ ViewOf(Prepared(new)) = Mkdirp(View, Dirname(new))
         /\ \A q \in Path : ViewOf(Prepared(new))[q] = Stat(Prepared(new), q)
         /\ IsTree(ViewOf(Prepared(new)))
         /\ \A q \in Path : new \in Lineage[q] => Stat(Prepared(new), q) = Absent
<1>1. /\ TypeOK /\ LogIsOfBase /\ writable \in Tree /\ View \in Tree /\ IsTree(View)
      /\ Dirname(new) \in Path \union {Root}
  BY FactsOfFullInvariant, DirnameIsPlace
<1>2. Prepared(new) \in Tree
  BY <1>1, MkdirpNodes DEF Prepared
<1>3. ViewOf(Prepared(new)) = Mkdirp(View, Dirname(new))
  BY <1>1, NoFileAtDirname, ViewOfMkdirp DEF Prepared
<1>4. \A q \in Path : ViewOf(Prepared(new))[q] = Stat(Prepared(new), q)
  BY DEF ViewOf
<1>5. CanMkdirp(View, Dirname(new))
  BY NoFileAtDirname DEF CanMkdirp, Exists
<1>6. IsTree(ViewOf(Prepared(new)))
  BY <1>1, <1>3, <1>5, MkdirpKeepsTree
<1>7. Mkdirp(View, Dirname(new))[new] = Absent
  BY DirnameInLineage DEF Mkdirp, Exists
<1>8. \A q \in Path : new \in Lineage[q] => Mkdirp(View, Dirname(new))[q] = Absent
  BY <1>3, <1>6, <1>7, TreeBeneath, NodeAssumption
<1> QED
  BY <1>2, <1>3, <1>4, <1>6, <1>8

\* What mkdirp leaves behind, whether or not the rename goes on.
LEMMA PreparingIsPlain ==
  ASSUME FullInvariant, NEW new \in Path, NoFileAbove(View, new), View[new] = Absent,
         writable' = Prepared(new), UNCHANGED log, UNCHANGED LatePaths
  PROVE  Plain!Next \/ UNCHANGED <<View, LatePaths>>
<1> DEFINE d == Dirname(new)
<1>1. View' = Mkdirp(View, d)
  BY PreparedView, ViewUnderSameLog
<1>2. CASE Exists(View, d)
  BY <1>1, <1>2 DEF Mkdirp
<1>3. CASE ~ Exists(View, d)
  <2>1. d # Root /\ View[d] = Absent
    BY <1>3 DEF Exists
  <2>2. d \in Path /\ NoFileAbove(View, d)
    BY <2>1, NoFileAtDirname
  <2>3. Plain!MakeFolder(d)
    BY <1>1, <2>1, <2>2, PlainOperators DEF Plain!MakeFolder
  <2> QED
    BY <2>2, <2>3 DEF Plain!Next
<1> QED
  BY <1>2, <1>3

LEMMA MkdirIsPlain ==
  ASSUME FullInvariant, NEW p \in Path, NoFileAbove(View, p), Mkdir(p)
  PROVE  Plain!MakeFolder(p)
<1>1. /\ TypeOK /\ LogIsOfBase /\ View[p] = Absent
      /\ writable' = Mkdirp(writable, p) /\ UNCHANGED log /\ UNCHANGED LatePaths
  BY FactsOfFullInvariant DEF Mkdir, log, copying, LatePaths
<1>2. \A a \in Lineage[p] : View[a] \notin Content
  BY <1>1, AboveIsLineage, NodeAssumption DEF NoFileAbove
<1>3. View' = Mkdirp(View, p)
  BY <1>1, <1>2, ViewOfMkdirp, ViewUnderSameLog
<1> QED
  BY <1>1, <1>3, PlainOperators DEF Plain!MakeFolder

LEMMA WriteFileIsPlain ==
  ASSUME FullInvariant, NEW p \in Path, NEW content \in Content,
         NoFileAbove(View, p), View[p] # Dir, WriteFile(p, content)
  PROVE  Plain!WriteFile(p, content)
<1> DEFINE prepared == Mkdirp(writable, Dirname(p))
<1>1. /\ TypeOK /\ LogIsOfBase /\ writable \in Tree
      /\ Dirname(p) \in Path \union {Root}
      /\ writable' = Put(prepared, p, content) /\ UNCHANGED log /\ UNCHANGED LatePaths
  BY FactsOfFullInvariant, DirnameIsPlace DEF WriteFile, log, copying, LatePaths
<1>2. prepared \in Tree /\ ViewOf(prepared) = Mkdirp(View, Dirname(p))
  BY <1>1, NoFileAtDirname, MkdirpNodes, ViewOfMkdirp
<1> HIDE DEF prepared
<1>3. View' = Put(Mkdirp(View, Dirname(p)), p, content)
  BY <1>1, <1>2, ViewOfPut, ViewUnderSameLog
<1> QED
  BY <1>1, <1>3, PlainOperators DEF Plain!WriteFile

LEMMA UnlinkIsPlain ==
  ASSUME FullInvariant, NEW p \in Path, View[p] \in Content, Unlink(p)
  PROVE  Plain!RemoveFile(p)
<1>1. /\ \A q \in Path : View[q] = Stat(writable, q)
      /\ \A q \in Path : View'[q] = Stat(writable, q)'
      /\ writable \in Tree /\ UNCHANGED LatePaths
  BY FactsOfFullInvariant DEF View, Unlink, copying, LatePaths
<1>2. writable' = Delete(writable, p)
  BY <1>1, NodeAssumption DEF Unlink, Stat
<1>3. \A q \in Path : writable'[q] = IF q = p THEN Absent ELSE writable[q]
  BY <1>1, <1>2 DEF Delete, Tree
<1>4. ~ InReadable(p)'
  BY DEF Unlink, InReadable, IsDeleted
<1>5. \A q \in Path : q # p => (InReadable(q)' <=> InReadable(q))
  BY DEF Unlink, InReadable, IsDeleted
<1>6. \A q \in Path : View'[q] = IF q = p THEN Absent ELSE View[q]
  BY <1>1, <1>3, <1>4, <1>5 DEF Stat
<1>7. View' = Delete(View, p)
  BY <1>6 DEF View, Delete
<1> QED
  BY <1>1, <1>7, PlainOperators DEF Plain!RemoveFile

LEMMA RmdirIsPlain ==
  ASSUME FullInvariant, NEW p \in Path, View[p] = Dir, Children(View, p) = {}, Rmdir(p)
  PROVE  Plain!RemoveFolder(p)
<1>1. /\ \A q \in Path : View[q] = Stat(writable, q)
      /\ \A q \in Path : View'[q] = Stat(writable, q)'
      /\ writable \in Tree /\ UNCHANGED LatePaths /\ IsTree(View)
      /\ writable' = Delete(writable, p)
  BY FactsOfFullInvariant DEF View, Rmdir, copying, LatePaths
<1>2. \A q \in Path : writable'[q] = IF q = p THEN Absent ELSE writable[q]
  BY <1>1 DEF Delete, Tree
<1>3. ~ InReadable(p)'
  BY LineageSelf DEF Rmdir, InReadable, IsDeleted
<1>4. \A q \in Path : p \notin Lineage[q] => (InReadable(q)' <=> InReadable(q))
  BY DEF Rmdir, InReadable, IsDeleted
<1>5. \A q \in Path : p \in Lineage[q] /\ p # q => View[q] = Absent
  BY <1>1, TreeBeneath
<1>6. ASSUME NEW q \in Path, p \in Lineage[q], p # q
      PROVE  View'[q] = Absent
  <2>1. writable[q] = Absent /\ ~ InReadable(q)
    BY <1>1, <1>5, <1>6 DEF Stat, InReadable
  <2>2. ~ InReadable(q)'
    BY <2>1 DEF Rmdir, InReadable, IsDeleted
  <2> QED
    BY <1>1, <1>2, <2>1, <2>2 DEF Stat
<1>7. \A q \in Path : View'[q] = IF q = p THEN Absent ELSE View[q]
  BY <1>1, <1>2, <1>3, <1>4, <1>5, <1>6 DEF Stat
<1>8. View' = Delete(View, p)
  BY <1>7 DEF View, Delete
<1> QED
  BY <1>1, <1>8, PlainOperators DEF Plain!RemoveFolder

LEMMA RenameFileIsPlain ==
  ASSUME FullInvariant, NEW old \in Path, NEW new \in Path, NoFileAbove(View, new),
         RenameFile(old, new)
  PROVE  Plain!Rename(old, new)
<1> DEFINE w == Prepared(new)
<1>1. /\ TypeOK /\ LogIsOfBase /\ writable \in Tree
      /\ View[old] # Absent /\ View[new] = Absent /\ old # new
      /\ View[old] = Stat(writable, old)
      /\ Stat(w, old) \in Content
      /\ UNCHANGED LatePaths
  BY FactsOfFullInvariant DEF RenameFile, MayRename, copying, LatePaths
<1>2. /\ w \in Tree /\ ViewOf(w) = Mkdirp(View, Dirname(new))
      /\ \A q \in Path : ViewOf(w)[q] = Stat(w, q)
      /\ IsTree(ViewOf(w))
      /\ \A q \in Path : new \in Lineage[q] => Stat(w, q) = Absent
  BY <1>1, PreparedView
<1>3. /\ writable[old] # Absent => w[old] = writable[old]
      /\ writable[old] = Absent => w[old] = Absent
  BY <1>1, <1>2, DirnameIsPlace, MkdirpNodes, NodeAssumption DEF Prepared, Stat
<1> HIDE DEF w
<1>4. View[old] = Stat(w, old)
  BY <1>1, <1>3 DEF Stat
<1>5. old \notin Lineage[new]
  BY <1>1, <1>4, AboveIsLineage DEF NoFileAbove
<1>6. \A q \in Path : old \in Lineage[q] /\ old # q =>
        Stat(w, q) = Absent /\ w[q] = Absent /\ ~ InReadable(q)
  <2>1. \A q \in Path : old \in Lineage[q] /\ old # q => Stat(w, q) = Absent
    BY <1>1, <1>2, TreeBeneath, NodeAssumption
  <2> QED
    BY <2>1 DEF Stat, InReadable
<1>7. ~ InReadable(old)'
  BY DEF RenameFile, InReadable, IsDeleted
<1>8. \A q \in Path : q # old => (InReadable(q)' <=> InReadable(q))
  BY DEF RenameFile, InReadable, IsDeleted
<1>9. ~ InReadable(new)
  BY <1>1, FactsOfFullInvariant DEF Stat, InReadable
<1>10. View' = Move(ViewOf(w), old, new)
  <2>1. CASE writable[old] # Absent
    <3>1. writable' = Move(w, old, new)
      BY <2>1 DEF RenameFile, w
    <3>2. \A q \in Path : old \in Lineage[q] => Stat(w, q) = w[q] /\ ~ InReadable(q)'
      BY <1>3, <1>6, <1>7, <1>8, <2>1 DEF Stat
    <3>3. \A q \in Path : old \notin Lineage[q] => (InReadable(q)' <=> InReadable(q))
      BY <1>8, LineageSelf
    <3> QED
      BY <1>1, <1>2, <1>9, <3>1, <3>2, <3>3, ViewOfMove
  <2>2. CASE writable[old] = Absent
    <3>1. writable' = Put(w, new, Base[old])
      BY <2>2 DEF RenameFile, w
    <3>2. \A q \in Path : writable'[q] = IF q = new THEN Base[old] ELSE w[q]
      BY <1>2, <3>1 DEF Put, Tree
    <3>3. Stat(w, old) = Base[old] /\ Base[old] # Absent /\ InReadable(old)
      BY <1>1, <1>3, <2>2, NodeAssumption DEF Stat, InReadable
    <3>4. \A q \in Path : View'[q] =
            IF writable'[q] # Absent THEN writable'[q]
            ELSE IF InReadable(q)' THEN Base[q] ELSE Absent
      BY DEF View, Stat
    <3>5. \A q \in Path : Move(ViewOf(w), old, new)[q] =
            IF new \in Lineage[q]
              THEN IF Rebase(q, new, old) \in Path THEN Stat(w, Rebase(q, new, old)) ELSE Absent
              ELSE IF old \in Lineage[q] THEN Absent ELSE Stat(w, q)
      BY DEF Move, ViewOf
    <3>6. ASSUME NEW q \in Path
          PROVE  View'[q] = Move(ViewOf(w), old, new)[q]
      <4>1. CASE q = new
        <5>1. Rebase(new, new, old) = old /\ new \in Lineage[new]
          BY RebaseOfFolder, LineageSelf
        <5> QED
          BY <3>2, <3>3, <3>4, <3>5, <4>1, <5>1
      <4>2. CASE q # new /\ new \in Lineage[q]
        <5>1. View'[q] = Absent
          BY <1>1, <1>2, <1>7, <1>8, <3>2, <3>4, <4>2 DEF Stat, InReadable
        <5>2. ASSUME Rebase(q, new, old) \in Path
              PROVE  Stat(w, Rebase(q, new, old)) = Absent
          <6>1. old \in Lineage[Rebase(q, new, old)] /\ Rebase(q, new, old) # old
            BY <4>2, <5>2, RebaseIsBeneath
          <6> QED
            BY <1>6, <5>2, <6>1
        <5> QED
          BY <3>5, <4>2, <5>1, <5>2
      <4>3. CASE new \notin Lineage[q] /\ old \in Lineage[q]
        <5>1. q # new
          BY <4>3, LineageSelf
        <5>2. w[q] = Absent /\ ~ InReadable(q)'
          BY <1>3, <1>6, <1>7, <1>8, <2>2, <4>3
        <5> QED
          BY <3>2, <3>4, <3>5, <4>3, <5>1, <5>2
      <4>4. CASE new \notin Lineage[q] /\ old \notin Lineage[q]
        <5>1. q # new /\ q # old
          BY <4>4, LineageSelf
        <5> QED
          BY <1>8, <3>2, <3>4, <3>5, <4>4, <5>1 DEF Stat
      <4> QED
        BY <4>1, <4>2, <4>3, <4>4
    <3> QED
      BY <3>6 DEF View, Move
  <2> QED
    BY <2>1, <2>2
<1> QED
  BY <1>1, <1>2, <1>5, <1>10, PlainOperators DEF Plain!Rename

LEMMA RenameNewDirIsPlain ==
  ASSUME FullInvariant, NEW old \in Path, NEW new \in Path, NoFileAbove(View, new),
         RenameNewDir(old, new)
  PROVE  Plain!Rename(old, new)
<1> DEFINE w == Prepared(new)
<1>1. /\ LogIsOfBase
      /\ View[old] # Absent /\ View[new] = Absent
      /\ ~ InReadable(old) /\ ~ InReadable(new)
      /\ old \notin Lineage[new]
      /\ writable' = Move(w, old, new)
      /\ UNCHANGED log /\ UNCHANGED LatePaths
  BY FactsOfFullInvariant
     DEF RenameNewDir, MayRename, CanMove, Stat, InReadable, log, copying, LatePaths
<1>2. w \in Tree /\ ViewOf(w) = Mkdirp(View, Dirname(new))
  BY <1>1, PreparedView
<1> HIDE DEF w
<1>3. \A q \in Path : old \in Lineage[q] => ~ InReadable(q)
  BY <1>1, ReadableAbove
<1>4. \A q \in Path : old \in Lineage[q] => Stat(w, q) = w[q] /\ ~ InReadable(q)'
  BY <1>1, <1>3, ViewUnderSameLog DEF Stat
<1>5. View' = Move(ViewOf(w), old, new)
  BY <1>1, <1>2, <1>4, ViewUnderSameLog, ViewOfMove
<1> QED
  BY <1>1, <1>2, <1>5, PlainOperators DEF Plain!Rename

LEMMA FinishRenameDirIsPlain ==
  ASSUME FullInvariant, FinishRenameDir
  PROVE  Plain!Next \/ UNCHANGED <<View, LatePaths>>
<1> DEFINE from == renaming.from
           to == renaming.to
<1>1. /\ TypeOK /\ LogIsOfBase /\ KindsAgree /\ writable \in Tree /\ IsTree(View) /\ View \in Tree
      /\ from \in Path /\ to \in Path
      /\ renaming # NoRename /\ tasks = {}
      /\ UNCHANGED LatePaths /\ UNCHANGED deletedFiles
      /\ \A q \in Path : View[q] = Stat(writable, q) /\ Base[q] \in Node
      /\ View = ViewOf(writable)
  BY FactsOfFullInvariant DEF FinishRenameDir, TypeOK, LatePaths
<1>2. /\ InReadable(from) /\ ~ InReadable(to) /\ Base[from] = Dir
      /\ writable[to] \in {Absent, Base[to]}
      /\ \A q \in Path : from \in Lineage[q] /\ InReadable(q) => writable[q] # Absent
  BY <1>1 DEF FullInvariant, RenameIsUnderWay, ServiceInvariant, RenameIsOfBase
<1>3. CASE ~ CanMove(writable, from, to)
  <2>1. UNCHANGED <<writable, deletedFiles, deletedDirs>>
    BY <1>3 DEF FinishRenameDir
  <2> QED
    BY <1>1, <2>1 DEF View, Stat, InReadable, IsDeleted
<1>4. CASE CanMove(writable, from, to)
  <2>1. /\ writable' = Move(writable, from, to)
        /\ deletedDirs' = deletedDirs \union {from}
        /\ from \notin Lineage[to]
        /\ IsDir(writable, Dirname(to)) /\ writable[to] # Dir
    BY <1>4 DEF FinishRenameDir, CanMove, CanPut
  <2>2. View[from] = Dir
    BY <1>1, <1>2, NodeAssumption DEF Stat, KindsAgree, KindsAgreeIn
  <2>3. View[to] = writable[to]
    BY <1>1, <1>2 DEF Stat
  <2>4. View[to] = Absent \/ View[to] \in {Base[to]} \intersect Content
    BY <1>1, <1>2, <2>1, <2>3 DEF Node
  <2>5. IsDir(View, Dirname(to))
    BY <1>1, <2>1, PathFacts, NodeAssumption DEF IsDir, Stat
  <2>6. NoFileAbove(View, to)
    <3>1. ASSUME NEW a \in Above[to]
          PROVE  View[a] = Dir
      <4>1. a \in Lineage[to] /\ a # to
        BY <1>1, <3>1, AboveIsLineage
      <4>2. Dirname(to) # Root /\ a \in Lineage[Dirname(to)] /\ Dirname(to) \in Path
        BY <1>1, <4>1, LineageOfDirname, PathFacts
      <4>3. View[Dirname(to)] = Dir
        BY <2>5, <4>2 DEF IsDir
      <4> QED
        BY <1>1, <4>2, <4>3, TreeAbove, NodeAssumption
    <3> QED
      BY <3>1, NodeAssumption DEF NoFileAbove
  <2>7. Mkdirp(View, Dirname(to)) = View
    BY <2>5, NodeAssumption DEF Mkdirp, Exists, IsDir
  <2>8. ASSUME NEW q \in Path, from \in Lineage[q]
        PROVE  Stat(writable, q) = writable[q] /\ ~ InReadable(q)'
    BY <1>2, <2>1, <2>8 DEF Stat, InReadable, IsDeleted
  <2>9. ASSUME NEW q \in Path, from \notin Lineage[q]
        PROVE  InReadable(q)' <=> InReadable(q)
    BY <1>1, <2>1, <2>9 DEF InReadable, IsDeleted
  <2> HIDE DEF from, to
  <2>10. View' = Move(ViewOf(writable), from, to)
    BY <1>1, <1>2, <2>1, <2>8, <2>9, ViewOfMove
  <2>11. Plain!Rename(from, to)
    BY <1>1, <2>1, <2>2, <2>4, <2>6, <2>7, <2>10, NodeAssumption, PlainOperators DEF Plain!Rename
  <2> QED
    BY <1>1, <2>11 DEF Plain!Next
<1> QED
  BY <1>3, <1>4

LEMMA FailRenameDirIsPlain ==
  ASSUME FullInvariant, NEW t \in tasks, FailRenameDir(t)
  PROVE  Plain!Next
<1> DEFINE from == renaming.from
<1>1. /\ TypeOK /\ KindsAgree /\ renaming # NoRename /\ from \in Path
      /\ \A q \in Path : View[q] = Stat(writable, q)
      /\ \A s \in tasks : s.path \in Path
  BY FactsOfFullInvariant DEF CopiesAreVisible, TypeOK, Task
<1>2. InReadable(from) /\ Base[from] = Dir /\ \A s \in tasks : from \in Lineage[s.path]
  BY <1>1 DEF FullInvariant, RenameIsUnderWay, ServiceInvariant, RenameIsOfBase
<1>3. View[from] = Dir
  BY <1>1, <1>2, NodeAssumption DEF Stat, KindsAgree, KindsAgreeIn
<1>4. UNCHANGED View
  BY ViewUnderSameLog DEF FailRenameDir, View, ViewOf, log
<1>5. \A p \in Path, s \in tasks : Within(s.path, p) => Within(from, p)
  <2>1. \A p \in Path, s \in tasks : Within(s.path, p) => s.path \in Lineage[p]
    BY <1>1 DEF Lineage
  <2>2. \A p \in Path : from \in Lineage[p] => Within(from, p)
    BY DEF Lineage
  <2> QED
    BY <1>1, <1>2, <2>1, <2>2, LineageTransitive
<1>6. LatePaths' \subseteq LatePaths \union {p \in Path : Within(from, p) /\ Base[p] # Absent}
  BY <1>5 DEF LatePaths, FailRenameDir
<1> HIDE DEF from
<1>7. Plain!AbandonRename(from)
  BY <1>3, <1>4, <1>6, PlainOperators DEF Plain!AbandonRename
<1> QED
  BY <1>1, <1>7 DEF Plain!Next

\* A stray task only ever puts entries back, or expires.
LEMMA StrayIsPlain ==
  ASSUME FullInvariant, NEW t \in strays, RunStray(t)
  PROVE  Plain!Next
<1> DEFINE p == t.path
           d == Dirname(p)
<1>1. /\ Invariant /\ TypeOK /\ LogIsOfBase /\ writable \in Tree /\ IsTree(writable)
      /\ t \in Task /\ p \in Path /\ Base[p] \in Node /\ Base[p] # Absent
      /\ TaskStep(t, strays, strays') /\ UNCHANGED log
      /\ \A q \in Path : View[q] = Stat(writable, q)
      /\ View' = ViewOf(writable')
      /\ d \in Path \union {Root}
  BY FactsOfFullInvariant, ViewUnderSameLog, DirnameIsPlace
     DEF TypeOK, Invariant, CopiesAreOfBase, Task, RunStray, log
<1>2. LatePaths' \subseteq LatePaths
  <2>1. \A s \in strays' : s \in strays \/ (s.path \in Path /\ p \in Lineage[s.path])
    BY <1>1, TaskStaysBeneath
  <2>2. ASSUME NEW s \in strays', NEW q \in Path, Within(s.path, q)
        PROVE  \E r \in strays : Within(r.path, q)
    <3>1. CASE s \in strays
      BY <2>2, <3>1
    <3>2. CASE s.path \in Path /\ p \in Lineage[s.path]
      <4>1. s.path \in Lineage[q]
        BY <2>2, <3>2 DEF Lineage
      <4>2. p \in Lineage[q]
        BY <3>2, <4>1, LineageTransitive
      <4> QED
        BY <4>2 DEF Lineage
    <3> QED
      BY <2>1, <3>1, <3>2
  <2> QED
    BY <2>2 DEF LatePaths
<1>3. p \in LatePaths
  <2>1. Within(p, p)
    BY <1>1, LineageSelf DEF Lineage
  <2> QED
    BY <1>1, <2>1 DEF LatePaths
<1>4. \A a \in Above[p] : a \in Path /\ a \in Lineage[p] /\ a # p /\ Base[a] = Dir
  BY <1>1, AboveIsLineage, BaseAbove DEF Above
<1>5. ASSUME \A a \in Above[p] : writable[a] \notin Content
      PROVE  NoFileAbove(View, p)
  BY <1>1, <1>4, <1>5, NodeAssumption DEF NoFileAbove, Stat
<1>6. ASSUME NoFileAbove(View, p), Base[p] = Dir, View' = Mkdirp(View, p)
      PROVE  Plain!Next
  <2>1. Plain!PutBack(p)
    BY <1>2, <1>6, PlainOperators DEF Plain!PutBack
  <2> QED
    BY <1>3, <2>1 DEF Plain!Next
<1>7. ASSUME NoFileAbove(View, p), Base[p] # Dir, View[p] # Dir,
             View' = Put(Mkdirp(View, d), p, Base[p])
      PROVE  Plain!Next
  <2>1. Plain!PutBack(p)
    BY <1>2, <1>7, PlainOperators DEF Plain!PutBack
  <2> QED
    BY <1>3, <2>1 DEF Plain!Next
<1> HIDE DEF p, d
<1>8. CASE CopyDir(t, strays, strays')
  <2>1. Base[p] = Dir /\ CanMkdirp(writable, p) /\ writable' = Mkdirp(writable, p)
    BY <1>8 DEF CopyDir, p
  <2>2. \A a \in Above[p] : writable[a] \notin Content
    <3>1. CASE Exists(writable, p)
      <4>1. writable[p] # Absent
        BY <1>1, <3>1, PathFacts DEF Exists
      <4> QED
        BY <1>1, <1>4, <4>1, TreeAbove, NodeAssumption
    <3>2. CASE ~ Exists(writable, p)
      BY <2>1, <3>2 DEF CanMkdirp, NoFileAbove
    <3> QED
      BY <3>1, <3>2
  <2>3. NoFileAbove(View, p)
    BY <1>5, <2>2
  <2>4. View[p] \in Content => writable[p] \in Content
    BY <1>1, <2>1, NodeAssumption DEF Stat
  <2>5. CASE writable[p] \in Content
    <3>1. writable' = writable /\ View[p] = writable[p]
      BY <1>1, <2>1, <2>5, PathFacts, NodeAssumption DEF Mkdirp, Exists, Stat
    <3>2. View' = View /\ Mkdirp(View, p) = View
      BY <1>1, <2>5, <3>1, FactsOfFullInvariant, NodeAssumption DEF Mkdirp, Exists
    <3> QED
      BY <1>6, <2>1, <2>3, <3>2
  <2>6. CASE writable[p] \notin Content
    <3>1. \A a \in Lineage[p] : View[a] \notin Content
      BY <1>1, <2>3, <2>4, <2>6, AboveIsLineage DEF NoFileAbove
    <3>2. View' = Mkdirp(View, p)
      BY <1>1, <2>1, <3>1, ViewOfMkdirp
    <3> QED
      BY <1>6, <2>1, <2>3, <3>2
  <2> QED
    BY <2>5, <2>6
<1>9. CASE CopyFile(t, strays, strays')
  <2> DEFINE prepared == Mkdirp(writable, d)
  <2>1. /\ Base[p] # Dir /\ CanMkdirp(writable, d)
        /\ IsDir(prepared, d) /\ prepared[p] # Dir
        /\ writable' = Put(prepared, p, Base[p])
    BY <1>9 DEF CopyFile, CanPut, p, d
  <2>2. prepared \in Tree /\ IsTree(prepared)
    BY <1>1, <2>1, MkdirpNodes, MkdirpKeepsTree
  <2>3. \A q \in Path : writable[q] # Absent => prepared[q] = writable[q]
    BY <1>1, MkdirpNodes
  <2> HIDE DEF prepared
  <2>4. ASSUME NEW a \in Above[p]
        PROVE  writable[a] \notin Content
    <3>1. d # Root /\ a \in Lineage[d] /\ d \in Path
      BY <1>1, <1>4, <2>4, LineageOfDirname, PathFacts DEF d
    <3>2. prepared[d] = Dir
      BY <2>1, <3>1 DEF IsDir
    <3>3. prepared[a] = Dir
      BY <2>2, <3>1, <3>2, TreeAbove, NodeAssumption
    <3> QED
      BY <1>4, <2>3, <2>4, <3>3, NodeAssumption
  <2>5. NoFileAbove(View, p)
    BY <1>5, <2>4
  <2>6. View[p] # Dir
    BY <1>1, <2>1, <2>3, NodeAssumption DEF Stat
  <2>7. ViewOf(prepared) = Mkdirp(View, d)
    BY <1>1, <2>5, NoFileAtDirname, ViewOfMkdirp DEF prepared, d
  <2>8. Base[p] \in Content
    BY <1>1, <2>1 DEF Node
  <2>9. View' = Put(Mkdirp(View, d), p, Base[p])
    BY <1>1, <2>1, <2>2, <2>7, <2>8, ViewOfPut
  <2> QED
    BY <1>7, <2>1, <2>5, <2>6, <2>9
<1>10. CASE UNCHANGED writable
  <2>1. UNCHANGED View
    BY <1>1, <1>10, FactsOfFullInvariant
  <2> QED
    BY <1>2, <2>1 DEF Plain!Next, Plain!Expire
<1> QED
  BY <1>1, <1>8, <1>9, <1>10 DEF TaskStep, VisitDeleted, VisitMissing, VisitPresentDir

LEMMA StepIsPlain ==
  ASSUME FullInvariant, [ServiceNext]_vars
  PROVE  Plain!Next \/ UNCHANGED <<View, LatePaths>>
<1>1. CASE UNCHANGED vars
  BY <1>1 DEF vars, View, Stat, InReadable, IsDeleted, LatePaths
<1>2. ASSUME NEW p \in Path, NoFileAbove(View, p), Mkdir(p)
      PROVE  Plain!Next
  BY <1>2, MkdirIsPlain DEF Plain!Next
<1>3. ASSUME NEW p \in Path, NEW content \in Content,
             NoFileAbove(View, p), View[p] # Dir, WriteFile(p, content)
      PROVE  Plain!Next
  BY <1>3, WriteFileIsPlain DEF Plain!Next
<1>4. ASSUME NEW p \in Path, View[p] \in Content, Unlink(p)
      PROVE  Plain!Next
  BY <1>4, UnlinkIsPlain DEF Plain!Next
<1>5. ASSUME NEW p \in Path, View[p] = Dir, Children(View, p) = {}, Rmdir(p)
      PROVE  Plain!Next
  BY <1>5, RmdirIsPlain DEF Plain!Next
<1>6. ASSUME NEW old \in Path, NEW new \in Path, NoFileAbove(View, new), Rename(old, new)
      PROVE  Plain!Next \/ UNCHANGED <<View, LatePaths>>
  <2>1. CASE RenameFile(old, new)
    BY <1>6, <2>1, RenameFileIsPlain DEF Plain!Next
  <2>2. CASE RenameNewDir(old, new)
    BY <1>6, <2>2, RenameNewDirIsPlain DEF Plain!Next
  <2>3. CASE RenameFails(old, new) \/ StartRenameDir(old, new)
    <3>1. /\ writable' = Prepared(new) /\ UNCHANGED log /\ UNCHANGED LatePaths
          /\ View[new] = Absent
      BY <2>3, FactsOfFullInvariant
         DEF RenameFails, StartRenameDir, MayRename, LatePaths, log, copying
    <3> QED
      BY <1>6, <3>1, PreparingIsPlain
  <2> QED
    BY <1>6, <2>1, <2>2, <2>3 DEF Rename
<1>7. CASE FinishRenameDir
  BY <1>7, FinishRenameDirIsPlain
<1>8. ASSUME NEW t \in tasks, RunTask(t)
      PROVE  UNCHANGED <<View, LatePaths>>
  <2>1. UNCHANGED LatePaths
    BY <1>8 DEF RunTask, LatePaths
  <2> QED
    BY <1>8, <2>1, TaskIsUnseen DEF FullInvariant
<1>9. ASSUME NEW t \in tasks, FailRenameDir(t)
      PROVE  Plain!Next
  BY <1>9, FailRenameDirIsPlain
<1>10. ASSUME NEW t \in strays, RunStray(t)
       PROVE  Plain!Next
  BY <1>10, StrayIsPlain
<1>11. ASSUME NEW t \in strays, DropStray(t)
       PROVE  Plain!Next
  BY <1>11 DEF DropStray, log, View, Stat, InReadable, IsDeleted, LatePaths, Plain!Next, Plain!Expire
<1> QED
  BY <1>1, <1>2, <1>3, <1>4, <1>5, <1>6, <1>7, <1>8, <1>9, <1>10, <1>11
     DEF ServiceNext, ServiceCall, Background

\* The log, the two trees and the copies in the background are, to the editor,
\* one ordinary file system: each call has the one effect its name says, or
\* none, and only what a failed folder rename left behind may come back late.
THEOREM OverlayImplementsPlainFS == ServiceSpec => ImplementsPlainFS
<1>1. Init => Plain!Init
  <2>1. ASSUME Init
        PROVE  View = Base /\ LatePaths = {}
    <3>1. \A p \in Path : View[p] = Base[p]
      BY <2>1 DEF Init, EmptyTree, View, Stat, InReadable, IsDeleted
    <3>2. Base = [p \in Path |-> Base[p]]
      BY BaseAssumption DEF Tree
    <3> QED
      BY <2>1, <3>1, <3>2 DEF View, Init, LatePaths
  <2> QED
    BY <2>1 DEF Plain!Init
<1>2. FullInvariant /\ [ServiceNext]_vars => [Plain!Next]_<<View, LatePaths>>
  BY StepIsPlain
<1> QED
  BY <1>1, <1>2, FullInvariantHolds, PTL DEF ServiceSpec, ImplementsPlainFS, Plain!Spec

=============================================================================
