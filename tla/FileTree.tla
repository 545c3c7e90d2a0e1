------------------------------ MODULE FileTree ------------------------------
(***************************************************************************)
(* A file system's contents as a function from paths to nodes, and what    *)
(* the primitives of an in-memory file system do to it.  The browserfs     *)
(* package that supplies the primitives is not part of the repository;     *)
(* they are modelled from how OverlayFSImpl, mkdirp and their tests use    *)
(* them.  A primitive is all-or-nothing.                                   *)
(***************************************************************************)
EXTENDS Paths

CONSTANTS
  Name,      \* names of files and folders
  Path,      \* the paths in play: a finite tree below the root
  Content,   \* what a file can hold
  Absent,    \* nothing at a path
  Dir        \* a folder at a path

ASSUME PathAssumption ==
  /\ Path \subseteq Seq(Name) \ {Root}
  /\ \A p \in Path : Dirname(p) # Root => Dirname(p) \in Path

ASSUME NodeAssumption ==
  /\ Absent # Dir
  /\ Absent \notin Content
  /\ Dir \notin Content

\* The folders above p, and p with them.
Above == [p \in Path |-> {a \in Path : Beneath(a, p)}]

Lineage == [p \in Path |-> {a \in Path : Within(a, p)}]

Node == Content \union {Absent, Dir}

Tree == [Path -> Node]

EmptyTree == [p \in Path |-> Absent]

\* The root is a folder that always exists.
Exists(t, p) == p # Root => t[p] # Absent

IsDir(t, p) == p # Root => t[p] = Dir

Children(t, d) == {p \in Path : Dirname(p) = d /\ t[p] # Absent}

NoFileAbove(t, p) == \A a \in Above[p] : t[a] \notin Content

\* Every entry is in a folder.
IsTree(t) == \A p \in Path : t[p] # Absent => IsDir(t, Dirname(p))

-----------------------------------------------------------------------------
\* mkdirp gives up, having made nothing, when it meets a file on its way.
CanMkdirp(t, p) == ~ Exists(t, p) => NoFileAbove(t, p)

Mkdirp(t, p) ==
  IF Exists(t, p) THEN t ELSE
  [q \in Path |-> IF q \in Lineage[p] /\ t[q] = Absent THEN Dir ELSE t[q]]

\* Creating or overwriting a file: its folder has to be there, and no folder
\* may be in its place.
CanPut(t, p) == IsDir(t, Dirname(p)) /\ t[p] # Dir

Put(t, p, content) == [t EXCEPT ![p] = content]

Delete(t, p) == [t EXCEPT ![p] = Absent]

\* rename of the primitive file system: not into itself, not over a folder.
CanMove(t, old, new) ==
  /\ t[old] # Absent
  /\ old \notin Lineage[new]
  /\ CanPut(t, new)

Move(t, old, new) ==
  [q \in Path |->
     IF new \in Lineage[q]
       THEN IF Rebase(q, new, old) \in Path THEN t[Rebase(q, new, old)] ELSE Absent
       ELSE IF old \in Lineage[q] THEN Absent ELSE t[q]]
=============================================================================
