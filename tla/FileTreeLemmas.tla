--------------------------- MODULE FileTreeLemmas ---------------------------
(***************************************************************************)
(* Facts about paths, and that the primitives of the file system keep      *)
(* every entry in a folder.                                                *)
(***************************************************************************)
EXTENDS FileTree, SequenceTheorems, WellFoundedInduction, TLAPS

\* A prefix, element by element.
LEMMA WithinElements ==
  ASSUME NEW d \in Seq(Name), NEW p \in Seq(Name)
  PROVE  Within(d, p) <=> Len(d) <= Len(p) /\ \A i \in 1..Len(d) : d[i] = p[i]
  BY DEF Within, IsPrefix

\* dirname drops the last name.
LEMMA DirnameElements ==
  ASSUME NEW p \in Seq(Name), p # Root
  PROVE  /\ Dirname(p) \in Seq(Name)
         /\ Len(p) \in Nat \ {0}
         /\ Len(Dirname(p)) = Len(p) - 1
         /\ \A i \in 1..Len(p) - 1 : Dirname(p)[i] = p[i]
  <1>1. Len(p) \in Nat /\ p \in [1..Len(p) -> Name]
    BY LenProperties
  <1>2. Len(p) # 0
    BY EmptySeq, SeqEqual, <1>1 DEF Root
  <1>3. \A i \in 1..Len(p) - 1 : p[i] \in Name
    BY <1>1
  <1>4. /\ SubSeq(p, 1, Len(p) - 1) \in Seq(Name)
        /\ Len(SubSeq(p, 1, Len(p) - 1)) = IF 1 <= Len(p) - 1 THEN Len(p) - 1 - 1 + 1 ELSE 0
        /\ \A i \in 1..(Len(p) - 1 - 1 + 1) : SubSeq(p, 1, Len(p) - 1)[i] = p[1 + i - 1]
    BY <1>1, <1>2, <1>3, SubSeqProperties
  <1> QED
    BY <1>1, <1>2, <1>4 DEF Dirname, Front

\* A path in play is a non-empty sequence, and its folder is in play too.
LEMMA PathFacts ==
  ASSUME NEW p \in Path
  PROVE  /\ p \in Seq(Name)
         /\ p # Root
         /\ Dirname(p) # Root => Dirname(p) \in Path
         /\ Len(Dirname(p)) = Len(p) - 1
         /\ Len(p) \in Nat \ {0}
  BY PathAssumption, DirnameElements

\* Only the root has no name.
LEMMA LenOfRoot ==
  ASSUME NEW p \in Seq(Name), Len(p) = 0
  PROVE  p = Root
  BY EmptySeq, SeqEqual DEF Root

\* Lineage, element by element.
LEMMA LineageElements ==
  ASSUME NEW p \in Path, NEW q \in Path
  PROVE  q \in Lineage[p] <=> Len(q) <= Len(p) /\ \A i \in 1..Len(q) : q[i] = p[i]
  BY PathFacts, WithinElements DEF Lineage

LEMMA LineageSelf ==
  ASSUME NEW p \in Path
  PROVE  p \in Lineage[p]
  BY PathFacts, LineageElements

LEMMA LineageTransitive ==
  ASSUME NEW p \in Path, NEW q \in Lineage[p], NEW r \in Lineage[q]
  PROVE  r \in Lineage[p]
  <1>1. q \in Path
    BY DEF Lineage
  <1>2. r \in Path
    BY <1>1 DEF Lineage
  <1>3. Len(p) \in Nat /\ Len(q) \in Nat /\ Len(r) \in Nat
    BY <1>1, <1>2, PathFacts
  <1> QED
    BY <1>1, <1>2, <1>3, LineageElements

\* The folder of an entry is above it.
LEMMA DirnameInLineage ==
  ASSUME NEW p \in Path, Dirname(p) # Root
  PROVE  Dirname(p) \in Path /\ Dirname(p) \in Lineage[p] /\ p \notin Lineage[Dirname(p)]
  <1>1. Dirname(p) \in Path
    BY PathFacts
  <1>2. \A i \in 1..Len(Dirname(p)) : Dirname(p)[i] = p[i]
    BY PathFacts, DirnameElements
  <1> QED
    BY <1>1, <1>2, PathFacts, LineageElements

\* Whatever is strictly above an entry is its folder or above its folder.
LEMMA LineageOfDirname ==
  ASSUME NEW p \in Path, NEW q \in Lineage[p], q # p
  PROVE  /\ Dirname(p) # Root
         /\ q \in Lineage[Dirname(p)]
  <1>1. q \in Path
    BY DEF Lineage
  <1>2. p \in Seq(Name) /\ q \in Seq(Name) /\ Len(p) \in Nat \ {0} /\ Len(q) \in Nat \ {0}
    BY <1>1, PathFacts
  <1>3. Len(q) <= Len(p) /\ \A i \in 1..Len(q) : q[i] = p[i]
    BY <1>1, LineageElements
  <1>4. Len(q) # Len(p)
    BY <1>2, <1>3, SeqEqual
  <1>5. Len(q) <= Len(p) - 1
    BY <1>2, <1>3, <1>4
  <1>6. Dirname(p) # Root
    BY <1>2, <1>5, PathFacts, EmptySeq DEF Root
  <1>7. Dirname(p) \in Path /\ Len(Dirname(p)) = Len(p) - 1
    BY <1>6, PathFacts
  <1>8. \A i \in 1..Len(q) : q[i] = Dirname(p)[i]
    BY <1>2, <1>3, <1>5, PathFacts, DirnameElements
  <1> QED
    BY <1>1, <1>5, <1>6, <1>7, <1>8, LineageElements

\* Above leaves out the path itself.
LEMMA AboveIsLineage ==
  ASSUME NEW p \in Path
  PROVE  Above[p] = Lineage[p] \ {p}
  BY PathFacts DEF Above, Lineage, Beneath, Within, IsStrictPrefix

\* A renamed path, element by element.
LEMMA RebaseElements ==
  ASSUME NEW q \in Path, NEW from \in Lineage[q], NEW to \in Path
  PROVE  /\ Rebase(q, from, to) \in Seq(Name)
         /\ Len(Rebase(q, from, to)) = Len(to) + (Len(q) - Len(from))
         /\ \A i \in 1..Len(to) : Rebase(q, from, to)[i] = to[i]
         /\ \A i \in 1..(Len(q) - Len(from)) :
              Rebase(q, from, to)[Len(to) + i] = q[Len(from) + i]
  <1> DEFINE tail == SubSeq(q, Len(from) + 1, Len(q))
  <1>1. from \in Path
    BY DEF Lineage
  <1>2. /\ q \in Seq(Name) /\ from \in Seq(Name) /\ to \in Seq(Name)
        /\ Len(q) \in Nat /\ Len(from) \in Nat /\ Len(to) \in Nat
        /\ Len(from) <= Len(q)
        /\ q \in [1..Len(q) -> Name]
    BY <1>1, PathFacts, LineageElements, LenProperties
  <1>3. \A i \in Len(from) + 1 .. Len(q) : q[i] \in Name
    BY <1>2
  <1>4. /\ tail \in Seq(Name)
        /\ Len(tail) = IF Len(from) + 1 <= Len(q) THEN Len(q) - (Len(from) + 1) + 1 ELSE 0
        /\ \A i \in 1 .. Len(q) - (Len(from) + 1) + 1 : tail[i] = q[(Len(from) + 1) + i - 1]
    BY <1>2, <1>3, SubSeqProperties
  <1>5. Len(tail) = Len(q) - Len(from)
    BY <1>2, <1>4
  <1>6. \A i \in 1 .. (Len(q) - Len(from)) : tail[i] = q[Len(from) + i]
    BY <1>2, <1>4
  <1>7. /\ to \o tail \in Seq(Name)
        /\ Len(to \o tail) = Len(to) + Len(tail)
        /\ \A i \in 1 .. Len(to) + Len(tail) :
             (to \o tail)[i] = IF i <= Len(to) THEN to[i] ELSE tail[i - Len(to)]
    BY <1>2, <1>4, ConcatProperties
  <1> HIDE DEF tail
  <1>8. \A i \in 1 .. Len(to) : (to \o tail)[i] = to[i]
    BY <1>2, <1>5, <1>7
  <1>9. ASSUME NEW i \in 1 .. (Len(q) - Len(from))
        PROVE  (to \o tail)[Len(to) + i] = q[Len(from) + i]
    <2>1. /\ Len(to) + i \in 1 .. Len(to) + Len(tail)
          /\ ~ (Len(to) + i <= Len(to))
          /\ (Len(to) + i) - Len(to) = i
      BY <1>2, <1>5
    <2> QED
      BY <2>1, <1>6, <1>7
  <1> QED
    BY <1>5, <1>7, <1>8, <1>9 DEF Rebase, tail

\* The renamed folder itself.
LEMMA RebaseOfFolder ==
  ASSUME NEW from \in Path, NEW to \in Path
  PROVE  Rebase(from, from, to) = to
  <1>1. from \in Lineage[from]
    BY LineageSelf
  <1>2. Len(from) - Len(from) = 0 /\ Len(to) + 0 = Len(to)
    BY PathFacts
  <1>3. /\ Rebase(from, from, to) \in Seq(Name)
        /\ Len(Rebase(from, from, to)) = Len(to)
        /\ \A i \in 1..Len(to) : Rebase(from, from, to)[i] = to[i]
    BY <1>1, <1>2, RebaseElements
  <1> QED
    BY <1>3, PathFacts, SeqEqual

\* dirname commutes with the renaming of a folder above.
LEMMA RebaseOfDirname ==
  ASSUME NEW q \in Path, NEW from \in Lineage[q], NEW to \in Path,
         q # from, Rebase(q, from, to) \in Path
  PROVE  /\ Dirname(q) \in Path
         /\ from \in Lineage[Dirname(q)]
         /\ Rebase(Dirname(q), from, to) \in Path
         /\ Dirname(Rebase(q, from, to)) = Rebase(Dirname(q), from, to)
  <1> DEFINE d == Dirname(q)
             r == Rebase(q, from, to)
             rd == Rebase(d, from, to)
  <1>1. from \in Path
    BY DEF Lineage
  <1>2. d # Root /\ d \in Path /\ from \in Lineage[d]
    BY LineageOfDirname, PathFacts
  <1>3. /\ Len(q) \in Nat \ {0} /\ Len(from) \in Nat \ {0} /\ Len(to) \in Nat \ {0}
        /\ Len(d) = Len(q) - 1
        /\ Len(from) <= Len(d)
        /\ \A i \in 1..Len(q) - 1 : d[i] = q[i]
    BY <1>1, <1>2, PathFacts, LineageElements, DirnameElements
  <1>4. /\ Len(r) = Len(to) + (Len(q) - Len(from))
        /\ \A i \in 1..Len(to) : r[i] = to[i]
        /\ \A i \in 1..(Len(q) - Len(from)) : r[Len(to) + i] = q[Len(from) + i]
    BY RebaseElements
  <1>5. /\ rd \in Seq(Name)
        /\ Len(rd) = Len(to) + (Len(d) - Len(from))
        /\ \A i \in 1..Len(to) : rd[i] = to[i]
        /\ \A i \in 1..(Len(d) - Len(from)) : rd[Len(to) + i] = d[Len(from) + i]
    BY <1>2, RebaseElements
  <1>6. /\ Dirname(r) \in Seq(Name)
        /\ Len(Dirname(r)) = Len(r) - 1
        /\ \A i \in 1..Len(r) - 1 : Dirname(r)[i] = r[i]
    BY PathFacts, DirnameElements
  <1>7. Len(Dirname(r)) = Len(rd)
    BY <1>3, <1>4, <1>5, <1>6
  <1> HIDE DEF d, r, rd
  <1>8. ASSUME NEW i \in 1..Len(rd)
        PROVE  Dirname(r)[i] = rd[i]
    <2>1. CASE i <= Len(to)
      BY <2>1, <1>3, <1>4, <1>5, <1>6, <1>7
    <2>2. CASE i > Len(to)
      <3> DEFINE k == i - Len(to)
      <3>1. /\ k \in 1..(Len(d) - Len(from))
            /\ k \in 1..(Len(q) - Len(from))
            /\ Len(to) + k = i
            /\ Len(from) + k \in 1..Len(q) - 1
            /\ i \in 1..Len(r) - 1
        BY <2>2, <1>3, <1>4, <1>5
      <3>2. rd[i] = d[Len(from) + k] /\ r[i] = q[Len(from) + k]
        BY <3>1, <1>4, <1>5
      <3>3. d[Len(from) + k] = q[Len(from) + k]
        BY <3>1, <1>3
      <3> QED
        BY <3>1, <3>2, <3>3, <1>6
    <2> QED
      BY <2>1, <2>2, <1>3, <1>5
  <1>9. Dirname(r) = rd
    BY <1>5, <1>6, <1>7, <1>8, SeqEqual
  <1>10. Len(rd) # 0
    BY <1>3, <1>5
  <1>11. rd # Root
    BY <1>10, EmptySeq DEF Root
  <1>12. rd \in Path
    BY <1>9, <1>11, PathFacts DEF r
  <1> QED
    BY <1>2, <1>9, <1>12 DEF d, r, rd

\* One of some paths is the shortest.
LEMMA ShortestPath ==
  ASSUME NEW S \in SUBSET Path, S # {}
  PROVE  \E p \in S : \A q \in S : Len(p) <= Len(q)
  <1> DEFINE Lengths == {Len(q) : q \in S}
             Less == OpToRel(<, Nat)
  <1>1. \A i, j \in Nat : <<i, j>> \in Less <=> i < j
    BY DEF OpToRel
  <1>2. IsWellFoundedOn(Less, Nat)
    BY NatLessThanWellFounded
  <1>3. Lengths # {} /\ Lengths \subseteq Nat
    BY PathFacts
  <1>4. \E n \in Lengths : \A m \in Lengths : n <= m
    <2> HIDE DEF Less, Lengths
    <2>1. PICK n \in Lengths : \A m \in Lengths : ~ (<<m, n>> \in Less)
      BY <1>2, <1>3, WFMin
    <2>2. ASSUME NEW m \in Lengths
          PROVE  n <= m
      <3>1. m \in Nat /\ n \in Nat
        BY <1>3
      <3>2. ~ (m < n)
        BY <1>1, <2>1, <3>1
      <3> QED
        BY <3>1, <3>2
    <2> QED
      BY <2>2
  <1> QED
    BY <1>4

\* On the way down from a folder to an entry comes a child of the folder.
LEMMA ChildOnTheWay ==
  ASSUME NEW q \in Path, NEW p \in Lineage[q], p # q
  PROVE  \E c \in Path : Dirname(c) = p /\ c \in Lineage[q]
  <1> DEFINE S == {r \in Path : r \in Lineage[q] /\ p \in Lineage[r] /\ r # p}
  <1>1. S \in SUBSET Path /\ q \in S
    BY LineageSelf
  <1> HIDE DEF S
  <1>2. PICK c \in S : \A r \in S : Len(c) <= Len(r)
    BY <1>1, ShortestPath
  <1>3. c \in Path /\ c \in Lineage[q] /\ p \in Lineage[c] /\ c # p
    BY <1>2 DEF S
  <1> DEFINE d == Dirname(c)
  <1>4. d # Root /\ p \in Lineage[d]
    BY <1>3, LineageOfDirname
  <1>5. d \in Path /\ d \in Lineage[q]
    BY <1>3, <1>4, DirnameInLineage, LineageTransitive
  <1>6. Len(d) = Len(c) - 1 /\ Len(c) \in Nat
    BY <1>3, PathFacts
  <1> HIDE DEF d
  <1>7. d \notin S
    BY <1>2, <1>6
  <1>8. d = p
    BY <1>4, <1>5, <1>7 DEF S
  <1> QED
    BY <1>3, <1>8 DEF d

\* Above an entry of a tree there are folders only.
LEMMA TreeAbove ==
  ASSUME NEW t, IsTree(t), NEW p \in Path, t[p] # Absent, NEW a \in Lineage[p], a # p
  PROVE  t[a] = Dir
  <1> DEFINE S == {q \in Path : t[q] # Absent /\ \E b \in Lineage[q] : b # q /\ t[b] # Dir}
  <1> SUFFICES ASSUME t[a] # Dir PROVE FALSE
    OBVIOUS
  <1>1. S \in SUBSET Path /\ p \in S
    OBVIOUS
  <1> HIDE DEF S
  <1>2. PICK q \in S : \A r \in S : Len(q) <= Len(r)
    BY <1>1, ShortestPath
  <1>3. PICK b \in Lineage[q] : q \in Path /\ t[q] # Absent /\ b # q /\ t[b] # Dir
    BY <1>2 DEF S
  <1> DEFINE d == Dirname(q)
  <1>4. d # Root /\ b \in Lineage[d]
    BY <1>3, LineageOfDirname
  <1>5. d \in Path /\ t[d] = Dir /\ Len(d) = Len(q) - 1 /\ Len(q) \in Nat
    BY <1>3, <1>4, PathFacts DEF IsTree, IsDir
  <1> HIDE DEF d
  <1>6. b # d
    BY <1>3, <1>5
  <1>7. d \in S
    BY <1>3, <1>4, <1>5, <1>6, NodeAssumption DEF S
  <1> QED
    BY <1>2, <1>5, <1>7

\* Beneath what is no folder there is nothing, and beneath an empty folder
\* neither.
LEMMA TreeBeneath ==
  ASSUME NEW t, IsTree(t), NEW d \in Path, t[d] # Dir \/ Children(t, d) = {},
         NEW p \in Path, d \in Lineage[p], d # p
  PROVE  t[p] = Absent
  <1> SUFFICES ASSUME t[p] # Absent PROVE FALSE
    OBVIOUS
  <1>1. t[d] = Dir
    BY TreeAbove
  <1>2. PICK c \in Path : Dirname(c) = d /\ c \in Lineage[p]
    BY ChildOnTheWay
  <1>3. t[c] # Absent
    BY <1>2, TreeAbove, NodeAssumption
  <1> QED
    BY <1>1, <1>2, <1>3 DEF Children

\* A renamed path is beneath the new folder, and is the new folder only if it
\* was the old one.
LEMMA RebaseIsBeneath ==
  ASSUME NEW q \in Path, NEW from \in Lineage[q], NEW to \in Path, Rebase(q, from, to) \in Path
  PROVE  /\ to \in Lineage[Rebase(q, from, to)]
         /\ q # from => Rebase(q, from, to) # to
         /\ q = from => Rebase(q, from, to) = to
  <1> DEFINE r == Rebase(q, from, to)
  <1>1. from \in Path
    BY DEF Lineage
  <1>2. /\ Len(q) \in Nat /\ Len(from) \in Nat /\ Len(to) \in Nat
        /\ q \in Seq(Name) /\ from \in Seq(Name)
        /\ Len(from) <= Len(q) /\ \A i \in 1..Len(from) : from[i] = q[i]
    BY <1>1, PathFacts, LineageElements
  <1>3. Len(r) = Len(to) + (Len(q) - Len(from)) /\ \A i \in 1..Len(to) : r[i] = to[i]
    BY RebaseElements
  <1>4. q # from => Len(q) # Len(from)
    BY <1>2, SeqEqual
  <1>5. q = from => r = to
    BY <1>1, RebaseOfFolder
  <1> HIDE DEF r
  <1>6. q # from => Len(r) # Len(to)
    BY <1>2, <1>3, <1>4
  <1>7. r \in Path => to \in Lineage[r]
    <2>1. Len(to) <= Len(r)
      BY <1>2, <1>3
    <2> QED
      BY <1>3, <2>1, LineageElements
  <1> QED
    BY <1>5, <1>6, <1>7 DEF r

-----------------------------------------------------------------------------
(* What the primitives preserve. *)

\* The value of Mkdirp at a path: it only turns nothing into a folder.
LEMMA MkdirpNodes ==
  ASSUME NEW t \in Tree, NEW p \in Path \union {Root}
  PROVE  /\ Mkdirp(t, p) \in Tree
         /\ \A q \in Path : t[q] # Absent => Mkdirp(t, p)[q] = t[q]
         /\ \A q \in Path : t[q] = Absent => Mkdirp(t, p)[q] \in {Absent, Dir}
  BY DEF Mkdirp, Tree, Node

\* Making a folder with the folders above it leaves no entry without one.
LEMMA MkdirpKeepsTree ==
  ASSUME NEW t \in Tree, IsTree(t), NEW p \in Path \union {Root}, CanMkdirp(t, p)
  PROVE  IsTree(Mkdirp(t, p))
  <1> DEFINE m == Mkdirp(t, p)
  <1>1. CASE Exists(t, p)
    BY <1>1 DEF Mkdirp
  <1>2. CASE ~ Exists(t, p)
    <2>1. p \in Path /\ t[p] = Absent /\ NoFileAbove(t, p)
      BY <1>2 DEF Exists, CanMkdirp
    <2>2. \A q \in Path : m[q] = IF q \in Lineage[p] /\ t[q] = Absent THEN Dir ELSE t[q]
      BY <1>2 DEF Mkdirp
    <2> HIDE DEF m
    <2>3. ASSUME NEW q \in Path, m[q] # Absent, Dirname(q) # Root
          PROVE  m[Dirname(q)] = Dir
      <3>1. Dirname(q) \in Path /\ Dirname(q) \in Lineage[q]
        BY <2>3, DirnameInLineage
      <3>2. CASE t[q] # Absent
        <4>1. t[Dirname(q)] = Dir
          BY <2>3, <3>2 DEF IsTree, IsDir
        <4> QED
          BY <4>1, <3>1, <2>2, NodeAssumption
      <3>3. CASE t[q] = Absent
        <4>1. q \in Lineage[p]
          BY <3>3, <2>2, <2>3
        <4>2. Dirname(q) \in Lineage[p]
          BY <4>1, <3>1, <2>1, LineageTransitive
        <4>3. t[Dirname(q)] \notin Content
          BY <4>2, <2>1, AboveIsLineage, NodeAssumption DEF NoFileAbove
        <4>4. t[Dirname(q)] \in {Absent, Dir}
          BY <4>3, <3>1 DEF Tree, Node
        <4> QED
          BY <4>2, <4>4, <3>1, <2>2
      <3> QED
        BY <3>2, <3>3
    <2> QED
      BY <2>3 DEF IsTree, IsDir, m
  <1> QED
    BY <1>1, <1>2

\* A file put into an existing folder has a folder.
LEMMA PutKeepsTree ==
  ASSUME NEW t \in Tree, IsTree(t), NEW p \in Path, NEW content \in Content, CanPut(t, p)
  PROVE  Put(t, p, content) \in Tree /\ IsTree(Put(t, p, content))
  <1> DEFINE m == Put(t, p, content)
  <1>1. m \in Tree /\ m[p] = content /\ \A q \in Path \ {p} : m[q] = t[q]
    BY DEF Put, Tree, Node
  <1> HIDE DEF m
  <1>2. ASSUME NEW q \in Path, m[q] # Absent, Dirname(q) # Root
        PROVE  m[Dirname(q)] = Dir
    <2>1. Dirname(q) \in Path /\ Dirname(q) # q
      BY <1>2, DirnameInLineage, LineageSelf
    <2>2. t[Dirname(q)] = Dir
      BY <1>1, <1>2 DEF IsTree, IsDir, CanPut
    <2> QED
      BY <2>1, <2>2, <1>1 DEF CanPut
  <1> QED
    BY <1>1, <1>2 DEF IsTree, IsDir, m

\* Only a folder with entries may not be deleted.
LEMMA DeleteKeepsTree ==
  ASSUME NEW t \in Tree, IsTree(t), NEW p \in Path, t[p] = Dir => Children(t, p) = {}
  PROVE  Delete(t, p) \in Tree /\ IsTree(Delete(t, p))
  <1> DEFINE m == Delete(t, p)
  <1>1. m \in Tree /\ m[p] = Absent /\ \A q \in Path \ {p} : m[q] = t[q]
    BY DEF Delete, Tree, Node
  <1> HIDE DEF m
  <1>2. ASSUME NEW q \in Path, m[q] # Absent, Dirname(q) # Root
        PROVE  m[Dirname(q)] = Dir
    <2>1. q # p /\ t[q] # Absent
      BY <1>1, <1>2
    <2>2. Dirname(q) \in Path /\ t[Dirname(q)] = Dir
      BY <2>1, <1>2, PathFacts DEF IsTree, IsDir
    <2>3. Dirname(q) # p
      BY <2>1, <2>2 DEF Children
    <2> QED
      BY <2>2, <2>3, <1>1
  <1> QED
    BY <1>1, <1>2 DEF IsTree, IsDir, m

\* A moved entry keeps its folder, which moves along, and what is left behind
\* has lost nothing above it.
LEMMA MoveKeepsTree ==
  ASSUME NEW t \in Tree, IsTree(t), NEW old \in Path, NEW new \in Path, CanMove(t, old, new)
  PROVE  Move(t, old, new) \in Tree /\ IsTree(Move(t, old, new))
  <1> DEFINE m == Move(t, old, new)
  <1>1. m \in Tree
    BY DEF Move, Tree, Node
  <1>2. \A q \in Path :
          m[q] = IF new \in Lineage[q]
                   THEN IF Rebase(q, new, old) \in Path THEN t[Rebase(q, new, old)] ELSE Absent
                   ELSE IF old \in Lineage[q] THEN Absent ELSE t[q]
    BY DEF Move
  <1> HIDE DEF m
  <1>3. ASSUME NEW q \in Path, m[q] # Absent, Dirname(q) # Root
        PROVE  m[Dirname(q)] = Dir
    <2>1. Dirname(q) \in Path /\ Dirname(q) \in Lineage[q] /\ q \notin Lineage[Dirname(q)]
      BY <1>3, DirnameInLineage
    <2>2. CASE q = new
      <3>1. t[Dirname(q)] = Dir
        BY <2>2, <1>3 DEF CanMove, CanPut, IsDir
      <3>2. old \notin Lineage[Dirname(q)]
        BY <2>1, <2>2, LineageTransitive DEF CanMove
      <3> QED
        BY <3>1, <3>2, <2>1, <2>2, <1>2
    <2>3. CASE q # new /\ new \in Lineage[q]
      <3>1. Rebase(q, new, old) \in Path /\ t[Rebase(q, new, old)] # Absent
        BY <2>3, <1>2, <1>3
      <3>2. /\ new \in Lineage[Dirname(q)]
            /\ Rebase(Dirname(q), new, old) \in Path
            /\ Dirname(Rebase(q, new, old)) = Rebase(Dirname(q), new, old)
        BY <2>3, <3>1, RebaseOfDirname
      <3>3. Rebase(Dirname(q), new, old) # Root
        BY <3>2, PathFacts
      <3>4. t[Rebase(Dirname(q), new, old)] = Dir
        BY <3>1, <3>2, <3>3 DEF IsTree, IsDir
      <3> QED
        BY <3>2, <3>4, <2>1, <1>2
    <2>4. CASE new \notin Lineage[q]
      <3>1. old \notin Lineage[q] /\ t[q] # Absent
        BY <2>4, <1>2, <1>3
      <3>2. new \notin Lineage[Dirname(q)] /\ old \notin Lineage[Dirname(q)]
        BY <3>1, <2>1, <2>4, LineageTransitive
      <3>3. t[Dirname(q)] = Dir
        BY <3>1, <1>3 DEF IsTree, IsDir
      <3> QED
        BY <3>2, <3>3, <2>1, <1>2
    <2> QED
      BY <2>2, <2>3, <2>4
  <1> QED
    BY <1>1, <1>3 DEF IsTree, IsDir, m
=============================================================================
