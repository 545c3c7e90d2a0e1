---------------------------- MODULE CommitProofs ----------------------------
(***************************************************************************)
(* Proofs about the commit commands, for any files, contents and branches, *)
(* any trees that the repository begins with, and any number of commits of *)
(* the user's and of others.                                               *)
(***************************************************************************)
EXTENDS Commit, FiniteSetTheorems, WellFoundedInduction, TLAPS

\* Commits are numbered after their parents, and count their ancestors.
IsRepository(all) ==
  /\ all \in Seq(Commit)
  /\ \A s \in DOMAIN all :
       /\ all[s].parent \in 0 .. s - 1
       /\ all[s].count = CountAt(all, all[s].parent) + 1

Shas(all) == 0 .. Len(all)

\* The types; a command that posts has a branch, and one that is accepted has left
\* its commit there.
CommitTypeOK ==
  /\ IsRepository(commits)
  /\ branches \in [Branch -> Shas(commits)]
  /\ pushable \subseteq Branch
  /\ ref \in Ref /\ ref.sha \in Shas(commits)
  /\ local \in Tree
  /\ preference \in BOOLEAN
  /\ command # Idle =>
       /\ command \in Running
       /\ {command.counted, command.before, command.commit} \subseteq Shas(commits)
       /\ command.stage \in {"posting", "accepted"} => command.selection \in Selection
       /\ command.stage = "accepted" =>
            command.commit # 0 /\ branches[command.selection.branchName] # 0

\* A commit is checked out, unless the repository has none.
RefHasCommit == ~ At("accepted") /\ ref.sha = 0 => commits = <<>>

\* A difference is that of the numbers of commits, or of a count that failed; and
\* the user has been told of it, unless it is nothing.
DifferenceIsCounted(c) ==
  \/ c.difference = CountAt(commits, c.counted) - CountAt(commits, ref.sha)
  \/ c.counted = 0 /\ c.difference = 1

IsTold(c) ==
  CASE c.mode = "commit" -> c.stage \notin {"counting", "confirming"} /\ ~ c.confirmed
    [] c.mode # "commit" /\ c.stage = "counting" -> c.counted = 0
    [] c.mode # "commit" /\ c.stage = "confirming" -> DifferenceIsCounted(c)
    [] OTHER -> DifferenceIsCounted(c) /\ c.confirmed = IsAnnounced(c)

CommandIsTold == command # Idle => IsTold(command)

CommitInvariant ==
  /\ CommitTypeOK /\ RefHasCommit /\ CommandIsTold
  /\ CommitIsWhatWasSeen /\ OthersChangesSurvive
  /\ OverwriteIsCounted /\ AmendIsRefusedOnlyIf

-----------------------------------------------------------------------------
(* The history of a commit. *)

\* One of some numbers is the least.
LEMMA LeastNumber ==
  ASSUME NEW S \in SUBSET Nat, S # {}
  PROVE  \E n \in S : \A m \in S : n <= m
<1> DEFINE Less == OpToRel(<, Nat)
<1>1. \A i, j \in Nat : <<i, j>> \in Less <=> i < j
  BY DEF OpToRel
<1>2. IsWellFoundedOn(Less, Nat)
  BY NatLessThanWellFounded
<1> HIDE DEF Less
<1>3. PICK n \in S : \A m \in S : ~ (<<m, n>> \in Less)
  BY <1>2, WFMin
<1>4. ASSUME NEW m \in S
      PROVE  n <= m
  <2>1. m \in Nat /\ n \in Nat
    OBVIOUS
  <2>2. ~ (m < n)
    BY <1>1, <1>3, <2>1
  <2> QED
    BY <2>1, <2>2
<1> QED
  BY <1>4

\* h maps the commits up to n to their histories.
IsHistory(all, h, n) ==
  h = [s \in 0 .. n |-> IF s = 0 THEN {} ELSE {s} \union h[all[s].parent]]

LEMMA HistoryExists ==
  ASSUME NEW all, IsRepository(all)
  PROVE  \E h : IsHistory(all, h, Len(all))
<1> DEFINE S == {n \in Shas(all) : ~ \E h : IsHistory(all, h, n)}
<1>1. Len(all) \in Nat /\ S \subseteq Nat /\ DOMAIN all = 1 .. Len(all)
  BY DEF Shas, IsRepository
<1>2. SUFFICES ASSUME S # {} PROVE FALSE
  BY <1>1 DEF Shas
<1> HIDE DEF S
<1>3. PICK n \in S : \A m \in S : n <= m
  BY <1>1, <1>2, LeastNumber
<1>4. n \in Shas(all) /\ n \in Nat /\ ~ \E h : IsHistory(all, h, n)
  BY <1>1, <1>3 DEF S
<1>5. n # 0
  <2> DEFINE h == [s \in 0 .. 0 |-> {}]
  <2>1. IsHistory(all, h, 0)
    BY DEF IsHistory
  <2> QED
    BY <1>4, <2>1
<1>6. n - 1 \in Shas(all) /\ n - 1 \in Nat /\ n - 1 \notin S
  BY <1>1, <1>3, <1>4, <1>5 DEF Shas
<1>7. PICK h : IsHistory(all, h, n - 1)
  BY <1>6 DEF S
<1>8. n \in DOMAIN all /\ all[n].parent \in 0 .. n - 1
  BY <1>1, <1>4, <1>5 DEF Shas, IsRepository
<1> DEFINE g == [s \in 0 .. n |-> IF s = n THEN {n} \union h[all[n].parent] ELSE h[s]]
<1>9. ASSUME NEW s \in 0 .. n
      PROVE  g[s] = IF s = 0 THEN {} ELSE {s} \union g[all[s].parent]
  <2>1. CASE s = n
    BY <1>4, <1>5, <1>8, <2>1
  <2>2. CASE s # n
    <3>1. s \in 0 .. n - 1 /\ g[s] = h[s]
      BY <1>4, <2>2
    <3>2. h[s] = IF s = 0 THEN {} ELSE {s} \union h[all[s].parent]
      BY <1>7, <3>1 DEF IsHistory
    <3>3. ASSUME s # 0
          PROVE  g[all[s].parent] = h[all[s].parent]
      <4>1. s \in DOMAIN all /\ all[s].parent \in 0 .. s - 1
        BY <1>1, <1>4, <3>1, <3>3 DEF Shas, IsRepository
      <4> QED
        BY <1>4, <3>1, <4>1
    <3> QED
      BY <3>1, <3>2, <3>3
  <2> QED
    BY <2>1, <2>2
<1>10. IsHistory(all, g, n)
  BY <1>9 DEF IsHistory
<1> QED
  BY <1>4, <1>10

LEMMA HistoryOf ==
  ASSUME NEW all, IsRepository(all), NEW sha \in Shas(all)
  PROVE  History(all, sha) =
           IF sha = 0 THEN {} ELSE {sha} \union History(all, all[sha].parent)
<1> DEFINE h == CHOOSE h : h = [s \in 0 .. Len(all) |->
                                  IF s = 0 THEN {} ELSE {s} \union h[all[s].parent]]
<1>1. \A s : History(all, s) = h[s]
  BY Zenon DEF History
<1>2. \E k : k = [s \in 0 .. Len(all) |-> IF s = 0 THEN {} ELSE {s} \union k[all[s].parent]]
  BY HistoryExists DEF IsHistory
<1>3. h = [s \in 0 .. Len(all) |-> IF s = 0 THEN {} ELSE {s} \union h[all[s].parent]]
  BY <1>2, Zenon
<1> HIDE DEF h
<1> QED
  BY <1>1, <1>3 DEF Shas

LEMMA CommitsAreTyped ==
  ASSUME NEW all, IsRepository(all)
  PROVE  /\ Len(all) \in Nat /\ DOMAIN all = 1 .. Len(all)
         /\ \A s \in DOMAIN all : all[s] \in Commit /\ all[s].parent \in Shas(all)
         /\ \A s \in Shas(all) :
              /\ s # 0 => s \in DOMAIN all
              /\ TreeAt(all, s) \in Tree /\ CountAt(all, s) \in Nat /\ ParentOf(all, s) \in Shas(all)
<1>1. all \in Seq(Commit) /\ Len(all) \in Nat /\ DOMAIN all = 1 .. Len(all)
  BY DEF IsRepository
<1>2. \A s \in DOMAIN all : all[s] \in Commit
  BY <1>1
<1>3. \A s \in DOMAIN all : all[s].parent \in Shas(all)
  BY <1>1 DEF IsRepository, Shas
<1>4. EmptyTree \in Tree
  BY DEF EmptyTree, Tree
<1>5. ASSUME NEW s \in Shas(all)
      PROVE  /\ s # 0 => s \in DOMAIN all
             /\ TreeAt(all, s) \in Tree /\ CountAt(all, s) \in Nat /\ ParentOf(all, s) \in Shas(all)
  <2>1. s # 0 => s \in DOMAIN all
    BY <1>1, <1>5 DEF Shas
  <2>2. TreeAt(all, s) \in Tree /\ CountAt(all, s) \in Nat
    BY <1>2, <1>4, <2>1 DEF TreeAt, CountAt, Commit
  <2>3. ParentOf(all, s) \in Shas(all)
    BY <1>1, <1>3, <2>1 DEF ParentOf, Shas
  <2> QED
    BY <2>1, <2>2, <2>3
<1> QED
  BY <1>1, <1>2, <1>3, <1>5

\* An ancestor has a lower count than its descendant.
LEMMA AncestorCount ==
  ASSUME NEW all, IsRepository(all), NEW sha \in Shas(all), NEW s \in History(all, sha)
  PROVE  s \in DOMAIN all /\ (s = sha \/ CountAt(all, s) < CountAt(all, sha))
<1> DEFINE Holds(h, a) == a \in DOMAIN all /\ (a = h \/ CountAt(all, a) < CountAt(all, h))
           S == {h \in Shas(all) : \E a \in History(all, h) : ~ Holds(h, a)}
<1> SUFFICES ASSUME S # {} PROVE FALSE
  OBVIOUS
<1> HIDE DEF Holds
<1>1. S \subseteq Nat
  BY CommitsAreTyped DEF Shas
<1>2. PICK h \in S : \A i \in S : h <= i
  <2> HIDE DEF S
  <2> QED
    BY <1>1, LeastNumber
<1>3. h \in Shas(all)
  OBVIOUS
<1>4. PICK a \in History(all, h) : ~ Holds(h, a)
  OBVIOUS
<1>5. h # 0
  BY <1>3, <1>4, HistoryOf
<1>6. h \in DOMAIN all /\ all[h].parent \in Shas(all) /\ all[h].parent < h
  BY <1>3, <1>5, CommitsAreTyped DEF IsRepository, Shas
<1> DEFINE p == all[h].parent
<1>7. a # h
  BY <1>4, <1>6 DEF Holds
<1>8. a \in History(all, p)
  BY <1>3, <1>4, <1>5, <1>7, HistoryOf
<1>9. p \notin S
  BY <1>1, <1>2, <1>3, <1>6
<1>10. Holds(p, a)
  BY <1>6, <1>8, <1>9
<1>11. CountAt(all, h) = CountAt(all, p) + 1
  BY <1>5, <1>6 DEF CountAt, IsRepository
<1>12. CountAt(all, p) \in Nat
  BY <1>6, CommitsAreTyped
<1>13. a \in Shas(all) /\ CountAt(all, a) \in Nat
  <2>1. a \in DOMAIN all
    BY <1>10 DEF Holds
  <2>2. DOMAIN all = 1 .. Len(all) /\ Len(all) \in Nat
    BY CommitsAreTyped
  <2>3. a \in Shas(all)
    BY <2>1, <2>2 DEF Shas
  <2> QED
    BY <2>3, CommitsAreTyped
<1> QED
  BY <1>4, <1>10, <1>11, <1>12, <1>13 DEF Holds

\* A commit counts its history.
LEMMA HistoryCount ==
  ASSUME NEW all, IsRepository(all), NEW sha \in Shas(all)
  PROVE  IsFiniteSet(History(all, sha)) /\ Cardinality(History(all, sha)) = CountAt(all, sha)
<1> DEFINE Holds(h) == IsFiniteSet(History(all, h)) /\ Cardinality(History(all, h)) = CountAt(all, h)
           S == {h \in Shas(all) : ~ Holds(h)}
<1> SUFFICES ASSUME S # {} PROVE FALSE
  OBVIOUS
<1> HIDE DEF Holds
<1>1. S \subseteq Nat
  BY CommitsAreTyped DEF Shas
<1>2. PICK h \in S : \A i \in S : h <= i
  <2> HIDE DEF S
  <2> QED
    BY <1>1, LeastNumber
<1>3. h \in Shas(all) /\ ~ Holds(h)
  OBVIOUS
<1>4. CASE h = 0
  <2>1. History(all, h) = {} /\ CountAt(all, h) = 0
    BY <1>3, <1>4, HistoryOf DEF CountAt
  <2> QED
    BY <1>3, <2>1, FS_EmptySet DEF Holds
<1>5. CASE h # 0
  <2>1. h \in DOMAIN all /\ all[h].parent \in Shas(all) /\ all[h].parent < h
    BY <1>3, <1>5, CommitsAreTyped DEF IsRepository, Shas
  <2>2. PICK p \in Shas(all) : p = all[h].parent
    BY <2>1
  <2>3. Holds(p)
    <3>1. p \notin S
      BY <1>1, <1>2, <2>1, <2>2
    <3> QED
      BY <3>1
  <2>4. CountAt(all, h) = CountAt(all, p) + 1 /\ CountAt(all, p) \in Nat
    BY <1>5, <2>1, <2>2, CommitsAreTyped DEF CountAt, IsRepository
  <2>5. h \notin History(all, p)
    <3>1. h # p
      <4>1. h \in Nat /\ p < h
        BY <1>1, <2>1, <2>2
      <4> QED
        BY <4>1
    <3>2. ~ (CountAt(all, h) < CountAt(all, p))
      BY <2>4
    <3> QED
      BY <3>1, <3>2, AncestorCount
  <2>6. History(all, h) = History(all, p) \union {h}
    BY <1>3, <1>5, <2>2, HistoryOf
  <2>7. IsFiniteSet(History(all, h)) /\ Cardinality(History(all, h)) = Cardinality(History(all, p)) + 1
    BY <2>3, <2>5, <2>6, FS_AddElement DEF Holds
  <2> QED
    BY <1>3, <2>3, <2>4, <2>7 DEF Holds
<1> QED
  BY <1>4, <1>5

\* How many of A are not in B, by their numbers and those of B that are not in A.
LEMMA DifferenceByNumber ==
  ASSUME NEW A, NEW B, IsFiniteSet(A), IsFiniteSet(B), NEW D \in SUBSET (A \ B)
  PROVE  /\ Cardinality(D) \in Nat /\ Cardinality(B \ A) \in Nat
         /\ Cardinality(D) <= Cardinality(A) - Cardinality(B) + Cardinality(B \ A)
<1>1. IsFiniteSet(A \ B) /\ Cardinality(A \ B) = Cardinality(A) - Cardinality(A \cap B)
  BY FS_Difference
<1>2. IsFiniteSet(B \ A) /\ Cardinality(B \ A) = Cardinality(B) - Cardinality(B \cap A)
  BY FS_Difference
<1>3. A \cap B = B \cap A /\ IsFiniteSet(A \cap B)
  BY FS_Intersection
<1>4. IsFiniteSet(D) /\ Cardinality(D) <= Cardinality(A \ B)
  BY <1>1, FS_Subset
<1>5. /\ Cardinality(A) \in Nat /\ Cardinality(B) \in Nat /\ Cardinality(A \cap B) \in Nat
      /\ Cardinality(D) \in Nat /\ Cardinality(A \ B) \in Nat /\ Cardinality(B \ A) \in Nat
  BY <1>1, <1>2, <1>3, <1>4, FS_CardinalityType
<1> QED
  BY <1>1, <1>2, <1>3, <1>4, <1>5

\* And if one of B may be missing from the set that is taken away.
LEMMA DifferenceButOne ==
  ASSUME NEW A, NEW B, NEW n, IsFiniteSet(A), IsFiniteSet(B),
         NEW D \in SUBSET (A \ (B \ {n}))
  PROVE  /\ Cardinality(D) \in Nat /\ Cardinality(B \ A) \in Nat
         /\ Cardinality(D) <= Cardinality(A) - Cardinality(B) + Cardinality(B \ A) + 1
<1>1. D \ {n} \in SUBSET (A \ B)
  OBVIOUS
<1>2. /\ Cardinality(D \ {n}) \in Nat /\ Cardinality(B \ A) \in Nat
      /\ Cardinality(D \ {n}) <= Cardinality(A) - Cardinality(B) + Cardinality(B \ A)
  BY <1>1, DifferenceByNumber
<1>3. IsFiniteSet(D)
  BY FS_Subset, FS_Difference
<1>4. Cardinality(D \ {n}) = IF n \in D THEN Cardinality(D) - 1 ELSE Cardinality(D)
  BY <1>3, FS_RemoveElement
<1>5. Cardinality(D) \in Nat /\ Cardinality(A) \in Nat /\ Cardinality(B) \in Nat
  BY <1>3, FS_CardinalityType
<1> QED
  BY <1>2, <1>4, <1>5

\* A new commit leaves all that is known of the others.
LEMMA NewCommit ==
  ASSUME NEW all, IsRepository(all), NEW e \in Commit,
         e.parent \in Shas(all), e.count = CountAt(all, e.parent) + 1
  PROVE  /\ IsRepository(Append(all, e))
         /\ Len(Append(all, e)) = Len(all) + 1 /\ Append(all, e)[Len(all) + 1] = e
         /\ \A s \in DOMAIN all : Append(all, e)[s] = all[s]
         /\ \A s \in Shas(all) :
              /\ s \in Shas(Append(all, e))
              /\ TreeAt(Append(all, e), s) = TreeAt(all, s)
              /\ CountAt(Append(all, e), s) = CountAt(all, s)
              /\ ParentOf(Append(all, e), s) = ParentOf(all, s)
              /\ History(Append(all, e), s) = History(all, s)
<1> DEFINE more == Append(all, e)
<1>1. all \in Seq(Commit) /\ Len(all) \in Nat /\ DOMAIN all = 1 .. Len(all)
  BY CommitsAreTyped DEF IsRepository
<1>2. /\ more \in Seq(Commit) /\ Len(more) = Len(all) + 1 /\ DOMAIN more = 1 .. Len(all) + 1
      /\ more[Len(all) + 1] = e
      /\ \A s \in DOMAIN all : more[s] = all[s]
  BY <1>1
<1> HIDE DEF more
<1>3. ASSUME NEW s \in Shas(all)
      PROVE  /\ s \in Shas(more) /\ TreeAt(more, s) = TreeAt(all, s)
             /\ CountAt(more, s) = CountAt(all, s) /\ ParentOf(more, s) = ParentOf(all, s)
  <2>1. s # 0 => s \in DOMAIN all /\ more[s] = all[s]
    BY <1>1, <1>2 DEF Shas
  <2>2. s \in Shas(more)
    BY <1>1, <1>2 DEF Shas
  <2> QED
    BY <2>1, <2>2 DEF TreeAt, CountAt, ParentOf
<1>4. IsRepository(more)
  <2>1. ASSUME NEW s \in DOMAIN more
        PROVE  more[s].parent \in 0 .. s - 1 /\ more[s].count = CountAt(more, more[s].parent) + 1
    <3>1. CASE s = Len(all) + 1
      <4>1. e.parent \in 0 .. s - 1
        BY <1>1, <3>1 DEF Shas
      <4>2. CountAt(more, e.parent) = CountAt(all, e.parent)
        BY <1>3
      <4> QED
        BY <1>2, <3>1, <4>1, <4>2
    <3>2. CASE s # Len(all) + 1
      <4>1. s \in DOMAIN all /\ more[s] = all[s]
        BY <1>1, <1>2, <3>2
      <4>2. all[s].parent \in 0 .. s - 1 /\ all[s].count = CountAt(all, all[s].parent) + 1
        BY <4>1 DEF IsRepository
      <4>3. all[s].parent \in Shas(all)
        BY <1>1, <4>1, <4>2 DEF Shas
      <4> QED
        BY <1>3, <4>1, <4>2, <4>3
    <3> QED
      BY <3>1, <3>2
  <2> QED
    BY <1>2, <2>1 DEF IsRepository
<1> DEFINE S == {h \in Shas(all) : History(more, h) # History(all, h)}
<1>5. S = {}
  <2> SUFFICES ASSUME S # {} PROVE FALSE
    OBVIOUS
  <2>1. S \subseteq Nat
    BY <1>1 DEF Shas
  <2>2. PICK h \in S : \A i \in S : h <= i
    <3> HIDE DEF S
    <3> QED
      BY <2>1, LeastNumber
  <2>3. h \in Shas(all) /\ h \in Shas(more)
    BY <1>3
  <2>4. /\ History(all, h) = IF h = 0 THEN {} ELSE {h} \union History(all, all[h].parent)
        /\ History(more, h) = IF h = 0 THEN {} ELSE {h} \union History(more, more[h].parent)
    BY <1>4, <2>3, HistoryOf
  <2>5. h # 0
    BY <2>2, <2>4
  <2>6. h \in DOMAIN all /\ more[h] = all[h] /\ all[h].parent \in Shas(all) /\ all[h].parent < h
    <3> HIDE DEF S
    <3>1. h \in DOMAIN all
      BY <1>1, <2>3, <2>5 DEF Shas
    <3>2. more[h] = all[h]
      BY <1>2, <3>1
    <3>3. all[h].parent \in Shas(all) /\ all[h].parent < h
      BY <1>1, <3>1, CommitsAreTyped DEF IsRepository, Shas
    <3> QED
      BY <3>1, <3>2, <3>3
  <2>7. all[h].parent \notin S
    <3> HIDE DEF S
    <3>1. h \in Nat /\ \A i \in S : i \in Nat /\ h <= i
      BY <2>1, <2>2
    <3>2. PICK p : p = all[h].parent
      OBVIOUS
    <3>3. p < h
      BY <2>6, <3>2
    <3>4. ASSUME p \in S PROVE FALSE
      <4>1. p \in Nat /\ h \in Nat /\ h <= p
        BY <3>1, <3>4
      <4> QED
        BY <3>3, <4>1
    <3> QED
      BY <3>2, <3>4
  <2>8. History(more, all[h].parent) = History(all, all[h].parent)
    BY <2>6, <2>7
  <2> QED
    BY <2>2, <2>4, <2>5, <2>6, <2>8
<1> QED
  BY <1>2, <1>3, <1>4, <1>5 DEF more

-----------------------------------------------------------------------------
(* The actions of a payload. *)

\* How a file that differs has changed.
ChangeType(old, new, f) ==
  IF old[f] = Absent THEN "created" ELSE IF new[f] = Absent THEN "deleted" ELSE "modified"

LEMMA StatusEntries ==
  ASSUME NEW old \in Tree, NEW new \in Tree
  PROVE  /\ \A s \in StatusOf(old, new) :
              /\ s \in FileStatus
              /\ s.content = new[s.path]
              /\ old[s.path] # new[s.path]
              /\ s.type = ChangeType(old, new, s.path)
         /\ \A f \in File : old[f] # new[f] => \E s \in StatusOf(old, new) : s.path = f
<1>1. ASSUME NEW f \in File
      PROVE  old[f] \in Content \union {Absent} /\ new[f] \in Content \union {Absent}
  BY DEF Tree
<1>2. ASSUME NEW s \in StatusOf(old, new)
      PROVE  /\ s \in FileStatus
             /\ s.content = new[s.path]
             /\ old[s.path] # new[s.path]
             /\ s.type = ChangeType(old, new, s.path)
  <2>1. CASE \E f \in Created(old, new) : s = StatusEntry(f, "created", new[f])
    BY <1>1, <2>1 DEF StatusEntry, FileStatus, Created, ChangeType
  <2>2. CASE \E f \in Modified(old, new) : s = StatusEntry(f, "modified", new[f])
    BY <1>1, <2>2 DEF StatusEntry, FileStatus, Modified, ChangeType
  <2>3. CASE \E f \in Deleted(old, new) : s = StatusEntry(f, "deleted", Absent)
    BY <1>1, <2>3 DEF StatusEntry, FileStatus, Deleted, ChangeType
  <2> QED
    BY <2>1, <2>2, <2>3 DEF StatusOf
<1>3. ASSUME NEW f \in File, old[f] # new[f]
      PROVE  \E s \in StatusOf(old, new) : s.path = f
  <2>1. CASE f \in Created(old, new)
    <3>1. StatusEntry(f, "created", new[f]) \in StatusOf(old, new)
      BY <2>1 DEF StatusOf
    <3> QED
      BY <3>1 DEF StatusEntry
  <2>2. CASE f \in Modified(old, new)
    <3>1. StatusEntry(f, "modified", new[f]) \in StatusOf(old, new)
      BY <2>2 DEF StatusOf
    <3> QED
      BY <3>1 DEF StatusEntry
  <2>3. CASE f \in Deleted(old, new)
    <3>1. StatusEntry(f, "deleted", Absent) \in StatusOf(old, new)
      BY <2>3 DEF StatusOf
    <3> QED
      BY <3>1 DEF StatusEntry
  <2> QED
    BY <1>3, <2>1, <2>2, <2>3 DEF Created, Modified, Deleted
<1> QED
  BY <1>2, <1>3

\* What the original commit did to its files; what a rename moved away has no entry.
LEMMA OriginalEntries ==
  ASSUME NEW old \in Tree, NEW mid \in Tree
  PROVE  LET original == OriginalFiles(CommitDiff(old, mid), mid)
             renamed == Renamed(old, mid)
         IN  /\ \A o \in original :
                  /\ o \in FileStatus
                  /\ o.content = mid[o.path]
                  /\ \/ \E r \in renamed : o.path = r[2] /\ o.type = "modified"
                     \/ /\ \A r \in renamed : o.path # r[2]
                        /\ old[o.path] # mid[o.path]
                        /\ o.type = ChangeType(old, mid, o.path)
             /\ \A f \in File :
                  old[f] # mid[f] /\ (\A r \in renamed : f # r[1]) => \E o \in original : o.path = f
<1> DEFINE renamed == Renamed(old, mid)
           diff == CommitDiff(old, mid)
           original == OriginalFiles(diff, mid)
           file(d) == CASE d.kind = "new_file" -> StatusEntry(d.new_path, "created", mid[d.new_path])
                        [] d.kind = "deleted_file" -> StatusEntry(d.old_path, "deleted", Absent)
                        [] OTHER -> StatusEntry(d.new_path, "modified", mid[d.new_path])
<1>1. ASSUME NEW f \in File
      PROVE  old[f] \in Content \union {Absent} /\ mid[f] \in Content \union {Absent}
  BY DEF Tree
<1>2. renamed \subseteq Deleted(old, mid) \X Created(old, mid)
  BY DEF Renamed
<1>3. original = {file(d) : d \in diff}
  BY DEF OriginalFiles
<1>4. diff = {Entry(r[1], r[2], "renamed_file") : r \in renamed}
             \union {Entry(f, f, "changed") : f \in Modified(old, mid)}
             \union {Entry(f, f, "new_file") : f \in Created(old, mid) \ {r[2] : r \in renamed}}
             \union {Entry(f, f, "deleted_file") : f \in Deleted(old, mid) \ {r[1] : r \in renamed}}
  BY DEF CommitDiff
<1> HIDE DEF renamed, diff, original
<1>5. /\ \A a, b : file(Entry(a, b, "renamed_file")) = StatusEntry(b, "modified", mid[b])
      /\ \A f : /\ file(Entry(f, f, "changed")) = StatusEntry(f, "modified", mid[f])
                /\ file(Entry(f, f, "new_file")) = StatusEntry(f, "created", mid[f])
                /\ file(Entry(f, f, "deleted_file")) = StatusEntry(f, "deleted", Absent)
  BY DEF Entry
<1> HIDE DEF file
<1>6. \A r \in renamed : /\ r[1] \in File /\ r[2] \in File
                         /\ old[r[1]] # Absent /\ mid[r[1]] = Absent
                         /\ old[r[2]] = Absent /\ mid[r[2]] # Absent
  BY <1>2 DEF Deleted, Created
<1>7. ASSUME NEW o \in original
      PROVE  /\ o \in FileStatus
             /\ o.content = mid[o.path]
             /\ \/ \E r \in renamed : o.path = r[2] /\ o.type = "modified"
                \/ /\ \A r \in renamed : o.path # r[2]
                   /\ old[o.path] # mid[o.path]
                   /\ o.type = ChangeType(old, mid, o.path)
  <2>1. PICK d \in diff : o = file(d)
    BY <1>3
  <2>2. CASE \E r \in renamed : d = Entry(r[1], r[2], "renamed_file")
    <3>1. PICK r \in renamed : o = StatusEntry(r[2], "modified", mid[r[2]])
      BY <1>5, <2>1, <2>2
    <3> QED
      BY <1>1, <1>6, <3>1 DEF StatusEntry, FileStatus
  <2>3. CASE \E f \in Modified(old, mid) : d = Entry(f, f, "changed")
    <3>1. PICK f \in Modified(old, mid) : o = StatusEntry(f, "modified", mid[f])
      BY <1>5, <2>1, <2>3
    <3>2. f \in File /\ old[f] # Absent /\ mid[f] # Absent /\ old[f] # mid[f]
      BY DEF Modified
    <3> QED
      BY <1>1, <1>6, <3>1, <3>2 DEF StatusEntry, FileStatus, ChangeType
  <2>4. CASE \E f \in Created(old, mid) \ {r[2] : r \in renamed} : d = Entry(f, f, "new_file")
    <3>1. PICK f \in Created(old, mid) \ {r[2] : r \in renamed} : o = StatusEntry(f, "created", mid[f])
      BY <1>5, <2>1, <2>4
    <3>2. f \in File /\ old[f] = Absent /\ mid[f] # Absent /\ \A r \in renamed : f # r[2]
      BY DEF Created
    <3> QED
      BY <1>1, <3>1, <3>2 DEF StatusEntry, FileStatus, ChangeType
  <2>5. CASE \E f \in Deleted(old, mid) \ {r[1] : r \in renamed} : d = Entry(f, f, "deleted_file")
    <3>1. PICK f \in Deleted(old, mid) : o = StatusEntry(f, "deleted", Absent)
      BY <1>5, <2>1, <2>5
    <3>2. f \in File /\ old[f] # Absent /\ mid[f] = Absent
      BY DEF Deleted
    <3> QED
      BY <1>1, <1>6, <3>1, <3>2 DEF StatusEntry, FileStatus, ChangeType
  <2> QED
    BY <1>4, <2>2, <2>3, <2>4, <2>5
<1>8. ASSUME NEW f \in File, old[f] # mid[f], \A r \in renamed : f # r[1]
      PROVE  \E o \in original : o.path = f
  <2>1. \A d \in diff : file(d) \in original
    BY <1>3
  <2>2. CASE f \in Modified(old, mid)
    <3>1. Entry(f, f, "changed") \in diff
      BY <1>4, <2>2
    <3> QED
      BY <1>5, <2>1, <3>1 DEF StatusEntry
  <2>3. CASE f \in Created(old, mid)
    <3>1. CASE \E r \in renamed : f = r[2]
      <4>1. PICK r \in renamed : f = r[2]
        BY <3>1
      <4>2. Entry(r[1], r[2], "renamed_file") \in diff
        BY <1>4
      <4> QED
        BY <1>5, <2>1, <4>1, <4>2 DEF StatusEntry
    <3>2. CASE \A r \in renamed : f # r[2]
      <4>1. Entry(f, f, "new_file") \in diff
        BY <1>4, <2>3, <3>2
      <4> QED
        BY <1>5, <2>1, <4>1 DEF StatusEntry
    <3> QED
      BY <3>1, <3>2
  <2>4. CASE f \in Deleted(old, mid)
    <3>1. Entry(f, f, "deleted_file") \in diff
      BY <1>4, <1>8, <2>4
    <3> QED
      BY <1>5, <2>1, <3>1 DEF StatusEntry
  <2> QED
    BY <1>8, <2>2, <2>3, <2>4 DEF Created, Modified, Deleted
<1> QED
  BY <1>7, <1>8 DEF original, renamed, diff

\* The amended commit as it was and the changes since, together: a change of the
\* parent's files to what the user sees; but for what a rename has moved away.
LEMMA MergedEntries ==
  ASSUME NEW old \in Tree, NEW mid \in Tree, NEW new \in Tree
  PROVE  LET merged == MergeOriginalAndCurrentChanges(OriginalFiles(CommitDiff(old, mid), mid),
                                                      StatusOf(mid, new))
             renamed == Renamed(old, mid)
         IN  /\ \A s \in merged : s \in FileStatus /\ s.content = new[s.path]
             /\ renamed = {} =>
                  /\ \A f \in File : old[f] # new[f] => \E s \in merged : s.path = f
                  /\ \A s \in merged :
                       IF s.type = "created"
                       THEN old[s.path] = Absent \/ (s.path \in Deleted(old, mid) /\ new[s.path] # Absent)
                       ELSE old[s.path] # Absent
             /\ renamed # {} => \E s \in merged : s.type # "created" /\ old[s.path] = Absent
<1> DEFINE original == OriginalFiles(CommitDiff(old, mid), mid)
           status == StatusOf(mid, new)
           merged == MergeOriginalAndCurrentChanges(original, status)
           renamed == Renamed(old, mid)
<1>1. /\ \A o \in original :
           /\ o \in FileStatus
           /\ o.content = mid[o.path]
           /\ \/ \E r \in renamed : o.path = r[2] /\ o.type = "modified"
              \/ /\ \A r \in renamed : o.path # r[2]
                 /\ old[o.path] # mid[o.path]
                 /\ o.type = ChangeType(old, mid, o.path)
      /\ \A f \in File :
           old[f] # mid[f] /\ (\A r \in renamed : f # r[1]) => \E o \in original : o.path = f
  BY OriginalEntries
<1>2. /\ \A s \in status : /\ s \in FileStatus
                          /\ s.content = new[s.path]
                          /\ mid[s.path] # new[s.path]
                          /\ s.type = ChangeType(mid, new, s.path)
      /\ \A f \in File : mid[f] # new[f] => \E s \in status : s.path = f
  BY StatusEntries
<1>3. renamed \subseteq Deleted(old, mid) \X Created(old, mid)
  BY DEF Renamed
<1>4. \A s : s \in merged <=>
         \/ s \in original /\ \A t \in status : t.path # s.path
         \/ s \in status /\ \A o \in original : o.path # s.path
         \/ \E o \in original, t \in status : o.path = t.path /\ s \in MergedWith(o, t)
  <2> HIDE DEF original, status
  <2>1. \A s : s \in UNION {MergedWith(p[1], p[2]) : p \in {q \in original \X status : q[1].path = q[2].path}}
              <=> \E o \in original, t \in status : o.path = t.path /\ s \in MergedWith(o, t)
    <3>1. ASSUME NEW s, NEW o \in original, NEW t \in status, o.path = t.path, s \in MergedWith(o, t)
          PROVE  s \in UNION {MergedWith(p[1], p[2]) : p \in {q \in original \X status : q[1].path = q[2].path}}
      <4>1. <<o, t>> \in {q \in original \X status : q[1].path = q[2].path}
        BY <3>1
      <4>2. MergedWith(<<o, t>>[1], <<o, t>>[2]) = MergedWith(o, t)
        OBVIOUS
      <4> QED
        BY <3>1, <4>1, <4>2
    <3> QED
      BY <3>1
  <2> QED
    BY <2>1 DEF MergeOriginalAndCurrentChanges
<1> HIDE DEF original, status, merged, renamed
<1>5. ASSUME NEW o \in original, NEW t \in status, o.path = t.path, NEW s \in MergedWith(o, t)
      PROVE  /\ s \in FileStatus /\ s.path = t.path /\ s.content = t.content
             /\ s.type = IF o.type = "created" /\ t.type = "modified" THEN "created" ELSE t.type
             /\ ~ (o.type = "created" /\ t.type = "deleted")
  <2>1. t \in FileStatus
    BY <1>2
  <2>2. CASE o.type = "created" /\ t.type = "deleted"
    BY <2>2 DEF MergedWith
  <2>3. CASE o.type = "created" /\ t.type = "modified"
    <3>1. s = [t EXCEPT !.type = "created"]
      BY <2>3 DEF MergedWith
    <3> QED
      BY <2>1, <2>3, <3>1 DEF FileStatus
  <2>4. CASE ~ (o.type = "created" /\ t.type \in {"deleted", "modified"})
    <3>1. s = t
      BY <2>4 DEF MergedWith
    <3> QED
      BY <2>1, <2>4, <3>1
  <2> QED
    BY <2>2, <2>3, <2>4
<1>6. ASSUME NEW s \in merged
      PROVE  s \in FileStatus /\ s.content = new[s.path]
  <2>1. CASE s \in original /\ \A t \in status : t.path # s.path
    <3>1. s \in FileStatus /\ s.content = mid[s.path] /\ s.path \in File
      BY <1>1, <2>1 DEF FileStatus
    <3> QED
      BY <1>2, <2>1, <3>1
  <2>2. CASE s \in status
    BY <1>2, <2>2
  <2>3. CASE \E o \in original, t \in status : o.path = t.path /\ s \in MergedWith(o, t)
    BY <1>2, <1>5, <2>3
  <2> QED
    BY <1>4, <2>1, <2>2, <2>3
<1>7. ASSUME renamed = {}, NEW f \in File, old[f] # new[f]
      PROVE  \E s \in merged : s.path = f
  <2>1. CASE \E o \in original : o.path = f
    <3>1. PICK o \in original : o.path = f
      BY <2>1
    <3>2. CASE \A t \in status : t.path # f
      BY <1>4, <3>1, <3>2
    <3>3. CASE \E t \in status : t.path = f
      <4>1. PICK t \in status : t.path = f
        BY <3>3
      <4>2. t.type = ChangeType(mid, new, f) /\ o.type = ChangeType(old, mid, f) /\ old[f] # mid[f]
        BY <1>1, <1>2, <1>7, <3>1, <4>1
      <4>3. ~ (o.type = "created" /\ t.type = "deleted")
        BY <1>7, <4>2 DEF ChangeType
      <4>4. [t EXCEPT !.type = "created"] \in MergedWith(o, t) \/ t \in MergedWith(o, t)
        BY <4>3 DEF MergedWith
      <4>5. PICK s : s \in MergedWith(o, t)
        BY <4>4
      <4>6. s.path = f
        BY <1>5, <3>1, <4>1, <4>5
      <4> QED
        BY <1>4, <3>1, <4>1, <4>5, <4>6
    <3> QED
      BY <3>2, <3>3
  <2>2. CASE \A o \in original : o.path # f
    <3>1. old[f] = mid[f]
      BY <1>1, <1>7, <2>2
    <3>2. PICK t \in status : t.path = f
      BY <1>2, <1>7, <3>1
    <3> QED
      BY <1>4, <2>2, <3>2
  <2> QED
    BY <2>1, <2>2
<1>8. ASSUME renamed = {}, NEW s \in merged
      PROVE  IF s.type = "created"
             THEN old[s.path] = Absent \/ (s.path \in Deleted(old, mid) /\ new[s.path] # Absent)
             ELSE old[s.path] # Absent
  <2>1. s.path \in File
    BY <1>6 DEF FileStatus
  <2>2. CASE s \in original
    BY <1>1, <1>8, <2>2 DEF ChangeType
  <2>3. CASE s \in status /\ \A o \in original : o.path # s.path
    <3>1. old[s.path] = mid[s.path]
      BY <1>1, <1>8, <2>1, <2>3
    <3> QED
      BY <1>2, <2>3, <3>1 DEF ChangeType
  <2>4. CASE \E o \in original, t \in status : o.path = t.path /\ s \in MergedWith(o, t)
    <3>1. PICK o \in original, t \in status : o.path = t.path /\ s \in MergedWith(o, t)
      BY <2>4
    <3>2. /\ s.path = t.path
          /\ s.type = IF o.type = "created" /\ t.type = "modified" THEN "created" ELSE t.type
          /\ ~ (o.type = "created" /\ t.type = "deleted")
      BY <1>5, <3>1
    <3>3. /\ t.type = ChangeType(mid, new, s.path) /\ mid[s.path] # new[s.path]
          /\ o.type = ChangeType(old, mid, s.path) /\ old[s.path] # mid[s.path]
      BY <1>1, <1>2, <1>8, <3>1, <3>2
    <3> QED
      BY <2>1, <3>2, <3>3 DEF ChangeType, Deleted
  <2> QED
    BY <1>4, <2>2, <2>3, <2>4
<1>9. ASSUME renamed # {}
      PROVE  \E s \in merged : s.type # "created" /\ old[s.path] = Absent
  <2>1. PICK r \in renamed : TRUE
    BY <1>9
  <2> DEFINE f == r[2]
  <2>2. f \in File /\ old[f] = Absent /\ mid[f] # Absent
    BY <1>3, <2>1 DEF Created
  <2>3. \A q \in renamed : f # q[1]
    BY <1>3, <2>2 DEF Deleted
  <2>4. PICK o \in original : o.path = f
    BY <1>1, <2>2, <2>3
  <2>5. o.type = "modified"
    BY <1>1, <2>1, <2>4
  <2>6. CASE \A t \in status : t.path # f
    BY <1>4, <2>2, <2>4, <2>5, <2>6
  <2>7. CASE \E t \in status : t.path = f
    <3>1. PICK t \in status : t.path = f
      BY <2>7
    <3>2. t \in MergedWith(o, t)
      BY <2>5 DEF MergedWith
    <3>3. t \in merged
      BY <1>4, <2>4, <3>1, <3>2
    <3>4. t.type # "created"
      BY <1>2, <2>2, <3>1 DEF ChangeType
    <3> QED
      BY <2>2, <3>1, <3>3, <3>4
  <2> QED
    BY <2>6, <2>7
<1> QED
  BY <1>6, <1>7, <1>8, <1>9 DEF merged, renamed, original, status

\* What a file holds when the actions for some changes have been applied.
LEMMA AppliedActions ==
  ASSUME NEW tree \in Tree, NEW new \in Tree,
         NEW status, \A s \in status : s \in FileStatus /\ s.content = new[s.path],
         NEW name, NEW isNew, NEW sha, NEW force
  PROVE  LET actions == GetCommitPayload(status, name, isNew, sha, force).actions
         IN  /\ Changed(tree, actions) \in Tree
             /\ \A f \in File : Changed(tree, actions)[f] =
                  IF \E s \in status : s.path = f THEN new[f] ELSE tree[f]
<1> DEFINE actions == GetCommitPayload(status, name, isNew, sha, force).actions
           act(s) == [action |-> GetCommitActionType(s), path |-> s.path,
                      last |-> LastCommitId(s, sha, isNew, force), content |-> s.content]
<1>1. actions = {act(s) : s \in status}
  BY DEF GetCommitPayload
<1>2. \A s : act(s).path = s.path /\ act(s).content = s.content
  OBVIOUS
<1> HIDE DEF actions, act
<1>3. ASSUME NEW f \in File
      PROVE  Changed(tree, actions)[f] = IF \E s \in status : s.path = f THEN new[f] ELSE tree[f]
  <2>1. CASE \E s \in status : s.path = f
    <3>1. \E a \in actions : a.path = f
      BY <1>1, <1>2, <2>1
    <3>2. Changed(tree, actions)[f] = (CHOOSE a \in actions : a.path = f).content
      BY <3>1 DEF Changed
    <3>3. \A a \in actions : a.path = f => a.content = new[f]
      BY <1>1, <1>2
    <3> QED
      BY <2>1, <3>1, <3>2, <3>3
  <2>2. CASE \A s \in status : s.path # f
    <3>1. \A a \in actions : a.path # f
      BY <1>1, <1>2, <2>2
    <3> QED
      BY <2>2, <3>1 DEF Changed
  <2> QED
    BY <2>1, <2>2
<1>4. Changed(tree, actions) \in Tree
  <2>1. Changed(tree, actions) = [f \in File |-> Changed(tree, actions)[f]]
    BY DEF Changed
  <2>2. \A f \in File : Changed(tree, actions)[f] \in Content \union {Absent}
    BY <1>3 DEF Tree
  <2> QED
    BY <2>1, <2>2 DEF Tree
<1> QED
  BY <1>3, <1>4 DEF actions

-----------------------------------------------------------------------------
(* What is posted, and when it is taken. *)

Seen == TreeAt(commits, ref.sha)

\* The branch as it is, before it is moved.
Tip == TreeAt(commits, branches[command.selection.branchName])

Base == BaseOf(branches, PayloadOf(command))

Posted ==
  [parent |-> Base, count |-> CountAt(commits, Base) + 1,
   tree |-> Changed(TreeAt(commits, Base), PayloadOf(command).actions), author |-> "user"]

\* What the command is sure to know when it posts.
Posting ==
  /\ CommitTypeOK /\ RefHasCommit
  /\ At("posting")
  /\ command.mode = "amend" => ref.sha # 0

LEMMA PostingTyping ==
  ASSUME Posting
  PROVE  /\ command # Idle /\ command \in Running /\ command.stage = "posting"
         /\ command.snapshot \in Tree /\ command.selection \in Selection
         /\ command.selection.branchName \in Branch
         /\ branches[command.selection.branchName] \in Shas(commits)
         /\ ref.sha \in Shas(commits) /\ Seen \in Tree /\ Tip \in Tree
         /\ ref.sha = 0 => commits = <<>> /\ branches[command.selection.branchName] = 0
<1>1. /\ command # Idle /\ command.stage = "posting" /\ command \in Running
      /\ command.selection \in Selection /\ IsRepository(commits)
      /\ branches \in [Branch -> Shas(commits)] /\ ref.sha \in Shas(commits)
  BY DEF Posting, At, CommitTypeOK
<1>2. command.snapshot \in Tree /\ command.selection.branchName \in Branch
  BY <1>1 DEF Running, Selection
<1>3. branches[command.selection.branchName] \in Shas(commits)
  BY <1>1, <1>2
<1>4. Seen \in Tree /\ Tip \in Tree
  BY <1>1, <1>3, CommitsAreTyped DEF Seen, Tip
<1>5. ref.sha = 0 => commits = <<>>
  BY <1>1 DEF Posting, RefHasCommit, At
<1>6. commits = <<>> => Shas(commits) = {0}
  BY DEF Shas
<1> QED
  BY <1>1, <1>2, <1>3, <1>4, <1>5, <1>6

LEMMA PlainPayload ==
  ASSUME Posting, command.mode # "amend"
  PROVE  PayloadOf(command) =
           GetCommitPayload(StatusOf(Seen, command.snapshot), command.selection.branchName,
                            command.selection.isNewBranch, ref.sha, command.mode = "force")
BY DEF PayloadOf, Seen

Amended == TreeAt(commits, ParentOf(commits, ref.sha))

Merged ==
  MergeOriginalAndCurrentChanges(OriginalFiles(CommitDiff(Amended, Seen), Seen),
                                 StatusOf(Seen, command.snapshot))

LEMMA AmendPayload ==
  ASSUME Posting, command.mode = "amend"
  PROVE  PayloadOf(command) =
           GetCommitPayload(Merged, command.selection.branchName, command.selection.isNewBranch,
                            IF ParentOf(commits, ref.sha) = 0 THEN ref.sha
                            ELSE ParentOf(commits, ref.sha), TRUE)
BY DEF PayloadOf, GetAmendCommitPayload, Merged, Amended, Seen

\* The commit that the new one is on top of.
LEMMA BaseIs ==
  ASSUME Posting
  PROVE  /\ PayloadOf(command).branch = command.selection.branchName
         /\ Base \in Shas(commits)
         /\ command.mode = "amend" =>
              Base = IF ParentOf(commits, ref.sha) = 0 THEN ref.sha ELSE ParentOf(commits, ref.sha)
         /\ command.mode = "commit" /\ ~ command.selection.isNewBranch =>
              Base = branches[command.selection.branchName]
         /\ command.mode = "force" \/ (command.mode = "commit" /\ command.selection.isNewBranch) =>
              Base = ref.sha
<1>1. /\ command \in Running
      /\ branches[command.selection.branchName] \in Shas(commits)
      /\ ref.sha \in Shas(commits) /\ command.selection.isNewBranch \in BOOLEAN
      /\ ref.sha = 0 => branches[command.selection.branchName] = 0
  BY PostingTyping DEF Selection
<1>2. command.mode \in {"commit", "force", "amend"}
  BY <1>1 DEF Running, Mode
<1>3. CASE command.mode = "amend"
  <2> DEFINE parent == ParentOf(commits, ref.sha)
             start == IF parent = 0 THEN ref.sha ELSE parent
  <2>1. ref.sha # 0 /\ parent \in Shas(commits)
    BY <1>1, <1>3, CommitsAreTyped DEF Posting, CommitTypeOK
  <2>2. PayloadOf(command) = GetCommitPayload(Merged, command.selection.branchName,
                                              command.selection.isNewBranch, start, TRUE)
    BY <1>3, AmendPayload
  <2>3. PayloadOf(command).branch = command.selection.branchName /\ PayloadOf(command).start = start
    BY <2>2 DEF GetCommitPayload
  <2>4. start # 0 /\ start \in Shas(commits)
    BY <1>1, <2>1
  <2> QED
    BY <1>3, <2>3, <2>4 DEF Base, BaseOf
<1>4. CASE command.mode # "amend"
  <2>1. /\ PayloadOf(command).branch = command.selection.branchName
        /\ PayloadOf(command).start =
             IF command.selection.isNewBranch \/ command.mode = "force" THEN ref.sha ELSE 0
    BY <1>4, PlainPayload DEF GetCommitPayload
  <2> QED
    BY <1>1, <1>2, <1>4, <2>1 DEF Base, BaseOf
<1> QED
  BY <1>3, <1>4

LEMMA PostedTyping ==
  ASSUME Posting
  PROVE  /\ Added(commits, branches, PayloadOf(command)) = Append(commits, Posted)
         /\ Posted \in Commit /\ Posted.parent = Base
         /\ Posted.count = CountAt(commits, Posted.parent) + 1
<1>1. Added(commits, branches, PayloadOf(command)) = Append(commits, Posted)
  BY DEF Added, Posted, Base
<1>2. Base \in Shas(commits) /\ Base \in Nat
  BY BaseIs DEF Shas
<1>3. TreeAt(commits, Base) \in Tree /\ CountAt(commits, Base) \in Nat
  BY <1>2, CommitsAreTyped DEF Posting, CommitTypeOK
<1>4. Seen \in Tree /\ command.snapshot \in Tree /\ Amended \in Tree
  BY PostingTyping, CommitsAreTyped DEF Amended, Posting, CommitTypeOK
<1>5. Changed(TreeAt(commits, Base), PayloadOf(command).actions) \in Tree
  <2>1. CASE command.mode = "amend"
    <3>1. \A s \in Merged : s \in FileStatus /\ s.content = command.snapshot[s.path]
      BY <1>4, MergedEntries DEF Merged
    <3>2. ASSUME NEW name, NEW isNew, NEW sha, NEW force
          PROVE  Changed(TreeAt(commits, Base),
                         GetCommitPayload(Merged, name, isNew, sha, force).actions) \in Tree
      BY <1>3, <1>4, <3>1, AppliedActions
    <3> QED
      BY <2>1, <3>2, AmendPayload
  <2>2. CASE command.mode # "amend"
    <3>1. \A s \in StatusOf(Seen, command.snapshot) :
            s \in FileStatus /\ s.content = command.snapshot[s.path]
      BY <1>4, StatusEntries
    <3>2. ASSUME NEW name, NEW isNew, NEW sha, NEW force
          PROVE  Changed(TreeAt(commits, Base),
                         GetCommitPayload(StatusOf(Seen, command.snapshot), name, isNew, sha, force).actions) \in Tree
      BY <1>3, <1>4, <3>1, AppliedActions
    <3> QED
      BY <2>2, <3>2, PlainPayload
  <2> QED
    BY <2>1, <2>2
<1>6. Posted.parent = Base /\ Posted.count = CountAt(commits, Base) + 1
  BY DEF Posted
<1>7. Posted \in Commit
  BY <1>2, <1>3, <1>5 DEF Posted, Commit
<1> QED
  BY <1>1, <1>6, <1>7

\* What the answer means for the changes that are posted.
LEMMA AnswerMeans ==
  ASSUME Posting, NEW status, NEW name, NEW isNew, NEW sha, NEW force,
         PayloadOf(command) = GetCommitPayload(status, name, isNew, sha, force)
  PROVE  LET answer == Answer(PayloadOf(command))
             last(s) == IF force \/ isNew \/ s.type = "deleted" THEN 0 ELSE sha
             missing == BranchMissing(commits, branches, PayloadOf(command))
             refused(s) ==
               \/ s.type = "created" <=> TreeAt(commits, Base)[s.path] # Absent
               \/ /\ s.type = "modified" /\ last(s) # 0
                  /\ TreeAt(commits, last(s))[s.path] # TreeAt(commits, Base)[s.path]
         IN  (\A s \in status : s \in FileStatus) =>
               /\ answer = "none" => \A s \in status : ~ refused(s)
               /\ answer = "conflict" => missing \/ (\E s \in status : refused(s)) \/ status = {}
<1> DEFINE payload == PayloadOf(command)
           act(s) == [action |-> GetCommitActionType(s), path |-> s.path,
                      last |-> LastCommitId(s, sha, isNew, force), content |-> s.content]
           last(s) == IF force \/ isNew \/ s.type = "deleted" THEN 0 ELSE sha
           missing == BranchMissing(commits, branches, PayloadOf(command))
           refused(s) ==
             \/ s.type = "created" <=> TreeAt(commits, Base)[s.path] # Absent
             \/ /\ s.type = "modified" /\ last(s) # 0
                /\ TreeAt(commits, last(s))[s.path] # TreeAt(commits, Base)[s.path]
<1> SUFFICES ASSUME \A s \in status : s \in FileStatus
             PROVE  /\ Answer(payload) = "none" => \A s \in status : ~ refused(s)
                    /\ Answer(payload) = "conflict" =>
                         missing \/ (\E s \in status : refused(s)) \/ status = {}
  OBVIOUS
<1>1. payload.actions = {act(s) : s \in status}
  BY DEF GetCommitPayload
<1>2. ASSUME NEW s \in status
      PROVE  Conflicts(commits, Base, act(s)) <=> refused(s)
  <2>1. s.type \in {"created", "modified", "deleted"}
    BY DEF FileStatus
  <2>2. /\ act(s).action = GetCommitActionType(s) /\ act(s).path = s.path
        /\ act(s).last = last(s)
    BY DEF LastCommitId
  <2>3. /\ act(s).action = "create" <=> s.type = "created"
        /\ act(s).action = "update" <=> s.type = "modified"
    BY <2>1, <2>2 DEF GetCommitActionType
  <2> HIDE DEF act, last
  <2> QED
    BY <2>2, <2>3 DEF Conflicts, HasChanged
<1> HIDE DEF refused, act
<1>3. Answer(payload) = "none" => \A a \in payload.actions : ~ Conflicts(commits, Base, a)
  BY DEF Answer, Base
<1>4. Answer(payload) = "conflict" =>
        missing \/ (\E a \in payload.actions : Conflicts(commits, Base, a)) \/ payload.actions = {}
  BY DEF Answer, Base
<1> HIDE DEF payload, missing
<1>5. payload.actions = {} => status = {}
  BY <1>1
<1> QED
  BY <1>1, <1>2, <1>3, <1>4, <1>5

\* An amend that the server takes renamed nothing, and holds what the user saw.
LEMMA AcceptedAmend ==
  ASSUME Posting, command.mode = "amend", Answer(PayloadOf(command)) = "none",
         ParentOf(commits, ref.sha) # 0
  PROVE  Posted.parent = ParentOf(commits, ref.sha)
         /\ \A f \in File : Posted.tree[f] = command.snapshot[f]
<1> DEFINE parent == ParentOf(commits, ref.sha)
           name == command.selection.branchName
           isNew == command.selection.isNewBranch
           force == TRUE
<1>1. Base = parent /\ Amended = TreeAt(commits, Base) /\ Posted.parent = Base
  BY BaseIs DEF Amended, Posted
<1>2. PayloadOf(command) = GetCommitPayload(Merged, name, isNew, parent, force)
  BY AmendPayload
<1>3. Seen \in Tree /\ command.snapshot \in Tree /\ Amended \in Tree
  BY PostingTyping, CommitsAreTyped DEF Amended, Posting, CommitTypeOK
<1>4. /\ \A s \in Merged : s \in FileStatus /\ s.content = command.snapshot[s.path]
      /\ Renamed(Amended, Seen) = {} =>
           \A f \in File : Amended[f] # command.snapshot[f] => \E s \in Merged : s.path = f
      /\ Renamed(Amended, Seen) # {} =>
           \E s \in Merged : s.type # "created" /\ Amended[s.path] = Absent
  BY <1>3, MergedEntries DEF Merged
<1>5. \A s \in Merged : ~ (s.type = "created" <=> Amended[s.path] # Absent)
  <2> HIDE DEF name, isNew, parent, force
  <2> QED
    BY <1>1, <1>2, <1>4, AnswerMeans
<1>6. Renamed(Amended, Seen) = {}
  BY <1>4, <1>5
<1>7. ASSUME NEW f \in File
      PROVE  Posted.tree[f] = command.snapshot[f]
  <2>1. Posted.tree[f] = IF \E s \in Merged : s.path = f THEN command.snapshot[f] ELSE Amended[f]
    <3>1. Posted.tree = Changed(Amended, GetCommitPayload(Merged, name, isNew, parent, force).actions)
      BY <1>1, <1>2 DEF Posted
    <3>2. Changed(Amended, GetCommitPayload(Merged, name, isNew, parent, force).actions)[f] =
            IF \E s \in Merged : s.path = f THEN command.snapshot[f] ELSE Amended[f]
      <4> HIDE DEF name, isNew, parent, force
      <4> QED
        BY <1>3, <1>4, AppliedActions
    <3> QED
      BY <3>1, <3>2
  <2> QED
    BY <1>4, <1>6, <2>1
<1> QED
  BY <1>1, <1>7

\* Another command's commit holds what the user saw of the files that differ from
\* what is checked out; one that is not meant for a new branch, and not by force,
\* takes back no change of others' but in what it deletes.
LEMMA AcceptedPlain ==
  ASSUME Posting, command.mode # "amend", Answer(PayloadOf(command)) = "none"
  PROVE  /\ \A f \in File : Posted.tree[f] =
              IF command.mode = "commit" /\ ~ command.selection.isNewBranch
                 /\ command.snapshot[f] = Seen[f]
              THEN Tip[f] ELSE command.snapshot[f]
         /\ command.mode = "commit" /\ ~ command.selection.isNewBranch =>
              \A f \in File : Tip[f] # Seen[f] =>
                Posted.tree[f] = Tip[f] \/ command.snapshot[f] = Absent
<1> DEFINE name == command.selection.branchName
           isNew == command.selection.isNewBranch
           force == command.mode = "force"
           status == StatusOf(Seen, command.snapshot)
           Plain == command.mode = "commit" /\ ~ isNew
<1>1. PayloadOf(command) = GetCommitPayload(status, name, isNew, ref.sha, force)
  BY PlainPayload
<1>2. Seen \in Tree /\ command.snapshot \in Tree /\ Tip \in Tree
  BY PostingTyping
<1>3. command.mode \in {"commit", "force"} /\ isNew \in BOOLEAN
  BY PostingTyping DEF Running, Mode, Selection
<1>4. TreeAt(commits, Base) = IF Plain THEN Tip ELSE Seen
  BY <1>3, BaseIs DEF Tip, Seen
<1>5. TreeAt(commits, Base) \in Tree
  BY <1>2, <1>4
<1>6. /\ \A s \in status : /\ s \in FileStatus
                          /\ s.content = command.snapshot[s.path]
                          /\ Seen[s.path] # command.snapshot[s.path]
                          /\ s.type = ChangeType(Seen, command.snapshot, s.path)
      /\ \A f \in File : Seen[f] # command.snapshot[f] => \E s \in status : s.path = f
  BY <1>2, StatusEntries
<1>7. \A s \in status :
        /\ ~ (s.type = "created" <=> TreeAt(commits, Base)[s.path] # Absent)
        /\ LET last == IF force \/ isNew \/ s.type = "deleted" THEN 0 ELSE ref.sha
           IN  ~ (/\ s.type = "modified" /\ last # 0
                  /\ TreeAt(commits, last)[s.path] # TreeAt(commits, Base)[s.path])
  <2> HIDE DEF status, name, isNew, force
  <2> QED
    BY <1>1, <1>6, AnswerMeans
<1>8. ASSUME NEW f \in File
      PROVE  Posted.tree[f] = IF \E s \in status : s.path = f THEN command.snapshot[f]
                              ELSE TreeAt(commits, Base)[f]
  <2>1. Posted.tree = Changed(TreeAt(commits, Base),
                              GetCommitPayload(status, name, isNew, ref.sha, force).actions)
    BY <1>1 DEF Posted
  <2>2. Changed(TreeAt(commits, Base),
                GetCommitPayload(status, name, isNew, ref.sha, force).actions)[f] =
          IF \E s \in status : s.path = f THEN command.snapshot[f] ELSE TreeAt(commits, Base)[f]
    <3> HIDE DEF status, name, isNew, force
    <3> QED
      BY <1>2, <1>5, <1>6, AppliedActions
  <2> QED
    BY <2>1, <2>2
<1> HIDE DEF status
<1>9. ASSUME NEW f \in File
      PROVE  Posted.tree[f] = IF Plain /\ command.snapshot[f] = Seen[f] THEN Tip[f]
                              ELSE command.snapshot[f]
  BY <1>4, <1>6, <1>8
<1>10. ASSUME Plain, NEW f \in File, Tip[f] # Seen[f]
       PROVE  Posted.tree[f] = Tip[f] \/ command.snapshot[f] = Absent
  <2>1. CASE command.snapshot[f] = Seen[f]
    BY <1>9, <1>10, <2>1
  <2>2. CASE command.snapshot[f] # Seen[f]
    <3>1. PICK s \in status : s.path = f
      BY <1>6, <2>2
    <3>2. s.type = ChangeType(Seen, command.snapshot, f) /\ ~ (s.type = "created" <=> Tip[f] # Absent)
      BY <1>4, <1>6, <1>7, <1>10, <3>1
    <3>3. CASE s.type = "created"
      BY <1>10, <3>2, <3>3 DEF ChangeType
    <3>4. CASE s.type = "deleted"
      BY <3>2, <3>4 DEF ChangeType
    <3>5. CASE s.type = "modified"
      <4>1. ~ force /\ ~ isNew
        BY <1>10
      <4>2. Seen[f] # Absent
        BY <3>2, <3>5 DEF ChangeType
      <4>3. ref.sha # 0
        BY <4>2 DEF Seen, TreeAt, EmptyTree
      <4>4. TreeAt(commits, ref.sha)[f] = TreeAt(commits, Base)[f]
        <5> HIDE DEF force, isNew
        <5> QED
          BY <1>7, <3>1, <3>5, <4>1, <4>3
      <4> QED
        BY <1>4, <1>10, <4>4 DEF Seen
    <3> QED
      BY <3>2, <3>3, <3>4, <3>5 DEF ChangeType
  <2> QED
    BY <2>1, <2>2
<1> QED
  BY <1>9, <1>10

\* Why the server refuses an amend for its contents.
LEMMA RefusedAmend ==
  ASSUME Posting, command.mode = "amend", Answer(PayloadOf(command)) = "conflict",
         ParentOf(commits, ref.sha) # 0
  PROVE  \/ Renamed(Amended, Seen) # {}
         \/ \E f \in Deleted(Amended, Seen) : command.snapshot[f] # Absent
         \/ command.snapshot = Amended
<1> DEFINE parent == ParentOf(commits, ref.sha)
           name == command.selection.branchName
           isNew == command.selection.isNewBranch
           force == TRUE
<1>1. Base = parent /\ Amended = TreeAt(commits, Base)
  BY BaseIs DEF Amended
<1>2. PayloadOf(command) = GetCommitPayload(Merged, name, isNew, parent, force)
  BY AmendPayload
<1>3. Seen \in Tree /\ command.snapshot \in Tree /\ Amended \in Tree
  BY PostingTyping, CommitsAreTyped DEF Amended, Posting, CommitTypeOK
<1> SUFFICES ASSUME Renamed(Amended, Seen) = {},
                    \A f \in Deleted(Amended, Seen) : command.snapshot[f] = Absent
             PROVE  command.snapshot = Amended
  OBVIOUS
<1>4. /\ \A s \in Merged : s \in FileStatus
      /\ \A f \in File : Amended[f] # command.snapshot[f] => \E s \in Merged : s.path = f
      /\ \A s \in Merged :
           IF s.type = "created"
           THEN Amended[s.path] = Absent
                \/ (s.path \in Deleted(Amended, Seen) /\ command.snapshot[s.path] # Absent)
           ELSE Amended[s.path] # Absent
  BY <1>3, MergedEntries DEF Merged
<1>5. \A s \in Merged : ~ (s.type = "created" <=> Amended[s.path] # Absent)
  BY <1>4
<1>6. ~ BranchMissing(commits, branches, PayloadOf(command))
  BY <1>2 DEF BranchMissing, GetCommitPayload
<1>7. Merged = {}
  <2> DEFINE last(s) == IF force \/ isNew \/ s.type = "deleted" THEN 0 ELSE parent
  <2>1. \/ \E s \in Merged :
             \/ s.type = "created" <=> TreeAt(commits, Base)[s.path] # Absent
             \/ /\ s.type = "modified" /\ last(s) # 0
                /\ TreeAt(commits, last(s))[s.path] # TreeAt(commits, Base)[s.path]
        \/ Merged = {}
    <3> HIDE DEF name, isNew, parent, force
    <3> QED
      BY <1>2, <1>4, <1>6, AnswerMeans
  <2>2. \A s : last(s) = 0
    OBVIOUS
  <2> QED
    BY <1>1, <1>5, <2>1, <2>2
<1>8. \A f \in File : Amended[f] = command.snapshot[f]
  BY <1>4, <1>7
<1> QED
  BY <1>3, <1>8 DEF Tree

-----------------------------------------------------------------------------
(* The kinds of steps, and types. *)

Accepts ==
  /\ Posting /\ Answer(PayloadOf(command)) = "none"
  /\ commits' = Append(commits, Posted)
  /\ branches' = [branches EXCEPT ![command.selection.branchName] = Len(commits')]
  /\ command' = [command EXCEPT !.stage = "accepted",
                    !.before = branches[command.selection.branchName], !.commit = Len(commits')]
  /\ UNCHANGED <<pushable, ref, local, preference>>

Rejects ==
  /\ At("posting")
  /\ \E reason \in {"branch exists", "conflict", "forbidden", "other"} :
       /\ Reject(reason)
       /\ reason = "conflict" => Posting /\ Answer(PayloadOf(command)) = "conflict"

Pushes ==
  /\ \E b \in Branch, e \in Commit :
       /\ branches[b] # 0 /\ e.parent \in Shas(commits) /\ e.count = CountAt(commits, e.parent) + 1
       /\ commits' = Append(commits, e)
       /\ branches' = [branches EXCEPT ![b] = Len(commits')]
  /\ UNCHANGED <<pushable, ref, local, preference, command>>

LEMMA PostingIs ==
  ASSUME CommitTypeOK, RefHasCommit
  PROVE  /\ PostCommit => Accepts \/ Rejects
         /\ PostFails => Rejects
<1>1. ASSUME PostCommit
      PROVE  Accepts \/ Rejects
  <2>1. Posting
    BY <1>1 DEF PostCommit, Posting
  <2> DEFINE payload == PayloadOf(command)
  <2>2. \/ Answer(payload) # "none" /\ Reject(Answer(payload))
        \/ /\ Answer(payload) = "none"
           /\ commits' = Added(commits, branches, payload)
           /\ branches' = [branches EXCEPT ![payload.branch] = Len(commits')]
           /\ command' = [command EXCEPT !.stage = "accepted",
                             !.before = branches[payload.branch], !.commit = Len(commits')]
           /\ UNCHANGED <<pushable, ref, local, preference>>
    BY <1>1 DEF PostCommit
  <2>3. Answer(payload) \in {"none", "branch exists", "conflict"}
    BY DEF Answer
  <2>4. payload.branch = command.selection.branchName /\ Added(commits, branches, payload) = Append(commits, Posted)
    BY <2>1, BaseIs, PostedTyping
  <2> HIDE DEF payload
  <2>5. CASE Answer(payload) # "none" /\ Reject(Answer(payload))
    <3>1. Answer(payload) \in {"branch exists", "conflict", "forbidden", "other"}
      BY <2>3, <2>5
    <3>2. At("posting")
      BY <2>1 DEF Posting
    <3> QED
      BY <2>1, <2>5, <3>1, <3>2 DEF Rejects, payload
  <2>6. CASE Answer(payload) = "none" /\ ~ Reject(Answer(payload))
    <3>1. /\ commits' = Added(commits, branches, payload)
          /\ branches' = [branches EXCEPT ![payload.branch] = Len(commits')]
          /\ command' = [command EXCEPT !.stage = "accepted",
                            !.before = branches[payload.branch], !.commit = Len(commits')]
          /\ UNCHANGED <<pushable, ref, local, preference>>
      BY <2>2, <2>6
    <3> QED
      BY <2>1, <2>4, <2>6, <3>1 DEF Accepts, payload
  <2>7. CASE Answer(payload) = "none" /\ Reject(Answer(payload))
    <3>1. /\ commits' = Added(commits, branches, payload)
          /\ branches' = [branches EXCEPT ![payload.branch] = Len(commits')]
          /\ command' = [command EXCEPT !.stage = "accepted",
                            !.before = branches[payload.branch], !.commit = Len(commits')]
          /\ UNCHANGED <<pushable, ref, local, preference>>
      BY <2>2, <2>7
    <3> QED
      BY <2>1, <2>4, <2>7, <3>1 DEF Accepts, payload
  <2> QED
    BY <2>2, <2>5, <2>6, <2>7
<1>2. ASSUME PostFails
      PROVE  Rejects
  BY <1>2 DEF PostFails, Rejects
<1> QED
  BY <1>1, <1>2

LEMMA PushesIs ==
  ASSUME CommitTypeOK, NEW b \in Branch, NEW seen \in DOMAIN commits, NEW base \in DOMAIN commits,
         NEW f \in File, NEW c \in Pushed, OtherPushes(b, seen, base, f, c)
  PROVE  Pushes
<1> DEFINE tree == [TreeAt(commits, seen) EXCEPT ![f] = c]
           e == [parent |-> base, count |-> CountAt(commits, base) + 1,
                 tree |-> tree, author |-> "other"]
<1>1. /\ seen \in Shas(commits) /\ base \in Shas(commits) /\ base \in Nat
      /\ TreeAt(commits, seen) \in Tree /\ CountAt(commits, base) \in Nat
  <2>1. IsRepository(commits) /\ DOMAIN commits = 1 .. Len(commits) /\ Len(commits) \in Nat
    BY CommitsAreTyped DEF CommitTypeOK
  <2>2. seen \in Shas(commits) /\ base \in Shas(commits) /\ base \in Nat
    BY <2>1 DEF Shas
  <2> QED
    BY <2>1, <2>2, CommitsAreTyped
<1>2. c \in Content \union {Absent}
  BY ContentAssumption
<1>3. tree \in Tree
  BY <1>1, <1>2 DEF Tree
<1>4. /\ branches[b] # 0 /\ commits' = Append(commits, e)
      /\ branches' = [branches EXCEPT ![b] = Len(commits')]
      /\ UNCHANGED <<pushable, ref, local, preference, command>>
  BY DEF OtherPushes
<1> HIDE DEF tree
<1>5. e \in Commit /\ e.parent = base /\ e.count = CountAt(commits, base) + 1
  BY <1>1, <1>3 DEF Commit
<1> HIDE DEF e
<1> QED
  BY <1>1, <1>4, <1>5 DEF Pushes

LEMMA BegunTyping ==
  ASSUME CommitTypeOK, NEW mode \in Mode, NEW prompt \in BOOLEAN
  PROVE  Begun(mode, prompt) \in Running
<1> DEFINE stage == IF mode = "commit" THEN "choosing" ELSE "counting"
<1>1. /\ stage \in {"counting", "confirming", "choosing", "naming", "posting", "rejected", "accepted"}
      /\ local \in Tree /\ 0 \in Int /\ 0 \in Nat /\ FALSE \in BOOLEAN
      /\ NoBranch \in Selection \union {NoBranch}
      /\ "none" \in {"none", "branch exists", "conflict", "forbidden", "other"}
  BY DEF CommitTypeOK
<1> HIDE DEF stage
<1>2. [mode |-> mode, prompt |-> prompt, snapshot |-> local, stage |-> stage,
       difference |-> 0, counted |-> 0, confirmed |-> FALSE, selection |-> NoBranch,
       reason |-> "none", before |-> 0, commit |-> 0] \in Running
  BY <1>1, Zenon DEF Running
<1> QED
  BY <1>2, Zenon DEF Begun, stage

\* Steps of a command that leave the repository and what is checked out alone.
Talks ==
  \/ \E mode \in Mode, prompt \in BOOLEAN : Begin(mode, prompt)
  \/ CountDifference \/ CountFails \/ ConfirmForcePush
  \/ KeepBranch \/ ContinueOnDefault \/ CreateNewBranch
  \/ \E name \in Branch : PromptBranchName(name)
  \/ Cancel \/ CommitToNewBranch

LEMMA StepKinds ==
  ASSUME CommitTypeOK, RefHasCommit, [Next]_vars
  PROVE  \/ Talks \/ Accepts \/ Rejects \/ Reload \/ Pushes
         \/ \E f \in File, c \in Typed : Edit(f, c)
         \/ UNCHANGED vars
BY PostingIs, PushesIs DEF Next, Talks

\* What they make of the command.
LEMMA TalksTyping ==
  ASSUME CommitTypeOK, Talks
  PROVE  /\ UNCHANGED <<server, pushable, ref, local>> /\ preference' \in BOOLEAN
         /\ ~ At("accepted")
         /\ command' # Idle =>
              /\ command' \in Running
              /\ {command'.counted, command'.before, command'.commit} \subseteq Shas(commits)
              /\ command'.stage \in {"counting", "confirming", "choosing", "naming", "posting"}
              /\ command'.stage = "posting" => command'.selection \in Selection
<1> DEFINE Goal == /\ UNCHANGED <<server, pushable, ref, local>> /\ preference' \in BOOLEAN
                   /\ ~ At("accepted")
                   /\ command' # Idle =>
                        /\ command' \in Running
                        /\ {command'.counted, command'.before, command'.commit} \subseteq Shas(commits)
                        /\ command'.stage \in {"counting", "confirming", "choosing", "naming", "posting"}
                        /\ command'.stage = "posting" => command'.selection \in Selection
<1>1. /\ preference \in BOOLEAN /\ ref.sha \in Shas(commits) /\ 0 \in Shas(commits)
      /\ ref \in Ref
      /\ command # Idle =>
           command \in Running /\ {command.counted, command.before, command.commit} \subseteq Shas(commits)
  <2>1. Len(commits) \in Nat
    BY CommitsAreTyped DEF CommitTypeOK
  <2> QED
    BY <2>1 DEF CommitTypeOK, Shas
<1>2. ASSUME NEW mode \in Mode, NEW prompt \in BOOLEAN, command' = Begun(mode, prompt)
      PROVE  /\ command' \in Running
             /\ {command'.counted, command'.before, command'.commit} \subseteq Shas(commits)
             /\ command'.stage \in {"counting", "choosing"}
  <2>1. command' \in Running
    BY <1>2, BegunTyping
  <2> QED
    BY <1>1, <1>2, <2>1 DEF Begun
<1>3. ASSUME NEW mode \in Mode, NEW prompt \in BOOLEAN, Begin(mode, prompt)
      PROVE  Goal
  BY <1>1, <1>2, <1>3 DEF Begin, At
<1>4. CASE CountDifference
  <2> DEFINE head == IF ref.branch = NoBranch \/ ref.sha = 0 THEN ref.sha ELSE branches[ref.branch]
  <2>1. /\ At("counting") /\ UNCHANGED <<server, pushable, ref, local, preference>>
        /\ command' = [command EXCEPT !.stage = "confirming", !.counted = head,
                                      !.difference = Difference(head)]
    BY <1>4 DEF CountDifference
  <2>2. head \in Shas(commits) /\ head \in Nat
    BY <1>1, CommitsAreTyped DEF CommitTypeOK, Ref, Shas
  <2>3. Difference(head) \in Int
    <3>1. CountAt(commits, head) \in Nat /\ CountAt(commits, ref.sha) \in Nat
      BY <1>1, <2>2, CommitsAreTyped DEF CommitTypeOK
    <3> QED
      BY <3>1 DEF Difference
  <2> HIDE DEF head
  <2>4. command' \in Running
    BY <1>1, <2>1, <2>2, <2>3 DEF At, Running
  <2>5. command \in Running
    BY <1>1, <2>1 DEF At
  <2>6. command'.counted = head /\ command'.before = command.before /\ command'.commit = command.commit
        /\ command'.stage = "confirming"
    BY <2>1, <2>5 DEF Running
  <2> QED
    BY <1>1, <2>1, <2>2, <2>4, <2>6 DEF At
<1>5. ASSUME ConfirmForcePush \/ CountFails \/ CreateNewBranch
      PROVE  Goal
  <2>1. /\ command # Idle /\ command \in Running /\ command.stage \in {"counting", "confirming", "choosing"}
        /\ UNCHANGED <<server, pushable, ref, local, preference>>
    BY <1>1, <1>5 DEF ConfirmForcePush, CountFails, CreateNewBranch, At
  <2>2. \E yes \in BOOLEAN : yes = IsAnnounced(command)
    BY DEF IsAnnounced
  <2>3. command' \in Running
    <3>1. ASSUME NEW yes \in BOOLEAN,
                 command' = [command EXCEPT !.stage = "choosing", !.confirmed = yes]
          PROVE  command' \in Running
      BY <2>1, <3>1 DEF Running
    <3>2. CASE ConfirmForcePush
      BY <2>2, <3>1, <3>2, Zenon DEF ConfirmForcePush
    <3>3. CASE CountFails
      <4>1. PICK one \in Int : one = 1
        OBVIOUS
      <4>2. command' = [command EXCEPT !.stage = "confirming", !.difference = one]
        BY <3>3, <4>1, Zenon DEF CountFails
      <4> QED
        BY <2>1, <4>2 DEF Running
    <3>4. CASE CreateNewBranch
      <4>1. command' = [command EXCEPT !.stage = "naming"]
        BY <3>4 DEF CreateNewBranch, Goes
      <4> QED
        BY <2>1, <4>1 DEF Running
    <3> QED
      BY <1>5, <3>2, <3>3, <3>4
  <2>4. /\ command'.counted = command.counted /\ command'.before = command.before
        /\ command'.commit = command.commit /\ command'.stage \in {"confirming", "choosing", "naming"}
    BY <1>5, <2>1 DEF ConfirmForcePush, CountFails, CreateNewBranch, Goes, Running
  <2> QED
    BY <1>1, <2>1, <2>3, <2>4 DEF At
<1>6. ASSUME NEW name \in Branch, NEW isNew \in BOOLEAN, Select(name, isNew),
             At("choosing") \/ At("naming"), preference' \in BOOLEAN,
             UNCHANGED <<server, pushable, ref, local>>
      PROVE  Goal
  <2>1. [branchName |-> name, isNewBranch |-> isNew] \in Selection
    BY DEF Selection
  <2>2. command # Idle /\ command \in Running /\ command.stage \in {"choosing", "naming"}
    BY <1>1, <1>6 DEF At
  <2>3. command' = [command EXCEPT !.stage = "posting",
                      !.selection = [branchName |-> name, isNewBranch |-> isNew]]
    BY <1>6 DEF Select
  <2>4. command' \in Running
    BY <2>1, <2>2, <2>3 DEF Running
  <2>5. /\ command'.counted = command.counted /\ command'.before = command.before
        /\ command'.commit = command.commit /\ command'.stage = "posting"
        /\ command'.selection \in Selection
    BY <2>1, <2>2, <2>3 DEF Running
  <2> QED
    BY <1>1, <1>6, <2>2, <2>4, <2>5 DEF At
<1>7. ASSUME KeepBranch \/ ContinueOnDefault
      PROVE  Goal
  <2>1. ref.branch \in Branch
    BY <1>1, <1>7 DEF KeepBranch, ContinueOnDefault, AsksForPreference, MustName, Ref
  <2>2. /\ Select(ref.branch, FALSE) /\ At("choosing") /\ preference' \in BOOLEAN
        /\ UNCHANGED <<server, pushable, ref, local>>
    BY <1>1, <1>7 DEF KeepBranch, ContinueOnDefault
  <2> QED
    BY <1>6, <2>1, <2>2
<1>8. ASSUME NEW name \in Branch, PromptBranchName(name)
      PROVE  Goal
  BY <1>1, <1>6, <1>8 DEF PromptBranchName
<1>9. CASE Cancel
  BY <1>1, <1>9 DEF Cancel, At
<1>10. CASE CommitToNewBranch
  <2>1. PICK prompt \in BOOLEAN : prompt = TRUE
    OBVIOUS
  <2>2. /\ At("rejected") /\ UNCHANGED <<server, pushable, ref, local, preference>>
        /\ command' = Begun("commit", prompt) \/ command' = Idle
    BY <1>10, <2>1, Zenon DEF CommitToNewBranch
  <2>3. "commit" \in Mode
    BY DEF Mode
  <2>4. CASE command' = Idle
    BY <1>1, <2>2, <2>4 DEF At
  <2>5. CASE command' = Begun("commit", prompt)
    <3>1. /\ command' \in Running
          /\ {command'.counted, command'.before, command'.commit} \subseteq Shas(commits)
          /\ command'.stage \in {"counting", "choosing"}
      BY <1>2, <2>3, <2>5
    <3> QED
      BY <1>1, <2>2, <3>1 DEF At
  <2> QED
    BY <2>2, <2>4, <2>5
<1> QED
  BY <1>3, <1>4, <1>5, <1>7, <1>8, <1>9, <1>10, Zenon DEF Talks

\* A branch gets a new commit.
LEMMA BranchGrows ==
  ASSUME CommitTypeOK, NEW b \in Branch, NEW e \in Commit,
         e.parent \in Shas(commits), e.count = CountAt(commits, e.parent) + 1,
         commits' = Append(commits, e), branches' = [branches EXCEPT ![b] = Len(commits')]
  PROVE  /\ IsRepository(commits') /\ branches' \in [Branch -> Shas(commits')]
         /\ Len(commits) + 1 \in Nat /\ Len(commits) + 1 # 0 /\ Len(commits) + 1 \in Shas(commits')
         /\ commits'[Len(commits) + 1] = e /\ Len(commits') = Len(commits) + 1
         /\ branches'[b] = Len(commits) + 1
         /\ \A c \in Branch : c # b => branches'[c] = branches[c]
         /\ \A c \in Branch : branches[c] # 0 => branches'[c] # 0
         /\ \A s \in DOMAIN commits : commits'[s] = commits[s]
         /\ \A s \in Shas(commits) :
              /\ s \in Shas(commits')
              /\ TreeAt(commits', s) = TreeAt(commits, s)
              /\ CountAt(commits', s) = CountAt(commits, s)
              /\ ParentOf(commits', s) = ParentOf(commits, s)
              /\ History(commits', s) = History(commits, s)
<1>1. IsRepository(commits) /\ branches \in [Branch -> Shas(commits)]
  BY DEF CommitTypeOK
<1>2. Len(commits) \in Nat
  BY <1>1, CommitsAreTyped
<1>3. /\ IsRepository(commits') /\ Len(commits') = Len(commits) + 1 /\ commits'[Len(commits) + 1] = e
      /\ \A s \in DOMAIN commits : commits'[s] = commits[s]
      /\ \A s \in Shas(commits) :
              /\ s \in Shas(commits')
              /\ TreeAt(commits', s) = TreeAt(commits, s)
              /\ CountAt(commits', s) = CountAt(commits, s)
              /\ ParentOf(commits', s) = ParentOf(commits, s)
              /\ History(commits', s) = History(commits, s)
  <2>1. commits' = Append(commits, e)
    OBVIOUS
  <2> QED
    BY <1>1, <2>1, NewCommit
<1>4. Len(commits) + 1 \in Nat /\ Len(commits) + 1 # 0 /\ Len(commits) + 1 \in Shas(commits')
  BY <1>2, <1>3 DEF Shas
<1>5. branches' \in [Branch -> Shas(commits')]
  BY <1>1, <1>3, <1>4
<1>6. /\ branches'[b] = Len(commits) + 1
      /\ \A c \in Branch : c # b => branches'[c] = branches[c]
  BY <1>1, <1>3
<1> QED
  BY <1>3, <1>4, <1>5, <1>6

LEMMA AcceptsGrows ==
  ASSUME CommitTypeOK, Accepts
  PROVE  /\ Posted \in Commit /\ Posted.parent = Base /\ Base \in Shas(commits)
         /\ Posted.count = CountAt(commits, Posted.parent) + 1
         /\ commits' = Append(commits, Posted)
         /\ command.selection.branchName \in Branch
         /\ command # Idle /\ command \in Running /\ command.stage = "posting"
         /\ command' = [command EXCEPT !.stage = "accepted",
                           !.before = branches[command.selection.branchName], !.commit = Len(commits')]
         /\ branches' = [branches EXCEPT ![command.selection.branchName] = Len(commits')]
         /\ branches[command.selection.branchName] \in Shas(commits)
         /\ UNCHANGED <<pushable, ref, local, preference>>
BY PostingTyping, PostedTyping, BaseIs DEF Accepts

\* The command that was accepted, field by field.
LEMMA AcceptedCommand ==
  ASSUME CommitTypeOK, Accepts
  PROVE  /\ command' \in Running /\ command'.stage = "accepted"
         /\ command'.mode = command.mode /\ command'.snapshot = command.snapshot
         /\ command'.counted = command.counted /\ command'.confirmed = command.confirmed
         /\ command'.difference = command.difference
         /\ command'.selection = command.selection
         /\ command'.before = branches[command.selection.branchName]
         /\ command'.commit = Len(commits) + 1
<1>1. /\ command \in Running /\ branches[command.selection.branchName] \in Nat
      /\ Len(commits') \in Nat /\ Len(commits') = Len(commits) + 1
      /\ command' = [command EXCEPT !.stage = "accepted",
                           !.before = branches[command.selection.branchName], !.commit = Len(commits')]
  BY AcceptsGrows, BranchGrows DEF Shas
<1> DEFINE b == branches[command.selection.branchName]
           n == Len(commits')
<1>2. b \in Nat /\ n \in Nat /\ command' = [command EXCEPT !.stage = "accepted", !.before = b, !.commit = n]
  BY <1>1
<1> HIDE DEF b, n
<1>3. /\ command' \in Running /\ command'.stage = "accepted"
      /\ command'.mode = command.mode /\ command'.snapshot = command.snapshot
      /\ command'.counted = command.counted /\ command'.confirmed = command.confirmed
      /\ command'.difference = command.difference
      /\ command'.selection = command.selection
      /\ command'.before = b /\ command'.commit = n
  BY <1>1, <1>2 DEF Running
<1> QED
  BY <1>1, <1>3 DEF b, n

LEMMA PushGrows ==
  ASSUME CommitTypeOK, Pushes
  PROVE  \E b \in Branch, e \in Commit :
           /\ branches[b] # 0 /\ branches[b] \in Shas(commits)
           /\ e.parent \in Shas(commits) /\ e.count = CountAt(commits, e.parent) + 1
           /\ commits' = Append(commits, e)
           /\ branches' = [branches EXCEPT ![b] = Len(commits')]
BY DEF Pushes, CommitTypeOK

LEMMA TypeStep ==
  ASSUME CommitTypeOK, RefHasCommit, [Next]_vars
  PROVE  CommitTypeOK'
<1>1. CASE Talks
  BY <1>1, TalksTyping DEF CommitTypeOK, server
<1>2. CASE Accepts
  <2>1. /\ IsRepository(commits') /\ branches' \in [Branch -> Shas(commits')]
        /\ Len(commits) + 1 # 0 /\ Len(commits) + 1 \in Shas(commits')
        /\ branches'[command.selection.branchName] = Len(commits) + 1
        /\ \A s \in Shas(commits) : s \in Shas(commits')
    BY <1>2, AcceptsGrows, BranchGrows
  <2>2. /\ command' \in Running /\ command'.stage = "accepted"
        /\ command'.counted = command.counted /\ command'.selection = command.selection
        /\ command'.before = branches[command.selection.branchName]
        /\ command'.commit = Len(commits) + 1
    BY <1>2, AcceptedCommand
  <2>3. command.counted \in Shas(commits) /\ command.selection \in Selection
        /\ branches[command.selection.branchName] \in Shas(commits)
    BY <1>2, AcceptsGrows DEF CommitTypeOK
  <2>4. UNCHANGED <<pushable, ref, local, preference>>
    BY <1>2 DEF Accepts
  <2> QED
    BY <2>1, <2>2, <2>3, <2>4 DEF CommitTypeOK
<1>3. CASE Rejects
  <2>1. PICK reason \in {"branch exists", "conflict", "forbidden", "other"} :
          command' = [command EXCEPT !.stage = "rejected", !.reason = reason]
    BY <1>3 DEF Rejects, Reject
  <2>2. command # Idle /\ command \in Running /\ UNCHANGED <<server, pushable, ref, local, preference>>
    BY <1>3 DEF Rejects, Reject, At, CommitTypeOK
  <2>3. /\ command' \in Running /\ command'.stage = "rejected" /\ command'.counted = command.counted
        /\ command'.before = command.before /\ command'.commit = command.commit
    BY <2>1, <2>2 DEF Running
  <2> QED
    BY <2>2, <2>3 DEF CommitTypeOK, server
<1>4. CASE Reload
  <2>1. /\ command # Idle /\ command.selection \in Selection
        /\ ref' = [branch |-> command.selection.branchName, sha |-> branches[command.selection.branchName]]
        /\ local' = TreeAt(commits, ref'.sha) /\ command' = Idle
        /\ UNCHANGED <<server, pushable, preference>>
    BY <1>4 DEF Reload, At, CommitTypeOK
  <2>2. ref'.sha = branches[command.selection.branchName]
    BY <2>1
  <2>3. branches[command.selection.branchName] \in Shas(commits) /\ command.selection.branchName \in Branch
    BY <2>1 DEF CommitTypeOK, Selection
  <2>4. ref' \in Ref
    BY <2>1, <2>3 DEF Ref, Shas
  <2>5. local' \in Tree
    BY <2>1, <2>2, <2>3, CommitsAreTyped DEF CommitTypeOK
  <2> QED
    BY <2>1, <2>2, <2>3, <2>4, <2>5 DEF CommitTypeOK, server
<1>5. CASE Pushes
  <2>1. PICK b \in Branch, e \in Commit :
           /\ branches[b] # 0 /\ branches[b] \in Shas(commits)
           /\ e.parent \in Shas(commits) /\ e.count = CountAt(commits, e.parent) + 1
           /\ commits' = Append(commits, e)
           /\ branches' = [branches EXCEPT ![b] = Len(commits')]
    BY <1>5, PushGrows
  <2>2. e.parent \in Shas(commits)
    BY <2>1
  <2>3. /\ IsRepository(commits') /\ branches' \in [Branch -> Shas(commits')]
        /\ \A c \in Branch : branches[c] # 0 => branches'[c] # 0
        /\ \A s \in Shas(commits) : s \in Shas(commits')
    BY <2>1, <2>2, BranchGrows
  <2>4. UNCHANGED <<pushable, ref, local, preference, command>>
    BY <1>5 DEF Pushes
  <2>5. command # Idle /\ command.stage = "accepted" => command.selection.branchName \in Branch
    BY DEF CommitTypeOK, Selection
  <2> QED
    BY <2>3, <2>4, <2>5 DEF CommitTypeOK
<1>6. ASSUME NEW f \in File, NEW c \in Typed, Edit(f, c)
      PROVE  CommitTypeOK'
  <2>1. c \in Content \union {Absent}
    BY ContentAssumption
  <2>2. local' = [local EXCEPT ![f] = c] /\ UNCHANGED <<server, pushable, ref, preference, command>>
    BY <1>6 DEF Edit
  <2>3. local' \in Tree
    BY <2>1, <2>2 DEF CommitTypeOK, Tree
  <2> QED
    BY <2>2, <2>3 DEF CommitTypeOK, server
<1>7. CASE UNCHANGED vars
  BY <1>7 DEF CommitTypeOK, vars, server
<1> QED
  BY <1>1, <1>2, <1>3, <1>4, <1>5, <1>6, <1>7, StepKinds

-----------------------------------------------------------------------------
(* What is announced. *)

LEMMA RefStep ==
  ASSUME CommitTypeOK, RefHasCommit, [Next]_vars
  PROVE  RefHasCommit'
<1>1. CASE Talks
  <2>1. ~ At("accepted") /\ UNCHANGED <<server, ref>>
    BY <1>1, TalksTyping
  <2> QED
    BY <2>1 DEF RefHasCommit, server
<1>2. CASE Accepts
  <2>1. command' \in Running /\ command'.stage = "accepted"
    BY <1>2, AcceptedCommand
  <2> QED
    BY <2>1, IdleAssumption DEF RefHasCommit, At
<1>3. CASE Rejects
  <2>1. At("posting") /\ UNCHANGED <<server, ref>>
    BY <1>3 DEF Rejects, Reject
  <2> QED
    BY <2>1 DEF RefHasCommit, server, At
<1>4. CASE Reload
  <2> DEFINE name == command.selection.branchName
  <2>1. branches[name] # 0 /\ ref' = [branch |-> name, sha |-> branches[name]]
    BY <1>4 DEF Reload, At, CommitTypeOK
  <2> QED
    BY <2>1 DEF RefHasCommit
<1>5. CASE Pushes
  <2>1. PICK b \in Branch : branches[b] # 0 /\ branches[b] \in Shas(commits)
    BY <1>5, PushGrows
  <2>2. commits # <<>>
    BY <2>1 DEF Shas
  <2>3. ref' = ref /\ command' = command
    BY <1>5 DEF Pushes
  <2> QED
    BY <2>2, <2>3 DEF RefHasCommit, At
<1>6. ASSUME NEW f \in File, NEW c \in Typed, Edit(f, c)
      PROVE  RefHasCommit'
  BY <1>6 DEF Edit, RefHasCommit, server, At
<1>7. CASE UNCHANGED vars
  BY <1>7 DEF RefHasCommit, vars, server, At
<1> QED
  BY <1>1, <1>2, <1>3, <1>4, <1>5, <1>6, <1>7, StepKinds

\* Commits that are added change no number of those there are.
LEMMA CountsStay ==
  ASSUME CommitTypeOK, Accepts \/ Pushes
  PROVE  \A s \in Shas(commits) : CountAt(commits', s) = CountAt(commits, s)
<1>1. CASE Accepts
  BY <1>1, AcceptsGrows, BranchGrows
<1>2. CASE Pushes
  <2>1. PICK b \in Branch, e \in Commit :
           /\ e.parent \in Shas(commits) /\ e.count = CountAt(commits, e.parent) + 1
           /\ commits' = Append(commits, e)
           /\ branches' = [branches EXCEPT ![b] = Len(commits')]
    BY <1>2, PushGrows
  <2> QED
    BY <2>1, BranchGrows
<1> QED
  BY <1>1, <1>2

\* Nothing else that is told of a command changes with its stage.
LEMMA ToldAlike ==
  ASSUME CommitTypeOK, command # Idle, IsTold(command),
         command.stage \notin {"counting", "confirming"},
         command'.stage \notin {"counting", "confirming"},
         command'.mode = command.mode, command'.difference = command.difference,
         command'.counted = command.counted, command'.confirmed = command.confirmed,
         ref' = ref, \A s \in Shas(commits) : CountAt(commits', s) = CountAt(commits, s)
  PROVE  IsTold(command)'
<1>1. command.counted \in Shas(commits) /\ ref.sha \in Shas(commits)
  BY DEF CommitTypeOK
<1>2. DifferenceIsCounted(command) => DifferenceIsCounted(command)'
  BY <1>1 DEF DifferenceIsCounted
<1>3. IsAnnounced(command') = IsAnnounced(command)
  BY DEF IsAnnounced
<1>4. CASE command.mode = "commit"
  BY <1>4 DEF IsTold
<1>5. CASE command.mode # "commit"
  <2>1. DifferenceIsCounted(command) /\ command.confirmed = IsAnnounced(command)
    BY <1>5 DEF IsTold
  <2>2. DifferenceIsCounted(command)' /\ command'.confirmed = IsAnnounced(command')
    BY <1>2, <1>3, <2>1
  <2> QED
    BY <1>5, <2>2 DEF IsTold
<1> QED
  BY <1>4, <1>5

\* When others' or the user's own steps leave the command.
LEMMA ToldStays ==
  ASSUME CommitTypeOK, CommandIsTold, UNCHANGED <<ref, command>>,
         \A s \in Shas(commits) : CountAt(commits', s) = CountAt(commits, s)
  PROVE  CommandIsTold'
<1> SUFFICES ASSUME command # Idle PROVE IsTold(command)'
  BY DEF CommandIsTold
<1>1. command.counted \in Shas(commits) /\ ref.sha \in Shas(commits) /\ IsTold(command)
  BY DEF CommitTypeOK, CommandIsTold
<1>2. DifferenceIsCounted(command) => DifferenceIsCounted(command)'
  BY <1>1 DEF DifferenceIsCounted
<1>3. IsAnnounced(command') = IsAnnounced(command)
  OBVIOUS
<1> QED
  BY <1>1, <1>2, <1>3 DEF IsTold

LEMMA ToldStep ==
  ASSUME CommitTypeOK, RefHasCommit, CommandIsTold, [Next]_vars
  PROVE  CommandIsTold'
<1> DEFINE same == \A s \in Shas(commits) : CountAt(commits', s) = CountAt(commits, s)
<1>1. CASE Talks
  <2>1. ref' = ref /\ commits' = commits
    BY <1>1, TalksTyping DEF server
  <2>2. command # Idle => command \in Running /\ IsTold(command)
    BY DEF CommitTypeOK, CommandIsTold
  <2>3. ASSUME NEW mode \in Mode, NEW prompt \in BOOLEAN, command' = Begun(mode, prompt)
        PROVE  CommandIsTold'
    <3>1. /\ command'.mode = mode /\ command'.counted = 0 /\ command'.confirmed = FALSE
          /\ command'.stage = IF mode = "commit" THEN "choosing" ELSE "counting"
      BY <2>3 DEF Begun
    <3> QED
      BY <3>1 DEF CommandIsTold, IsTold
  <2>4. ASSUME NEW mode \in Mode, NEW prompt \in BOOLEAN, Begin(mode, prompt)
        PROVE  CommandIsTold'
    BY <2>3, <2>4 DEF Begin
  <2>5. CASE CountDifference
    <3> DEFINE head == IF ref.branch = NoBranch \/ ref.sha = 0 THEN ref.sha ELSE branches[ref.branch]
               difference == Difference(head)
    <3>1. /\ command # Idle /\ command.stage = "counting"
          /\ command' = [command EXCEPT !.stage = "confirming", !.counted = head,
                                      !.difference = difference]
      BY <2>5 DEF CountDifference, At
    <3>2. difference = CountAt(commits, head) - CountAt(commits, ref.sha)
      BY DEF Difference
    <3> HIDE DEF head, difference
    <3>3. /\ command'.stage = "confirming" /\ command'.counted = head
          /\ command'.difference = difference /\ command'.mode = command.mode
      BY <2>2, <3>1 DEF Running
    <3>4. DifferenceIsCounted(command)'
      BY <2>1, <3>2, <3>3 DEF DifferenceIsCounted
    <3>5. command.mode # "commit"
      BY <2>2, <3>1 DEF IsTold
    <3> QED
      BY <3>3, <3>4, <3>5 DEF CommandIsTold, IsTold
  <2>6. CASE CountFails
    <3>1. /\ command # Idle /\ command.stage = "counting"
          /\ command' = [command EXCEPT !.stage = "confirming", !.difference = 1]
      BY <2>6 DEF CountFails, At
    <3>2. /\ command'.stage = "confirming" /\ command'.difference = 1
          /\ command'.counted = command.counted /\ command'.mode = command.mode
      BY <2>2, <3>1 DEF Running
    <3>3. command.mode # "commit" /\ command.counted = 0
      BY <2>2, <3>1 DEF IsTold
    <3> QED
      BY <3>2, <3>3 DEF CommandIsTold, IsTold, DifferenceIsCounted
  <2>7. CASE ConfirmForcePush
    <3>1. PICK yes \in BOOLEAN : yes = IsAnnounced(command)
      BY DEF IsAnnounced
    <3>2. /\ command # Idle /\ command.stage = "confirming"
          /\ command' = [command EXCEPT !.stage = "choosing", !.confirmed = yes]
      BY <2>7, <3>1, Zenon DEF ConfirmForcePush, At
    <3>3. /\ command'.stage = "choosing" /\ command'.mode = command.mode
          /\ command'.counted = command.counted /\ command'.difference = command.difference
          /\ command'.confirmed = yes
      BY <2>2, <3>2 DEF Running
    <3>4. command.mode # "commit" /\ DifferenceIsCounted(command)
      BY <2>2, <3>2 DEF IsTold
    <3>5. DifferenceIsCounted(command)'
      BY <2>1, <3>3, <3>4 DEF DifferenceIsCounted
    <3>6. IsAnnounced(command') = IsAnnounced(command)
      BY <3>3 DEF IsAnnounced
    <3> QED
      BY <3>1, <3>3, <3>4, <3>5, <3>6 DEF CommandIsTold, IsTold
  <2>8. ASSUME NEW name, NEW isNew, Select(name, isNew), At("choosing") \/ At("naming")
        PROVE  CommandIsTold'
    <3>1. /\ command # Idle /\ command.stage \in {"choosing", "naming"}
          /\ command' = [command EXCEPT !.stage = "posting",
                           !.selection = [branchName |-> name, isNewBranch |-> isNew]]
      BY <2>8 DEF Select, At
    <3>2. /\ command'.stage = "posting" /\ command'.mode = command.mode
          /\ command'.difference = command.difference
          /\ command'.counted = command.counted /\ command'.confirmed = command.confirmed
      BY <2>2, <3>1 DEF Running
    <3>3. IsTold(command)'
      BY <2>1, <2>2, <3>1, <3>2, ToldAlike
    <3> QED
      BY <3>3 DEF CommandIsTold
  <2>9. ASSUME NEW name \in Branch, PromptBranchName(name)
        PROVE  CommandIsTold'
    BY <2>8, <2>9 DEF PromptBranchName
  <2>10. CASE KeepBranch \/ ContinueOnDefault
    BY <2>8, <2>10 DEF KeepBranch, ContinueOnDefault
  <2>11. CASE CreateNewBranch
    <3>1. /\ command # Idle /\ command.stage = "choosing"
          /\ command' = [command EXCEPT !.stage = "naming"]
      BY <2>11 DEF CreateNewBranch, Goes, At
    <3>2. /\ command'.stage = "naming" /\ command'.mode = command.mode
          /\ command'.difference = command.difference
          /\ command'.counted = command.counted /\ command'.confirmed = command.confirmed
      BY <2>2, <3>1 DEF Running
    <3>3. IsTold(command)'
      BY <2>1, <2>2, <3>1, <3>2, ToldAlike
    <3> QED
      BY <3>3 DEF CommandIsTold
  <2>12. CASE Cancel
    BY <2>12 DEF Cancel, CommandIsTold
  <2>13. CASE CommitToNewBranch
    <3>1. PICK prompt \in BOOLEAN : prompt = TRUE
      OBVIOUS
    <3>2. command' = Begun("commit", prompt) \/ command' = Idle
      BY <2>13, <3>1, Zenon DEF CommitToNewBranch
    <3>3. "commit" \in Mode
      BY DEF Mode
    <3>4. CASE command' = Idle
      BY <3>4 DEF CommandIsTold
    <3> QED
      BY <2>3, <3>2, <3>3, <3>4
  <2> QED
    BY <1>1, <2>4, <2>5, <2>6, <2>7, <2>9, <2>10, <2>11, <2>12, <2>13, Zenon DEF Talks
<1>2. CASE Accepts
  <2>1. /\ command # Idle /\ command.stage = "posting" /\ ref' = ref
        /\ command'.stage = "accepted" /\ command'.mode = command.mode
        /\ command'.difference = command.difference
        /\ command'.counted = command.counted /\ command'.confirmed = command.confirmed
    BY <1>2, AcceptedCommand, AcceptsGrows
  <2>2. same
    BY <1>2, CountsStay
  <2>3. IsTold(command)'
    BY <2>1, <2>2, ToldAlike DEF CommandIsTold
  <2> QED
    BY <2>3 DEF CommandIsTold
<1>3. CASE Rejects
  <2>1. PICK reason \in {"branch exists", "conflict", "forbidden", "other"} :
          command' = [command EXCEPT !.stage = "rejected", !.reason = reason]
    BY <1>3 DEF Rejects, Reject
  <2>2. /\ command # Idle /\ command \in Running /\ command.stage = "posting"
        /\ ref' = ref /\ commits' = commits
    BY <1>3 DEF Rejects, Reject, At, CommitTypeOK, server
  <2>3. /\ command'.stage = "rejected" /\ command'.mode = command.mode
        /\ command'.difference = command.difference
        /\ command'.counted = command.counted /\ command'.confirmed = command.confirmed
    BY <2>1, <2>2 DEF Running
  <2>4. IsTold(command)'
    BY <2>2, <2>3, ToldAlike DEF CommandIsTold
  <2> QED
    BY <2>4 DEF CommandIsTold
<1>4. CASE Reload
  BY <1>4 DEF Reload, CommandIsTold
<1>5. CASE Pushes
  <2>1. UNCHANGED <<ref, command>> /\ same
    BY <1>5, CountsStay DEF Pushes
  <2> QED
    BY <2>1, ToldStays
<1>6. ASSUME NEW f \in File, NEW c \in Typed, Edit(f, c)
      PROVE  UNCHANGED <<commits, ref, command>>
  BY <1>6 DEF Edit, server
<1>7. UNCHANGED vars => UNCHANGED <<commits, ref, command>>
  BY DEF vars, server
<1>8. UNCHANGED <<commits, ref, command>> => CommandIsTold'
  BY ToldStays
<1> QED
  BY <1>1, <1>2, <1>3, <1>4, <1>5, <1>6, <1>7, <1>8, StepKinds

\* The commits that a push takes from under what was counted are as many as were
\* announced, but for those that others took from under what is checked out.
LEMMA TakenIsAnnounced ==
  ASSUME Posting, CommandIsTold, ~ command.selection.isNewBranch,
         NEW tip \in Shas(commits), command.mode = "commit" => tip = Base
  PROVE  Cardinality(Discarded(commits, tip, Base) \intersect History(commits, command.counted))
           <= Announced(command) + Cardinality(Discarded(commits, ref.sha, command.counted))
<1> DEFINE A == History(commits, command.counted)
           B == History(commits, ref.sha)
           C == History(commits, Base)
           D == (History(commits, tip) \ C) \intersect A
<1>1. /\ IsRepository(commits) /\ command.counted \in Shas(commits) /\ ref.sha \in Shas(commits)
      /\ command \in Running /\ command # Idle /\ command.stage = "posting"
  BY DEF Posting, CommitTypeOK, At
<1>2. command.mode \in {"commit", "force", "amend"} /\ command.difference \in Int
      /\ command.confirmed \in BOOLEAN
  BY <1>1 DEF Running, Mode
<1>3. IsFiniteSet(A) /\ Cardinality(A) = CountAt(commits, command.counted)
  BY <1>1, HistoryCount
<1>4. IsFiniteSet(B) /\ Cardinality(B) = CountAt(commits, ref.sha)
  BY <1>1, HistoryCount
<1>5. IsTold(command)
  BY <1>1 DEF CommandIsTold
<1>6. D \in SUBSET (A \ C)
  OBVIOUS
<1>7. command.counted = 0 => A = {}
  BY <1>1, HistoryOf
<1>8. Cardinality(A) \in Nat /\ Cardinality(B) \in Nat /\ Cardinality(B \ A) \in Nat
  BY <1>3, <1>4, FS_CardinalityType, FS_Difference
<1>9. CASE command.mode = "commit"
  <2>1. D = {}
    BY <1>9
  <2>2. Announced(command) = 0
    BY <1>1, <1>5, <1>9 DEF IsTold, Announced
  <2> HIDE DEF A, B, C, D
  <2>3. Cardinality(D) = 0
    BY <2>1, FS_EmptySet
  <2>4. Cardinality(D) <= Announced(command) + Cardinality(B \ A)
    BY <1>8, <2>2, <2>3
  <2> QED
    BY <2>4 DEF Discarded, A, B, C, D
<1>10. command.mode # "commit" => DifferenceIsCounted(command) /\ command.confirmed = IsAnnounced(command)
  BY <1>1, <1>5 DEF IsTold
<1>11. CASE command.mode = "force"
  <2>1. C = B
    BY <1>11, BaseIs
  <2>2. Announced(command) = command.difference
    BY <1>2, <1>10, <1>11 DEF Announced, IsAnnounced
  <2> HIDE DEF A, B, C, D
  <2>3. Cardinality(D) \in Nat /\ Cardinality(D) <= Cardinality(A) - Cardinality(B) + Cardinality(B \ A)
    BY <1>3, <1>4, <1>6, <2>1, DifferenceByNumber
  <2>4. Cardinality(D) <= command.difference + Cardinality(B \ A)
    <3>1. CASE command.difference = CountAt(commits, command.counted) - CountAt(commits, ref.sha)
      BY <1>3, <1>4, <2>3, <3>1
    <3>2. CASE command.counted = 0 /\ command.difference = 1
      <4>1. D = {}
        BY <1>6, <1>7, <3>2
      <4>2. Cardinality(D) = 0
        BY <4>1, FS_EmptySet
      <4> QED
        BY <1>8, <3>2, <4>2
    <3> QED
      BY <1>10, <1>11, <3>1, <3>2 DEF DifferenceIsCounted
  <2> QED
    BY <2>2, <2>4 DEF Discarded, A, B, C, D
<1>12. CASE command.mode = "amend"
  <2>1. Base = IF ParentOf(commits, ref.sha) = 0 THEN ref.sha ELSE ParentOf(commits, ref.sha)
    BY <1>12, BaseIs
  <2>2. ref.sha # 0
    BY <1>12 DEF Posting
  <2>3. B \ {ref.sha} \subseteq C
    <3>1. B = {ref.sha} \union History(commits, commits[ref.sha].parent)
      BY <1>1, <2>2, HistoryOf
    <3>2. ParentOf(commits, ref.sha) = commits[ref.sha].parent
      BY <2>2 DEF ParentOf
    <3> QED
      BY <2>1, <3>1, <3>2
  <2>4. Announced(command) = command.difference + 1
    BY <1>2, <1>10, <1>12 DEF Announced, IsAnnounced
  <2>5. D \in SUBSET (A \ (B \ {ref.sha}))
    BY <1>6, <2>3
  <2> HIDE DEF A, B, C, D
  <2>6. Cardinality(D) \in Nat /\ Cardinality(D) <= Cardinality(A) - Cardinality(B) + Cardinality(B \ A) + 1
    BY <1>3, <1>4, <2>5, DifferenceButOne
  <2>7. Cardinality(D) <= command.difference + 1 + Cardinality(B \ A)
    <3>1. CASE command.difference = CountAt(commits, command.counted) - CountAt(commits, ref.sha)
      BY <1>3, <1>4, <1>8, <2>6, <3>1
    <3>2. CASE command.counted = 0 /\ command.difference = 1
      <4>1. D = {}
        BY <1>6, <1>7, <3>2
      <4>2. Cardinality(D) = 0
        BY <4>1, FS_EmptySet
      <4> QED
        BY <1>8, <3>2, <4>2
    <3> QED
      BY <1>10, <1>12, <3>1, <3>2 DEF DifferenceIsCounted
  <2> QED
    BY <2>4, <2>7 DEF Discarded, A, B, C, D
<1> QED
  BY <1>2, <1>9, <1>11, <1>12

-----------------------------------------------------------------------------
(* What is committed. *)

CommitSafety ==
  CommitIsWhatWasSeen /\ OthersChangesSurvive /\ OverwriteIsCounted /\ AmendIsRefusedOnlyIf

\* Nothing is claimed of a command that has not been answered.
LEMMA UnansweredIsSafe ==
  ASSUME ~ At("accepted"), ~ At("rejected")
  PROVE  CommitSafety
BY DEF CommitSafety, CommitIsWhatWasSeen, OthersChangesSurvive, OverwriteIsCounted,
       AmendIsRefusedOnlyIf

LEMMA AcceptsIsSafe ==
  ASSUME CommitTypeOK, RefHasCommit, CommandIsTold, Accepts
  PROVE  CommitSafety'
<1> DEFINE name == command.selection.branchName
           isNew == command.selection.isNewBranch
           new == commits'[command'.commit]
<1>1. /\ Posted \in Commit /\ Posted.parent = Base /\ Base \in Shas(commits)
      /\ branches[name] \in Shas(commits)
      /\ command # Idle /\ command \in Running /\ command.stage = "posting" /\ ref' = ref
      /\ commits'[Len(commits) + 1] = Posted
      /\ \A s \in Shas(commits) :
           /\ TreeAt(commits', s) = TreeAt(commits, s)
           /\ ParentOf(commits', s) = ParentOf(commits, s)
           /\ History(commits', s) = History(commits, s)
  BY AcceptsGrows, BranchGrows
<1>2. /\ command' \in Running /\ command'.stage = "accepted"
      /\ command'.mode = command.mode /\ command'.snapshot = command.snapshot
      /\ command'.counted = command.counted /\ command'.confirmed = command.confirmed
      /\ command'.difference = command.difference
      /\ command'.selection = command.selection
      /\ command'.before = branches[name] /\ command'.commit = Len(commits) + 1
  BY AcceptedCommand
<1>3. new = Posted
  BY <1>1, <1>2
<1>4. ref.sha \in Shas(commits) /\ command.counted \in Shas(commits)
      /\ command.mode \in {"commit", "force", "amend"}
      /\ isNew \in BOOLEAN
  BY <1>1 DEF CommitTypeOK, Running, Mode, Selection
<1>5. /\ TreeAt(commits', ref'.sha) = Seen /\ ParentOf(commits', ref'.sha) = ParentOf(commits, ref.sha)
      /\ TreeAt(commits', command'.before) = Tip
  BY <1>1, <1>2, <1>4 DEF Seen, Tip
<1>6. Posting /\ Answer(PayloadOf(command)) = "none"
  BY DEF Accepts
<1>7. (At("accepted") /\ ~ AmendsFirst)' =>
        /\ \A f \in File : Posted.tree[f] =
              IF command.mode = "commit" /\ ~ isNew /\ command.snapshot[f] = Seen[f]
              THEN Tip[f] ELSE command.snapshot[f]
        /\ command.mode = "amend" => Posted.parent = ParentOf(commits, ref.sha)
  <2> SUFFICES ASSUME (~ AmendsFirst)'
               PROVE  /\ \A f \in File : Posted.tree[f] =
                           IF command.mode = "commit" /\ ~ isNew /\ command.snapshot[f] = Seen[f]
                           THEN Tip[f] ELSE command.snapshot[f]
                      /\ command.mode = "amend" => Posted.parent = ParentOf(commits, ref.sha)
    OBVIOUS
  <2>1. CASE command.mode = "amend"
    <3>1. ParentOf(commits, ref.sha) # 0
      BY <1>2, <1>5, <2>1 DEF AmendsFirst
    <3> QED
      BY <1>6, <2>1, <3>1, AcceptedAmend
  <2>2. CASE command.mode # "amend"
    BY <1>6, <2>2, AcceptedPlain
  <2> QED
    BY <2>1, <2>2
<1>8. CommitIsWhatWasSeen'
  BY <1>2, <1>3, <1>5, <1>7 DEF CommitIsWhatWasSeen, Before
<1>9. OthersChangesSurvive'
  <2>1. command.mode = "commit" /\ ~ isNew =>
          \A f \in File : Tip[f] # Seen[f] => Posted.tree[f] = Tip[f] \/ command.snapshot[f] = Absent
    BY <1>6, AcceptedPlain
  <2> QED
    BY <1>2, <1>3, <1>5, <2>1 DEF OthersChangesSurvive, Before
<1>10. OverwriteIsCounted'
  <2>1. ASSUME ~ isNew
        PROVE  Cardinality(Discarded(commits, branches[name], Base)
                             \intersect History(commits, command.counted))
                 <= Announced(command) + Cardinality(Discarded(commits, ref.sha, command.counted))
    <3>1. command.mode = "commit" => Base = branches[name]
      BY <1>6, <2>1, BaseIs
    <3> QED
      BY <1>1, <1>6, <2>1, <3>1, TakenIsAnnounced
  <2>2. /\ Discarded(commits', branches[name], Base) = Discarded(commits, branches[name], Base)
        /\ History(commits', command.counted) = History(commits, command.counted)
        /\ Discarded(commits', ref.sha, command.counted) = Discarded(commits, ref.sha, command.counted)
    BY <1>1, <1>4 DEF Discarded
  <2>3. DeletedOfCounted' = Discarded(commits, branches[name], Base)
                              \intersect History(commits, command.counted)
    BY <1>1, <1>2, <1>3, <2>2 DEF DeletedOfCounted
  <2>4. Announced(command)' = Announced(command)
    BY <1>2 DEF Announced
  <2>5. Discarded(commits, ref.sha, command.counted)' = Discarded(commits, ref.sha, command.counted)
    BY <1>1, <1>2, <2>2
  <2> QED
    BY <1>2, <2>1, <2>3, <2>4, <2>5 DEF OverwriteIsCounted
<1>11. AmendIsRefusedOnlyIf'
  BY <1>2 DEF AmendIsRefusedOnlyIf, At
<1> QED
  BY <1>8, <1>9, <1>10, <1>11 DEF CommitSafety

LEMMA RejectsIsSafe ==
  ASSUME CommitTypeOK, Rejects
  PROVE  CommitSafety'
<1>1. PICK reason \in {"branch exists", "conflict", "forbidden", "other"} :
        /\ command' = [command EXCEPT !.stage = "rejected", !.reason = reason]
        /\ reason = "conflict" => Posting /\ Answer(PayloadOf(command)) = "conflict"
  BY DEF Rejects, Reject
<1>2. command # Idle /\ command \in Running /\ UNCHANGED <<server, ref>>
  BY DEF Rejects, Reject, At, CommitTypeOK
<1>3. /\ command'.stage = "rejected" /\ command'.mode = command.mode /\ command'.reason = reason
      /\ command'.snapshot = command.snapshot
  BY <1>1, <1>2 DEF Running
<1>4. AmendIsRefusedOnlyIf'
  <2>1. ASSUME command.mode = "amend", reason = "conflict", ParentOf(commits, ref.sha) # 0
        PROVE  \/ Renamed(Amended, Seen) # {}
               \/ \E f \in Deleted(Amended, Seen) : command.snapshot[f] # Absent
               \/ command.snapshot = Amended
    BY <1>1, <2>1, RefusedAmend
  <2>2. commits' = commits /\ ref' = ref
    BY <1>2 DEF server
  <2> QED
    BY <1>3, <2>1, <2>2 DEF AmendIsRefusedOnlyIf, Amended, Seen
<1>5. ~ At("accepted")'
  BY <1>3 DEF At
<1> QED
  BY <1>4, <1>5 DEF CommitSafety, CommitIsWhatWasSeen, OthersChangesSurvive, OverwriteIsCounted

\* What others push later changes nothing of what was committed.
LEMMA PushesAreSafe ==
  ASSUME CommitTypeOK, CommitSafety, Pushes
  PROVE  CommitSafety'
<1>1. PICK b \in Branch, e \in Commit :
         /\ branches[b] # 0 /\ branches[b] \in Shas(commits)
         /\ e.parent \in Shas(commits) /\ e.count = CountAt(commits, e.parent) + 1
         /\ commits' = Append(commits, e)
         /\ branches' = [branches EXCEPT ![b] = Len(commits')]
  BY PushGrows
<1>2. e.parent \in Shas(commits)
  BY <1>1
<1>3. /\ \A s \in DOMAIN commits : commits'[s] = commits[s]
      /\ \A s \in Shas(commits) :
           /\ TreeAt(commits', s) = TreeAt(commits, s)
           /\ ParentOf(commits', s) = ParentOf(commits, s)
           /\ History(commits', s) = History(commits, s)
  BY <1>1, <1>2, BranchGrows
<1>4. ref' = ref /\ command' = command
  BY DEF Pushes
<1>5. /\ ref.sha \in Shas(commits) /\ IsRepository(commits)
      /\ command # Idle => {command.counted, command.before, command.commit} \subseteq Shas(commits)
      /\ At("accepted") => command.commit # 0
  BY DEF CommitTypeOK, At
<1>6. ParentOf(commits, ref.sha) \in Shas(commits)
  BY <1>5, CommitsAreTyped
<1>7. At("accepted") => command.commit \in DOMAIN commits /\ commits[command.commit].parent \in Shas(commits)
  <2> SUFFICES ASSUME At("accepted")
               PROVE  command.commit \in DOMAIN commits /\ commits[command.commit].parent \in Shas(commits)
    OBVIOUS
  <2>1. command.commit \in Shas(commits) /\ command.commit # 0
    BY <1>5 DEF At
  <2>2. command.commit \in DOMAIN commits
    BY <1>5, <2>1, CommitsAreTyped
  <2> QED
    BY <1>5, <2>2, CommitsAreTyped
<1>8. /\ TreeAt(commits', ref.sha) = TreeAt(commits, ref.sha)
      /\ ParentOf(commits', ref.sha) = ParentOf(commits, ref.sha)
      /\ TreeAt(commits', ParentOf(commits, ref.sha)) = TreeAt(commits, ParentOf(commits, ref.sha))
  BY <1>3, <1>5, <1>6
<1>9. At("accepted") =>
        /\ commits'[command.commit] = commits[command.commit]
        /\ TreeAt(commits', command.before) = TreeAt(commits, command.before)
        /\ Discarded(commits', command.before, commits[command.commit].parent)
             = Discarded(commits, command.before, commits[command.commit].parent)
        /\ History(commits', command.counted) = History(commits, command.counted)
        /\ Discarded(commits', ref.sha, command.counted) = Discarded(commits, ref.sha, command.counted)
  BY <1>3, <1>5, <1>7 DEF Discarded, At
<1>10. CommitIsWhatWasSeen'
  BY <1>4, <1>8, <1>9 DEF CommitSafety, CommitIsWhatWasSeen, AmendsFirst, Before, At
<1>11. OthersChangesSurvive'
  BY <1>4, <1>8, <1>9 DEF CommitSafety, OthersChangesSurvive, Before, At
<1>12. OverwriteIsCounted'
  <2>1. At("accepted") => UNCHANGED <<DeletedOfCounted, Discarded(commits, ref.sha, command.counted)>>
    BY <1>4, <1>9 DEF DeletedOfCounted
  <2> QED
    BY <1>4, <2>1 DEF CommitSafety, OverwriteIsCounted, At
<1>13. AmendIsRefusedOnlyIf'
  BY <1>4, <1>8 DEF CommitSafety, AmendIsRefusedOnlyIf, At
<1> QED
  BY <1>10, <1>11, <1>12, <1>13 DEF CommitSafety

LEMMA SafetyStep ==
  ASSUME CommitTypeOK, RefHasCommit, CommandIsTold, CommitSafety, [Next]_vars
  PROVE  CommitSafety'
<1>1. CASE Talks
  <2>1. ~ At("accepted")' /\ ~ At("rejected")'
    BY <1>1, TalksTyping DEF At
  <2> QED
    BY <2>1 DEF CommitSafety, CommitIsWhatWasSeen, OthersChangesSurvive, OverwriteIsCounted,
                AmendIsRefusedOnlyIf
<1>2. CASE Reload
  <2>1. ~ At("accepted")' /\ ~ At("rejected")'
    BY <1>2 DEF Reload, At
  <2> QED
    BY <2>1 DEF CommitSafety, CommitIsWhatWasSeen, OthersChangesSurvive, OverwriteIsCounted,
                AmendIsRefusedOnlyIf
<1>3. CASE UNCHANGED <<server, ref, command>>
  BY <1>3 DEF CommitSafety, CommitIsWhatWasSeen, OthersChangesSurvive, OverwriteIsCounted,
              DeletedOfCounted, AmendIsRefusedOnlyIf, AmendsFirst, Before, At, server
<1>4. ASSUME NEW f \in File, NEW c \in Typed, Edit(f, c)
      PROVE  UNCHANGED <<server, ref, command>>
  BY <1>4 DEF Edit
<1>5. UNCHANGED vars => UNCHANGED <<server, ref, command>>
  BY DEF vars
<1> QED
  BY <1>1, <1>2, <1>3, <1>4, <1>5, StepKinds, AcceptsIsSafe, RejectsIsSafe, PushesAreSafe

-----------------------------------------------------------------------------

LEMMA CommitInit ==
  ASSUME Init
  PROVE  CommitTypeOK /\ RefHasCommit /\ CommandIsTold /\ CommitSafety
<1>1. command = Idle /\ ~ At("accepted") /\ ~ At("rejected")
  BY DEF Init, At
<1>2. CommandIsTold /\ CommitSafety
  BY <1>1, UnansweredIsSafe DEF CommandIsTold
<1>3. /\ IsRepository(commits)
      /\ branches \in [Branch -> Shas(commits)]
      /\ ref \in Ref /\ ref.sha \in Shas(commits)
      /\ ref.sha = 0 => commits = <<>>
      /\ ref.branch # NoBranch /\ ref.sha # 0 => ref.sha = branches[ref.branch]
  <2>1. CASE /\ commits = <<>>
             /\ branches = [b \in Branch |-> 0]
             /\ ref = [branch |-> Default, sha |-> 0]
    BY <2>1, BranchAssumption DEF IsRepository, Shas, Ref
  <2>2. CASE /\ commits \in FirstCommits
             /\ branches \in {[b \in Branch |-> IF b = Default THEN 2 ELSE other] : other \in {0, 1}}
             /\ ref \in {[branch |-> b, sha |-> branches[b]] : b \in {x \in Branch : branches[x] # 0}}
                   \union {[branch |-> NoBranch, sha |-> 1]}
    <3>1. PICK p \in FirstTrees :
            commits = <<[parent |-> 0, count |-> 1, tree |-> p[1], author |-> "nobody"],
                        [parent |-> 1, count |-> 2, tree |-> p[2], author |-> "nobody"]>>
      BY <2>2 DEF FirstCommits
    <3>2. p[1] \in Tree /\ p[2] \in Tree
      BY FirstTreesAssumption
    <3>3. /\ Len(commits) = 2 /\ DOMAIN commits = {1, 2}
          /\ commits[1] = [parent |-> 0, count |-> 1, tree |-> p[1], author |-> "nobody"]
          /\ commits[2] = [parent |-> 1, count |-> 2, tree |-> p[2], author |-> "nobody"]
      BY <3>1
    <3>4. commits[1] \in Commit /\ commits[2] \in Commit
      BY <3>2, <3>3 DEF Commit
    <3>5. commits \in Seq(Commit)
      BY <3>1, <3>3, <3>4
    <3>6. IsRepository(commits)
      BY <3>3, <3>5 DEF IsRepository, CountAt
    <3>7. Shas(commits) = {0, 1, 2} /\ commits # <<>>
      <4>1. 0 .. 2 = {0, 1, 2}
        OBVIOUS
      <4>2. Shas(commits) = 0 .. 2
        BY <3>3 DEF Shas
      <4>3. commits # <<>>
        BY <3>1
      <4> QED
        BY <4>1, <4>2, <4>3
    <3>8. branches \in [Branch -> Shas(commits)]
      BY <2>2, <3>7
    <3>9. \/ \E b \in Branch : branches[b] # 0 /\ ref = [branch |-> b, sha |-> branches[b]]
          \/ ref = [branch |-> NoBranch, sha |-> 1]
      BY <2>2
    <3>10. ref \in Ref /\ ref.sha \in Shas(commits) /\ ref.sha # 0
      BY <3>7, <3>8, <3>9 DEF Ref
    <3>11. ref.branch # NoBranch => ref.sha = branches[ref.branch]
      BY <3>9
    <3> QED
      BY <3>6, <3>8, <3>10, <3>11
  <2> QED
    BY <2>1, <2>2 DEF Init
<1>4. RefHasCommit
  BY <1>3 DEF RefHasCommit
<1>5. CommitTypeOK
  <2>1. local \in Tree
    <3>1. local = TreeAt(commits, ref.sha)
      BY DEF Init
    <3> QED
      BY <1>3, <3>1, CommitsAreTyped
  <2>2. pushable \subseteq Branch /\ preference \in BOOLEAN
    BY DEF Init
  <2> QED
    BY <1>1, <1>3, <2>1, <2>2 DEF CommitTypeOK
<1> QED
  BY <1>2, <1>4, <1>5

LEMMA CommitInvariantHolds == Spec => []CommitInvariant
<1>1. CommitInvariant <=> CommitTypeOK /\ RefHasCommit /\ CommandIsTold /\ CommitSafety
  BY DEF CommitInvariant, CommitSafety
<1>2. Init => CommitInvariant
  BY <1>1, CommitInit
<1>3. CommitInvariant /\ [Next]_vars => CommitInvariant'
  BY TypeStep, RefStep, ToldStep, SafetyStep DEF CommitInvariant, CommitSafety
<1> QED
  BY <1>2, <1>3, PTL DEF Spec

\* The commits, the branches and the running command keep their types: a commit is
\* numbered after its parent, and a command posts to a branch that was chosen.
THEOREM CommitTypeCorrect == Spec => []CommitTypeOK
<1>1. CommitInvariant => CommitTypeOK
  BY DEF CommitInvariant
<1> QED
  BY <1>1, CommitInvariantHolds, PTL

\* What the server takes is what the user saw (getCommitPayload.ts:42-73,
\* getAmendCommitPayload.ts:17-117).
THEOREM CommitsWhatWasSeen == Spec => []CommitIsWhatWasSeen
<1>1. CommitInvariant => CommitIsWhatWasSeen
  BY DEF CommitInvariant
<1> QED
  BY <1>1, CommitInvariantHolds, PTL

\* A plain commit takes back nobody's change unseen, but in a file it deletes
\* (getCommitPayload.ts:58).
THEOREM PlainCommitsTakeNothingBack == Spec => []OthersChangesSurvive
<1>1. CommitInvariant => OthersChangesSurvive
  BY DEF CommitInvariant
<1> QED
  BY <1>1, CommitInvariantHolds, PTL

\* A push to the branch that is checked out deletes no more of the commits that were
\* counted than the user was told of and than others took from under what is checked
\* out (command.ts:60-74, getRemoteCommitDifference.ts:35).
THEOREM OverwritesAreCounted == Spec => []OverwriteIsCounted
<1>1. CommitInvariant => OverwriteIsCounted
  BY DEF CommitInvariant
<1> QED
  BY <1>1, CommitInvariantHolds, PTL

\* Why an amend can be refused for its contents (getAmendCommitPayload.ts:26-73).
THEOREM AmendsAreRefusedOnlyIf == Spec => []AmendIsRefusedOnlyIf
<1>1. CommitInvariant => AmendIsRefusedOnlyIf
  BY DEF CommitInvariant
<1> QED
  BY <1>1, CommitInvariantHolds, PTL

\* What a reload drops of the user's changes is late, or taken over by another's
\* (command.ts:49, 136).
THEOREM ReloadsDropOnlyLateChanges == Spec => ReloadDropsOnlyLateChanges
<1> DEFINE Keeps ==
      Reload /\ ~ AmendsFirst => \A f \in File :
        \/ local'[f] = local[f]
        \/ local[f] # command.snapshot[f]
        \/ local[f] = TreeAt(commits, ref.sha)[f]
        \/ local'[f] # commits[command.commit].tree[f]
<1>1. ASSUME CommitInvariant, Reload, ~ AmendsFirst
      PROVE  \A f \in File :
        \/ local'[f] = local[f]
        \/ local[f] # command.snapshot[f]
        \/ local[f] = TreeAt(commits, ref.sha)[f]
        \/ local'[f] # commits[command.commit].tree[f]
  <2>1. At("accepted")
    BY <1>1 DEF Reload
  <2>2. \A f \in File : commits[command.commit].tree[f] =
          IF command.mode = "commit" /\ ~ command.selection.isNewBranch
             /\ command.snapshot[f] = TreeAt(commits, ref.sha)[f]
          THEN Before(command)[f] ELSE command.snapshot[f]
    BY <1>1, <2>1 DEF CommitInvariant, CommitIsWhatWasSeen
  <2> QED
    BY <2>2
<1>2. CommitInvariant /\ [Next]_vars => [Keeps]_vars
  BY <1>1
<1> QED
  BY <1>2, CommitInvariantHolds, PTL DEF Spec, ReloadDropsOnlyLateChanges

=============================================================================
