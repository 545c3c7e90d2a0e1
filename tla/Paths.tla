------------------------------- MODULE Paths -------------------------------
(***************************************************************************)
(* File-system paths, as the sequence of their names ("/a/f" is            *)
(* <<"a", "f">>), with the three operations the overlay file system needs: *)
(* the folder a path is in, "is beneath", and the path an entry gets when  *)
(* the folder it is in is renamed.                                         *)
(***************************************************************************)
EXTENDS Naturals, Sequences, SequencesExt

Root == << >>

\* The folder that holds p (the root holds itself).
Dirname(p) == IF p = Root THEN Root ELSE Front(p)

\* p is d, or is somewhere beneath the folder d.
Within(d, p) == IsPrefix(d, p)

\* p is somewhere beneath the folder d.
Beneath(d, p) == IsStrictPrefix(d, p)

\* Where an entry at p ends up when the folder `from` above it becomes `to`.
Rebase(p, from, to) == to \o SubSeq(p, Len(from) + 1, Len(p))
=============================================================================
