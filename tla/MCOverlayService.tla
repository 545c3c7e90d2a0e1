-------------------------- MODULE MCOverlayService --------------------------
(* A folder in a folder, and two files in it. *)
EXTENDS FileService

CONSTANTS f, g, c0, c1

MCName == {"a", "b", "s", f, g}

\* The outer folder has two places, the inner one a place in either.
MCPath == UNION {{<<d>>, <<d, "s">>, <<d, "s", f>>, <<d, "s", g>>} : d \in {"a", "b"}}

\* The repository: folder /a, in it folder /a/s, in that the files f and g.
MCBase ==
  [p \in MCPath |-> IF p[1] # "a" THEN Absent ELSE IF Len(p) < 3 THEN Dir ELSE c0]

Symmetry == Permutations({f, g})

=============================================================================
