---------------------------- MODULE MCOverlayFS ----------------------------
EXTENDS FileService

CONSTANTS c0, c1

MCName == {"a", "b", "f", "g"}

\* Two folders that can be renamed into each other's place.
MCPath == {<<d>> : d \in {"a", "b"}} \union {<<d, f>> : d \in {"a", "b"}, f \in {"f", "g"}}

\* The repository: folder /a with the files /a/f and /a/g.
MCBase ==
  [p \in MCPath |-> IF p = <<"a">> THEN Dir ELSE IF p[1] = "a" THEN c0 ELSE Absent]
=============================================================================
