--------------------------- MODULE MCDirectories ---------------------------
(* A directory d with a file f in it, and a file x that has the name of the*)
(* temporary file of d, where d is a file.                                 *)
EXTENDS Directories, TLC

CONSTANTS d, f, x, o1, o2

Few   == {<<d>>, <<d, f>>, <<x>>}
XTmp  == [p \in Paths |-> IF p = <<d>> THEN <<x>> ELSE NoPath]

SameBlobs == Permutations({o1, o2})

(* In git a directory is there because something is in it.                 *)
Commits ==
  {t \in [Paths -> {o1, o2, Absent, Dir}] :
     IsTree(t) /\ \A p \in Paths : t[p] = Dir => \E q \in Below(p) : t[q] \in {o1, o2}}
=============================================================================
