----------------------------- MODULE PathNames -----------------------------
(* Paths below the root of a mount, as sequences of names, and the trees   *)
(* of commits over them.                                                   *)
EXTENDS Naturals, Sequences

CONSTANTS
  Paths,   \* the paths, without the root <<>>
  Absent,  \* what a tree has at a path: nothing,
  Dir      \* a directory, or else a blob

Starts(q, p) == Len(p) < Len(q) /\ SubSeq(q, 1, Len(p)) = p

Parent(p)   == SubSeq(p, 1, Len(p) - 1)
Children(p) == {q \in Paths : Parent(q) = p}
Below(p)    == {q \in Paths : Starts(q, p)}
Above(p)    == {q \in Paths : Starts(p, q)}

KindOf(v) == CASE v = Absent -> "absent" [] v = Dir -> "dir" [] OTHER -> "file"

IsTree(t) == \A p \in Paths : t[p] # Absent => \A q \in Above(p) : t[q] = Dir
=============================================================================
