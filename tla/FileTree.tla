------------------------------ MODULE FileTree ------------------------------
(***************************************************************************)
(* What a program sees of the names in a mounted repository: a tree of     *)
(* files and directories that operations change one name at a time, or do  *)
(* not change, and that a new commit may change anywhere.                  *)
(***************************************************************************)
EXTENDS PathNames

VARIABLES
  tree,      \* what each path is
  tracked,   \* the commit that is shown
  published  \* the commit that is known

IsDir(p) == p # <<>> => tree[p] = "dir"
Empty(p) == \A q \in Below(p) : tree[q] = "absent"

(* What is there is in a directory.                                        *)
InDirs == \A p \in Paths : tree[p] # "absent" => IsDir(Parent(p))

Init == published = tracked /\ tree = [p \in Paths |-> KindOf(tracked[p])]

(* A new directory may show what a commit took from sight, ...             *)
Add(p, kind) ==
  /\ tree[p] = "absent" /\ IsDir(Parent(p))
  /\ tree'[p] = kind
  /\ \A q \in Paths \ ({p} \cup Below(p)) : tree'[q] = tree[q]

Remove(p) ==
  /\ tree[p] # "absent" /\ Empty(p)
  /\ tree' = [tree EXCEPT ![p] = "absent"]

(* ... and a name that is free again what the commit has there, which, if  *)
(* it is a directory, may show under it what the commit took from sight.   *)
Free(p) == tree'[p] \in {"absent", KindOf(tracked[p])}

Rename(p, q) ==
  /\ tree[p] # "absent" /\ Empty(p)
  /\ q \notin {p} \cup Below(p) /\ IsDir(Parent(q))
  /\ tree[q] \in {"absent", tree[p]}
  /\ tree'[q] = tree[p]
  /\ Free(p)
  /\ \A x \in Paths \ ({p, q} \cup Below(p) \cup Below(q)) : tree'[x] = tree[x]

Operation ==
  /\ \/ \E p \in Paths : Add(p, "file") \/ Add(p, "dir") \/ Remove(p)
     \/ \E p, q \in Paths : Rename(p, q)
  /\ UNCHANGED <<tracked, published>>

(* Another commit is published, or shown.                                  *)
Commit == published' # published \/ tracked' # tracked

Next == (Operation \/ Commit) /\ InDirs'

Spec == Init /\ [][Next]_<<tree, tracked, published>>
=============================================================================
