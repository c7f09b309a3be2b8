---------------------------- MODULE MCFileHandle ----------------------------
(* One path with two reads at a time, and a second path to rename it to,   *)
(* which no refresh changes and where one read runs at a time.             *)
EXTENDS FileHandle, FiniteSets, TLC

CONSTANTS p1, p2

MCInit == Init /\ tree[p2] = Absent

OneReadOfTwoPaths ==
  /\ coming # None => coming[p2] = Absent
  /\ p2 \in Busy \cup {path[h] : h \in Handles} => Cardinality({r \in Readers : rpc[r] # "idle"}) <= 1

(* Handles, reads and blobs are interchangeable.                           *)
Interchangeable == Permutations(Handles) \cup Permutations(Readers) \cup Permutations(Oids)
=============================================================================
