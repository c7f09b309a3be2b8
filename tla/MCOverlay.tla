----------------------------- MODULE MCOverlay -----------------------------
(* The overlay with every tree over its paths, up to permutations.         *)
EXTENDS Overlay, TLC

AllTrees == [Paths -> Oids \cup {Absent}]

Interchangeable == Permutations(Paths) \cup Permutations(Oids) \cup Permutations(Clients)

(* Two operations at a time, on two changes of rows and one refresh; or    *)
(* one at a time, on up to four changes and refreshes in all (many of the  *)
(* one, few of the other), as long as no promise is withdrawn.             *)
PairOrLong ==
  \/ clock <= 2 /\ refreshes <= 1
  \/ /\ clock + refreshes <= 4 /\ exposed = {}
     /\ Cardinality({c \in Clients : pc[c] # "idle"}) <= 1
=============================================================================
