---------------------------- MODULE MCBatchPool ----------------------------
(* Two fetchers of one blob and a reader of it and of another, larger one. *)
EXTENDS BatchPool

CONSTANTS f1, f2, r1, b1, b2

MCInit == Init /\ maxSize = 2 /\ tmp[b2] = NoFile
MCSpec == MCInit /\ [][Next]_vars /\ Fairness

(* A fetcher and the reader, with a fault and every pool size; or the two  *)
(* fetchers, one cancelled under the other, without.                       *)
OnePairOrCrossing ==
  /\ \A f \in Fetchers : call[f].blob # b2
  /\ \/ At(f2, "idle") /\ crossed = {}
     \/ At(r1, "idle") /\ faults = 0 /\ maxSize = 2
=============================================================================
