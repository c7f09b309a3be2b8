----------------------------- MODULE MCHydrator -----------------------------
(* Small instances of Hydrator for TLC.                                    *)
EXTENDS Hydrator, TLC

(* Interchangeable processes; the blobs differ in KnownSize.               *)
Interchangeable == Permutations(Readers) \cup Permutations(Workers)

(* At most one blob has a file that an earlier run left.                   *)
MCInit == Init /\ \E b \in Blobs : file[b] = "absent"

(* Nobody has asked for b.                                                 *)
Untouched(b) ==
  /\ file[b] = "absent" /\ queued[b] = 0 /\ b \notin active
  /\ \A p \in Procs : blob[p] # b
  /\ \A e \in Prefetchers : b \notin owed[e]

(* The state constraint of the run hydrator: everything on the blobs of    *)
(* known size, without ReadBlob under way once Stop has begun; or readers  *)
(* and prefetchers of all blobs, with no damaged file, before Stop.        *)
OneBlobOrQueueing ==
  \/ /\ \A b \in Blobs \ KnownSize : Untouched(b)
     /\ stop = "running" \/ \A r \in Peekers : pc[r] \in {"idle", "done"}
  \/ /\ stop = "running"
     /\ \A r \in Peekers : pc[r] = "idle"
     /\ \A b \in Blobs : file[b] \in {"absent", "good"}

(* The behaviours of the run hydrator_join: two readers of the blobs of    *)
(* known size over damaged files, until Stop and after it; and over an     *)
(* empty cache without Stop, one reader with a prefetcher of all blobs, or *)
(* two readers of different blobs.  They restrict what callers ask for,    *)
(* never a step of the hydrator itself, so that fairness means the same as *)
(* in FairSpec.                                                            *)
First == CHOOSE r \in Readers : TRUE

Unprefetched ==
  /\ \A e \in Prefetchers : owed[e] = {}
  /\ \A b \in Blobs : queued[b] \in {0, Explicit}
  /\ \A b \in Blobs : b \in active => \E r \in Readers : blob[r] = b

Joining ==
  /\ \A b \in Blobs \ KnownSize : file[b] = "corrupt" /\ b \notin active
  /\ \A r \in Readers : blob[r] \in KnownSize \cup {NoBlob}
  /\ Unprefetched

Queueing ==
  /\ stop = "running"
  /\ \A b \in Blobs : file[b] \in {"absent", "good"}
  /\ \A r \in Readers : pc[r] # "idle" => (r = First <=> blob[r] \in KnownSize)
  /\ Unprefetched \/ \A r \in Readers \ {First} : pc[r] = "idle"

JoiningOrQueueing == Joining \/ Queueing

MCJoinSpec ==
  /\ Init /\ \E f \in {"corrupt", "absent"} : file = [b \in Blobs |-> f]
  /\ [][Next /\ JoiningOrQueueing']_vars
  /\ Fairness
=============================================================================
