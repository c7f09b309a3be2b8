-------------------------- MODULE HydrationPromise --------------------------
(***************************************************************************)
(* What the hydrator promises the file system above it, without queue,     *)
(* workers or verification: a read ends with the path of a cached blob or  *)
(* with an error, at most one fetch of a blob is under way, only a fetch   *)
(* brings a blob into the cache, and a file that is not the blob is never  *)
(* served.                                                                 *)
(***************************************************************************)
CONSTANTS Readers, Blobs, NoBlob

VARIABLES
  call,      \* state of each read
  want,      \* the blob each read asks for
  cache,     \* the cached file of each blob
  fetching   \* blobs being fetched

vars == <<call, want, cache, fetching>>

Init ==
  /\ call = [r \in Readers |-> "idle"]
  /\ want = [r \in Readers |-> NoBlob]
  /\ cache \in [Blobs -> {"absent", "good", "damaged"}]
  /\ fetching = {}

Call(r, b) ==
  /\ call[r] = "idle"
  /\ call' = [call EXCEPT ![r] = "pending"]
  /\ want' = [want EXCEPT ![r] = b]
  /\ UNCHANGED <<cache, fetching>>

Return(r, answer) ==
  /\ call[r] = "pending"
  /\ answer = "ok" => cache[want[r]] # "damaged"
  /\ call' = [call EXCEPT ![r] = answer]
  /\ UNCHANGED <<want, cache, fetching>>

BeginFetch(b) ==
  /\ b \notin fetching
  /\ fetching' = fetching \cup {b}
  /\ UNCHANGED <<call, want, cache>>

EndFetch(b) ==
  /\ b \in fetching
  /\ fetching' = fetching \ {b}
  /\ cache' = [cache EXCEPT ![b] = "good"] \/ UNCHANGED cache
  /\ UNCHANGED <<call, want>>

Discard(b) ==
  /\ cache' = [cache EXCEPT ![b] = "absent"]
  /\ UNCHANGED <<call, want, fetching>>

Next ==
  \/ \E r \in Readers, b \in Blobs : Call(r, b)
  \/ \E r \in Readers, answer \in {"ok", "err"} : Return(r, answer)
  \/ \E b \in Blobs : BeginFetch(b) \/ EndFetch(b) \/ Discard(b)

Spec == Init /\ [][Next]_vars
=============================================================================
