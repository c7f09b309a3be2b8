---------------------------- MODULE GatePromise ----------------------------
(***************************************************************************)
(* What the readiness gate promises the filesystem operations that pass    *)
(* through it: an operation goes ahead only at a moment when the gate is   *)
(* open, it fails only when the gate was settled (opened or failed) since  *)
(* it arrived or when its own context ended, and an operation that waits   *)
(* at a settled gate does not wait for ever.                               *)
(***************************************************************************)
CONSTANT Ops

VARIABLES
  gate,     \* "waiting", "open" or "failed"
  call,     \* per operation: "idle", "waiting", "passed" or "refused"
  settled   \* waiting operations for which the gate was settled since they came

vars == <<gate, call, settled>>

Init ==
  /\ gate \in {"waiting", "open"}
  /\ call = [o \in Ops |-> "idle"]
  /\ settled = {}

Waiting == {o \in Ops : call[o] = "waiting"}

(* The daemon opens, fails or resets the gate.  Whoever waits meanwhile    *)
(* keeps the right to return.                                              *)
Move(to) ==
  /\ gate' = to
  /\ settled' = IF to = "waiting" THEN settled ELSE settled \cup Waiting
  /\ UNCHANGED call

Return(o, how) ==
  /\ call[o] \in {"idle", "waiting"}
  /\ call' = [call EXCEPT ![o] = how]
  /\ settled' = settled \ {o}
  /\ UNCHANGED gate

Arrive(o) ==
  /\ call[o] = "idle"
  /\ gate = "waiting"
  /\ call' = [call EXCEPT ![o] = "waiting"]
  /\ UNCHANGED <<gate, settled>>

Pass(o)   == gate = "open" /\ Return(o, "passed")
Refuse(o) == (gate = "failed" \/ o \in settled) /\ Return(o, "refused")
GiveUp(o) == call[o] = "waiting" /\ Return(o, "refused")

(* The kernel sends the next operation.                                    *)
Again(o) ==
  /\ call[o] \in {"passed", "refused"}
  /\ call' = [call EXCEPT ![o] = "idle"]
  /\ UNCHANGED <<gate, settled>>

Next ==
  \/ \E to \in {"waiting", "open", "failed"} : Move(to)
  \/ \E o \in Ops : Arrive(o) \/ Pass(o) \/ Refuse(o) \/ GiveUp(o) \/ Again(o)

Spec == Init /\ [][Next]_vars

(* An operation that waits while the gate is settled returns.              *)
SettledReturns == \A o \in Ops : (o \in settled) ~> (o \notin settled)
=============================================================================
