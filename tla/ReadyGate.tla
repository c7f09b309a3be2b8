----------------------------- MODULE ReadyGate -----------------------------
(***************************************************************************)
(* The readiness gate of an asynchronously prepared mount                  *)
(* (fusefs/ready_gate.go) and the filesystem operations that pass through  *)
(* it (fusefs/gated_fs.go).  The daemon opens the gate when the repository *)
(* is prepared, fails it when preparation failed or the mount is stopped,  *)
(* and resets it to prepare again; these calls come from the prepare       *)
(* worker, the control interface and the registry poll in any order.       *)
(*                                                                         *)
(* One action is one critical section of ReadyGate.mu or one channel       *)
(* operation.  Reset makes a new channel: any channel that is neither the  *)
(* current one nor held by an operation stands for it.  The operations the *)
(* gated filesystem lets through at once (StatFS, GetInodeAttributes of    *)
(* the root, forgets and releases) do not touch the gate and are left out. *)
(***************************************************************************)
CONSTANTS
  Ops,        \* filesystem operations in flight; each may be followed by others
  Channels,   \* channels that may exist at a time
  Errors,     \* why a preparation failed
  NoError     \* err is nil

ASSUME ReadyGateAssumption ==
  /\ Channels # {}
  /\ NoError \notin Errors

VARIABLES
  ready, err, closed,  \* the fields of ReadyGate
  done,                \* its current channel
  shut,                \* the channels that are closed
  pc,                  \* where each operation is
  chan,                \* the channel an operation selects on
  answer               \* how an operation's last call ended

gateVars == <<ready, err, closed, done, shut>>
opVars   == <<pc, chan, answer>>
vars     == <<ready, err, closed, done, shut, pc, chan, answer>>

TypeOK ==
  /\ ready \in BOOLEAN
  /\ closed \in BOOLEAN
  /\ err \in Errors \cup {NoError}
  /\ done \in Channels
  /\ shut \subseteq Channels
  /\ pc \in [Ops -> {"idle", "select", "recheck", "returned"}]
  /\ chan \in [Ops -> Channels]
  /\ answer \in [Ops -> {"none", "passed", "refused"}]

(* NewReadyGate.                                                           *)
Init ==
  /\ ready \in BOOLEAN
  /\ err = NoError
  /\ closed = ready
  /\ done \in Channels
  /\ shut = IF ready THEN {done} ELSE {}
  /\ pc = [o \in Ops |-> "idle"]
  /\ chan = [o \in Ops |-> done]
  /\ answer = [o \in Ops |-> "none"]

-----------------------------------------------------------------------------
(* The operations.                                                         *)

Return(o, from, how) ==
  /\ pc[o] = from
  /\ pc' = [pc EXCEPT ![o] = "returned"]
  /\ answer' = [answer EXCEPT ![o] = how]
  /\ UNCHANGED <<gateVars, chan>>

(* Wait, up to its first unlock.                                           *)
Pass(o)   == ready /\ Return(o, "idle", "passed")
Refuse(o) == ~ready /\ err # NoError /\ Return(o, "idle", "refused")

Block(o) ==
  /\ pc[o] = "idle"
  /\ ~ready /\ err = NoError
  /\ pc' = [pc EXCEPT ![o] = "select"]
  /\ chan' = [chan EXCEPT ![o] = done]
  /\ UNCHANGED <<gateVars, answer>>

(* Mutant of Wake: the operation selects on whatever channel is current.   *)
WakeOnCurrent(o) ==
  /\ pc[o] = "select"
  /\ done \in shut
  /\ pc' = [pc EXCEPT ![o] = "recheck"]
  /\ UNCHANGED <<gateVars, chan, answer>>

(* The select: the channel is closed, or the operation's context ends.     *)
Wake(o) ==
  /\ pc[o] = "select"
  /\ chan[o] \in shut
  /\ pc' = [pc EXCEPT ![o] = "recheck"]
  /\ UNCHANGED <<gateVars, chan, answer>>

CtxDone(o) == Return(o, "select", "refused")

(* Mutant of Recheck: a closed channel is taken to mean ready.             *)
RecheckTrusting(o) == Return(o, "recheck", "passed")

(* Mutant of Recheck: it returns err, which Reset may have cleared.        *)
RecheckRawError(o) == Return(o, "recheck", IF ready THEN "passed" ELSE err)

(* The second critical section of Wait.  An operation that wakes after a   *)
(* Reset is refused with ErrRepoNotReady.                                  *)
Recheck(o) == Return(o, "recheck", IF ready THEN "passed" ELSE "refused")

(* gatedFileSystem.wait: an operation that passed goes on to the           *)
(* filesystem, one that was refused is answered EIO; in time the kernel    *)
(* sends another.                                                          *)
NextOp(o) ==
  /\ pc[o] = "returned"
  /\ pc' = [pc EXCEPT ![o] = "idle"]
  /\ answer' = [answer EXCEPT ![o] = "none"]
  /\ UNCHANGED <<gateVars, chan>>

-----------------------------------------------------------------------------
(* The daemon.                                                             *)

Held == {chan[o] : o \in {p \in Ops : pc[p] = "select"}}

(* Mutant of Reset: it replaces the channel of an unsettled gate as well.  *)
ResetAlways ==
  /\ ready' = FALSE /\ err' = NoError /\ closed' = FALSE
  /\ \E c \in Channels \ (Held \cup {done}) : done' = c /\ shut' = shut \ {c}
  /\ UNCHANGED opVars

(* Reset does nothing to a gate that operations may be waiting at.         *)
Reset ==
  /\ ready \/ err # NoError
  /\ ready' = FALSE /\ err' = NoError /\ closed' = FALSE
  /\ \E c \in Channels \ (Held \cup {done}) : done' = c /\ shut' = shut \ {c}
  /\ UNCHANGED opVars

Close ==
  /\ closed' = TRUE
  /\ shut' = IF closed THEN shut ELSE shut \cup {done}
  /\ UNCHANGED <<done, opVars>>

MarkReady == ~ready /\ ready' = TRUE /\ err' = NoError /\ Close

(* Mutant of MarkFailed: it stores the error and wakes nobody.             *)
MarkFailedSilently(e) ==
  /\ ~ready
  /\ err' = e
  /\ UNCHANGED <<ready, closed, done, shut, opVars>>

(* A later failure replaces the error of an earlier one; a gate that was   *)
(* opened does not fail.                                                   *)
MarkFailed(e) ==
  \/ /\ err # NoError
     /\ err' = e
     /\ UNCHANGED <<ready, closed, done, shut, opVars>>
  \/ /\ err = NoError /\ ~ready
     /\ err' = e
     /\ Close /\ UNCHANGED ready

-----------------------------------------------------------------------------
OpStep(o) == Pass(o) \/ Refuse(o) \/ Block(o) \/ Wake(o) \/ Recheck(o)

Next ==
  \/ \E o \in Ops : OpStep(o) \/ CtxDone(o) \/ NextOp(o)
  \/ Reset \/ MarkReady \/ \E e \in Errors : MarkFailed(e)

Spec == Init /\ [][Next]_vars

(* Operations are goroutines that run when they can.                       *)
FairSpec == Spec /\ \A o \in Ops : WF_vars(OpStep(o))

-----------------------------------------------------------------------------
(* Properties.                                                             *)

(* The flag closed, the channel and the state tell the same story, so that *)
(* no order of MarkReady, MarkFailed and Reset closes a channel twice      *)
(* (which panics) or settles the gate without waking those who wait.       *)
GateConsistent ==
  /\ closed <=> done \in shut
  /\ closed <=> (ready \/ err # NoError)
  /\ ~(ready /\ err # NoError)

(* An operation waits at a channel somebody will still close: the current  *)
(* one.  Reset abandons no channel before it is closed.                    *)
NobodyAbandoned ==
  \A o \in Ops : pc[o] = "select" => chan[o] \in shut \cup {done}

(* No call on the gate strands an operation or panics.                     *)
GateSound == GateConsistent /\ NobodyAbandoned

(* The refinement mapping to GatePromise.                                  *)
Gate    == IF ready THEN "open" ELSE IF err # NoError THEN "failed" ELSE "waiting"
Call    == [o \in Ops |-> CASE pc[o] = "idle"     -> "idle"
                            [] pc[o] = "returned" -> answer[o]
                            [] OTHER              -> "waiting"]
Settled == {o \in Ops : pc[o] = "recheck" \/ (pc[o] = "select" /\ chan[o] \in shut)}

Promise == INSTANCE GatePromise WITH gate <- Gate, call <- Call, settled <- Settled

(* The gate implements GatePromise: an operation passes only while the     *)
(* gate is open and is refused only for a reason.                          *)
KeepsPromise == Promise!Spec

(* An operation that waits at a gate that was opened or failed returns,    *)
(* even when the gate is reset before the operation runs again.            *)
SettledReturns == Promise!SettledReturns
=============================================================================
