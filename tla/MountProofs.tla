---------------------------- MODULE MountProofs ----------------------------
(***************************************************************************)
(* The readiness gate is consistent, abandons no operation, and implements *)
(* the safety part of GatePromise, for any number of operations.  The gate *)
(* of a mounted repository is this one, so that what is proved of it holds *)
(* there; and the adapter's inode and handle tables are what the kernel    *)
(* believes, for any tree, operations and bounds.                          *)
(***************************************************************************)
EXTENDS Mount, TLAPS, FiniteSetTheorems

-----------------------------------------------------------------------------
(* The gate.                                                               *)

(* GateConsistent and NobodyAbandoned need each other: Reset may drop a    *)
(* channel only because a settled gate has closed it, and the channel it   *)
(* makes is nobody's.  TypeOK says which channels and answers there are.   *)
IInv == TypeOK /\ GateConsistent /\ NobodyAbandoned

(* NewReadyGate yields a consistent gate, open or waiting.                 *)
LEMMA InitIInv == Init => IInv
  BY ReadyGateAssumption DEF Init, IInv, TypeOK, GateConsistent, NobodyAbandoned

(* No call on the gate, and no step of an operation in Wait, breaks the    *)
(* invariant.                                                              *)
LEMMA StepIInv == IInv /\ [Next]_vars => IInv'
<1> SUFFICES ASSUME IInv, [Next]_vars PROVE IInv'
  OBVIOUS
<1> USE DEF IInv, TypeOK, GateConsistent, NobodyAbandoned, gateVars, opVars
<1>1. ASSUME NEW o \in Ops, OpStep(o) PROVE IInv'
  <2>1. CASE Block(o)
    BY <2>1 DEF Block
  <2>2. CASE Wake(o)
    BY <2>2 DEF Wake
  <2>3. CASE Pass(o) \/ Refuse(o) \/ Recheck(o)
    BY <2>3 DEF Pass, Refuse, Recheck, Return
  <2>4. QED
    BY <1>1, <2>1, <2>2, <2>3 DEF OpStep
<1>2. ASSUME NEW o \in Ops, CtxDone(o) \/ NextOp(o) PROVE IInv'
  BY <1>2 DEF CtxDone, NextOp, Return
<1>3. CASE Reset
  <2>1. PICK c \in Channels \ (Held \cup {done}) : done' = c /\ shut' = shut \ {c}
    BY <1>3 DEF Reset
  <2>2. ready' = FALSE /\ err' = NoError /\ closed' = FALSE /\ UNCHANGED opVars
    BY <1>3 DEF Reset
  <2>3. TypeOK' /\ GateConsistent'
    BY <2>1, <2>2
  <2>4. done \in shut
    BY <1>3 DEF Reset
  <2>5. ASSUME NEW o \in Ops, pc[o] = "select" PROVE chan[o] \in shut \ {c}
    BY <2>1, <2>4, <2>5 DEF Held
  <2>6. QED
    BY <2>1, <2>2, <2>3, <2>5
<1>4. CASE MarkReady
  BY <1>4, ReadyGateAssumption DEF MarkReady, Close
<1>5. ASSUME NEW e \in Errors, MarkFailed(e) PROVE IInv'
  <2>1. e # NoError
    BY ReadyGateAssumption
  <2>2. CASE err # NoError
    <3>1. err' = e /\ UNCHANGED <<ready, closed, done, shut, opVars>>
      BY <1>5, <2>2 DEF MarkFailed
    <3>2. QED
      BY <2>1, <2>2, <3>1
  <2>3. CASE err = NoError
    <3>1. ~ready /\ err' = e /\ Close /\ UNCHANGED ready
      BY <1>5, <2>3 DEF MarkFailed
    <3>2. QED
      BY <2>1, <2>3, <3>1 DEF Close
  <2>4. QED
    BY <2>2, <2>3
<1>6. CASE UNCHANGED vars
  BY <1>6 DEF vars
<1>7. QED
  BY <1>1, <1>2, <1>3, <1>4, <1>5, <1>6 DEF Next

(* IInv holds throughout.                                                  *)
LEMMA AlwaysIInv == Spec => []IInv
  BY InitIInv, StepIInv, PTL DEF Spec

(* The gate's flag, channel and state always agree, whatever order the     *)
(* daemon calls MarkReady, MarkFailed and Reset in: no channel is closed   *)
(* twice.                                                                  *)
THEOREM GateIsConsistent == Spec => []GateConsistent
<1>1. IInv => GateConsistent
  BY DEF IInv
<1>2. QED
  BY <1>1, AlwaysIInv, PTL

(* No operation ever waits at a channel that nobody will close.            *)
THEOREM NobodyIsAbandoned == Spec => []NobodyAbandoned
<1>1. IInv => NobodyAbandoned
  BY DEF IInv
<1>2. QED
  BY <1>1, AlwaysIInv, PTL

(* So the gate neither panics nor strands an operation.                    *)
THEOREM GateIsSound == Spec => []GateSound
<1>1. IInv => GateSound
  BY DEF IInv, GateSound
<1>2. QED
  BY <1>1, AlwaysIInv, PTL
-----------------------------------------------------------------------------
(* Every step of the gate is a step of GatePromise or changes nothing that *)
(* GatePromise speaks of.                                                  *)

(* An operation that has returned has an answer.                           *)
Answered == \A o \in Ops : pc[o] = "returned" => answer[o] \in {"passed", "refused"}

(* Wait returns an answer on every path.                                   *)
LEMMA AlwaysAnswered == Spec => []Answered
<1>1. Init => Answered
  BY DEF Init, Answered
<1>2. IInv /\ Answered /\ [Next]_vars => Answered'
  <2> SUFFICES ASSUME IInv, Answered, [Next]_vars PROVE Answered'
    OBVIOUS
  <2> USE DEF Answered, IInv, TypeOK
  <2>1. ASSUME NEW o \in Ops, OpStep(o) \/ CtxDone(o) \/ NextOp(o) PROVE Answered'
    BY <2>1 DEF OpStep, Pass, Refuse, Block, Wake, Recheck, CtxDone, NextOp, Return
  <2>2. CASE Reset \/ MarkReady \/ \E e \in Errors : MarkFailed(e)
    BY <2>2 DEF Reset, MarkReady, MarkFailed, Close, opVars
  <2>3. CASE UNCHANGED vars
    BY <2>3 DEF vars
  <2>4. QED
    BY <2>1, <2>2, <2>3 DEF Next
<1>3. QED
  BY <1>1, <1>2, AlwaysIInv, PTL DEF Spec

(* The daemon's calls move the gate, and a closed channel settles everyone *)
(* who waits.                                                              *)
LEMMA DaemonRefines ==
  ASSUME IInv, IInv', UNCHANGED opVars,
         Reset \/ MarkReady \/ \E e \in Errors : MarkFailed(e)
  PROVE  \E to \in {"waiting", "open", "failed"} : Promise!Move(to)
<1> USE DEF Promise!Move, Promise!Waiting
<1>1. Call' = Call
  BY DEF Call, opVars
<1>2. CASE Reset
  <2>1. Gate' = "waiting"
    BY <1>2 DEF Reset, Gate
  <2>2. PICK c \in Channels \ (Held \cup {done}) : done' = c /\ shut' = shut \ {c}
    BY <1>2 DEF Reset
  <2>3. Settled' = Settled
    BY <2>2 DEF Settled, Held, opVars
  <2>4. QED
    BY <1>1, <2>1, <2>3
<1>3. CASE MarkReady \/ \E e \in Errors : MarkFailed(e)
  <2>1. done' = done /\ Gate' \in {"open", "failed"}
    <3>1. CASE MarkReady
      BY <3>1 DEF MarkReady, Close, Gate
    <3>2. ASSUME NEW e \in Errors, MarkFailed(e) PROVE done' = done /\ Gate' \in {"open", "failed"}
      <4>1. e # NoError /\ done' = done /\ err' = e
        BY <3>2, ReadyGateAssumption DEF MarkFailed, Close
      <4>2. QED
        BY <4>1 DEF Gate
    <3>3. QED
      BY <1>3, <3>1, <3>2
  <2>2. done' \in shut' /\ shut' \subseteq shut \cup {done} /\ shut \subseteq shut'
    <3>1. shut' = shut \/ shut' = shut \cup {done}
      BY <1>3 DEF MarkReady, MarkFailed, Close
    <3>2. done' \in shut'
      BY <2>1, ReadyGateAssumption DEF IInv, GateConsistent, Gate
    <3>3. QED
      BY <3>1, <3>2
  <2>3. Settled' = Settled \cup {o \in Ops : Call[o] = "waiting"}
    <3>1. ASSUME NEW o \in Ops
          PROVE  o \in Settled' <=> (pc[o] = "recheck" \/ (pc[o] = "select" /\ chan[o] \in shut'))
      BY DEF Settled, opVars
    <3>2. ASSUME NEW o \in Ops, pc[o] = "select" PROVE chan[o] \in shut'
      BY <2>1, <2>2, <3>2 DEF IInv, NobodyAbandoned
    <3>3. ASSUME NEW o \in Ops
          PROVE  Call[o] = "waiting" => pc[o] \in {"recheck", "select"}
                 \/ (pc[o] = "returned" /\ answer[o] = "waiting")
      BY DEF Call, IInv, TypeOK
    <3>4. ASSUME NEW o \in Ops
          PROVE  pc[o] \in {"recheck", "select"} => Call[o] = "waiting"
      BY DEF Call
    <3>5. \A o \in Ops : answer[o] # "waiting"
      BY DEF IInv, TypeOK
    <3>6. QED
      BY <3>1, <3>2, <3>3, <3>4, <3>5 DEF Settled
  <2>4. QED
    BY <1>1, <2>1, <2>3
<1>4. QED
  BY <1>2, <1>3

(* An operation arrives, passes, is refused, gives up or makes room for    *)
(* the next one; noticing that the channel is closed is invisible.         *)
LEMMA OpRefines ==
  ASSUME IInv, Answered, UNCHANGED gateVars,
         NEW o \in Ops, OpStep(o) \/ CtxDone(o) \/ NextOp(o)
  PROVE  Promise!Next \/ UNCHANGED Promise!vars
<1> USE DEF IInv, TypeOK, gateVars
<1>1. Gate' = Gate
  BY DEF Gate
<1>2. ASSUME NEW from \in {"idle", "select", "recheck"}, NEW how \in {"passed", "refused"},
             Return(o, from, how)
      PROVE  /\ Call[o] = (IF from = "idle" THEN "idle" ELSE "waiting")
             /\ Promise!Return(o, how)
  <2>1. /\ pc[o] = from /\ pc' = [pc EXCEPT ![o] = "returned"]
        /\ answer' = [answer EXCEPT ![o] = how] /\ chan' = chan
    BY <1>2 DEF Return
  <2>2. Call[o] = (IF from = "idle" THEN "idle" ELSE "waiting")
    BY <2>1 DEF Call
  <2>3. Call' = [Call EXCEPT ![o] = how]
    BY <2>1 DEF Call
  <2>4. Settled' = Settled \ {o}
    BY <2>1 DEF Settled
  <2>5. QED
    BY <1>1, <2>2, <2>3, <2>4 DEF Promise!Return
<1>3. CASE Pass(o)
  BY <1>2, <1>3 DEF Pass, Gate, Promise!Next, Promise!Pass
<1>4. CASE Refuse(o)
  BY <1>2, <1>4 DEF Refuse, Gate, Promise!Next, Promise!Refuse
<1>5. CASE CtxDone(o)
  <2>1. Promise!GiveUp(o)
    BY <1>2, <1>5 DEF CtxDone, Promise!GiveUp
  <2>2. QED
    BY <2>1 DEF Promise!Next
<1>6. CASE Recheck(o)
  <2>1. Promise!Return(o, IF ready THEN "passed" ELSE "refused")
    BY <1>2, <1>6 DEF Recheck
  <2>2. o \in Settled
    BY <1>6 DEF Recheck, Return, Settled
  <2>3. Promise!Pass(o) \/ Promise!Refuse(o)
    BY <2>1, <2>2 DEF Gate, Promise!Pass, Promise!Refuse
  <2>4. QED
    BY <2>3 DEF Promise!Next
<1>7. CASE Block(o)
  <2>1. Gate = "waiting" /\ Call[o] = "idle"
    BY <1>7 DEF Block, Gate, Call
  <2>2. Call' = [Call EXCEPT ![o] = "waiting"]
    BY <1>7 DEF Block, Call
  <2>3. done \notin shut
    BY <1>7 DEF Block, GateConsistent
  <2>4. Settled' = Settled
    BY <1>7, <2>3 DEF Block, Settled
  <2>5. Promise!Arrive(o)
    BY <1>1, <2>1, <2>2, <2>4 DEF Promise!Arrive
  <2>6. QED
    BY <2>5 DEF Promise!Next
<1>8. CASE Wake(o)
  <2>1. Call' = Call
    BY <1>8 DEF Wake, Call
  <2>2. Settled' = Settled
    BY <1>8 DEF Wake, Settled
  <2>3. QED
    BY <1>1, <2>1, <2>2 DEF Promise!vars
<1>9. CASE NextOp(o)
  <2>1. Call[o] \in {"passed", "refused"} /\ Call' = [Call EXCEPT ![o] = "idle"]
    BY <1>9 DEF NextOp, Call, Answered
  <2>2. Settled' = Settled
    BY <1>9 DEF NextOp, Settled
  <2>3. Promise!Again(o)
    BY <1>1, <2>1, <2>2 DEF Promise!Again
  <2>4. QED
    BY <2>3 DEF Promise!Next
<1>10. QED
  BY <1>3, <1>4, <1>5, <1>6, <1>7, <1>8, <1>9 DEF OpStep

(* The gate of ready_gate.go keeps the promise: an operation passes only   *)
(* at a moment when the gate is open, and it is refused only when the gate *)
(* failed, was settled while it waited, or its context ended.              *)
THEOREM GateKeepsPromise == Spec => KeepsPromise
<1>1. Init => Promise!Init
  BY DEF Init, Promise!Init, Gate, Call, Settled
<1>2. IInv /\ IInv' /\ Answered /\ [Next]_vars => [Promise!Next]_Promise!vars
  <2> SUFFICES ASSUME IInv, IInv', Answered, [Next]_vars
               PROVE  Promise!Next \/ UNCHANGED Promise!vars
    BY DEF Promise!vars
  <2>1. ASSUME NEW o \in Ops, OpStep(o) \/ CtxDone(o) \/ NextOp(o)
        PROVE  Promise!Next \/ UNCHANGED Promise!vars
    <3>1. UNCHANGED gateVars
      BY <2>1 DEF OpStep, Pass, Refuse, Block, Wake, Recheck, CtxDone, NextOp, Return
    <3>2. QED
      BY <2>1, <3>1, OpRefines
  <2>2. CASE Reset \/ MarkReady \/ \E e \in Errors : MarkFailed(e)
    <3>1. UNCHANGED opVars
      BY <2>2 DEF Reset, MarkReady, MarkFailed, Close, opVars
    <3>2. QED
      BY <2>2, <3>1, DaemonRefines DEF Promise!Next
  <2>3. CASE UNCHANGED vars
    BY <2>3 DEF vars, Promise!vars, Gate, Call, Settled
  <2>4. QED
    BY <2>1, <2>2, <2>3 DEF Next
<1>3. QED
  BY <1>1, <1>2, AlwaysIInv, AlwaysAnswered, PTL DEF Spec, KeepsPromise, Promise!Spec

-----------------------------------------------------------------------------
(* The gate of a mount.                                                    *)

(* What the kernel and the tables do leaves the gate alone, but for the    *)
(* operation that makes room for the next.                                 *)
LEMMA GateStep == MountNext => Next \/ UNCHANGED vars
<1> SUFFICES ASSUME MountNext PROVE Next \/ UNCHANGED vars
  OBVIOUS
<1>1. ASSUME NEW o \in Ops, Arrive(o) PROVE UNCHANGED vars
  BY <1>1 DEF Arrive, AskLookUp, AskCreate, AskUnlink, AskRename, AskInode, AskHandle, Ask
<1>2. ASSUME NEW o \in Ops, AtGate(o) \/ Interrupt(o) PROVE Next
  BY <1>2 DEF AtGate, Interrupt, Next
<1>3. ASSUME NEW o \in Ops, Serve(o) PROVE UNCHANGED vars
  BY <1>3 DEF Serve, LookUpInode, CreateFile, Alloc, Unlink, Rename, GetInodeAttributes, Open,
              ReadDir, In, FileSystem, Out
<1>4. ASSUME NEW o \in Ops, TakeError(o) \/ TakeInode(o) \/ TakeDone(o) PROVE Next
  BY <1>4 DEF TakeError, TakeInode, TakeDone, Take, Next
<1>5. ASSUME NEW s \in Spots, DropName(s) PROVE UNCHANGED vars
  BY <1>5 DEF DropName
<1>6. ASSUME NEW i \in Inodes,
             (\E n \in 1..lookups[i] : Evict(i, n)) \/ \E n \in 1..forgets[i] : ForgetInode(i, n)
      PROVE  UNCHANGED vars
  BY <1>6 DEF Evict, ForgetInode
<1>7. ASSUME NEW h \in Handles, ReleaseHandle(h) PROVE UNCHANGED vars
  BY <1>7 DEF ReleaseHandle
<1>8. CASE Daemon
  BY <1>8 DEF Daemon, Next
<1>9. QED
  BY <1>1, <1>2, <1>3, <1>4, <1>5, <1>6, <1>7, <1>8 DEF MountNext

(* A mounted repository's gate is a ReadyGate.                             *)
THEOREM MountImplementsGate == MountSpec => Spec
<1>1. MountInit => Init
  BY DEF MountInit
<1>2. [MountNext]_mountVars => [Next]_vars
  BY GateStep DEF mountVars, vars
<1>3. QED
  BY <1>1, <1>2, PTL DEF MountSpec, Spec

(* With the kernel's operations behind it, the gate closes no channel twice*)
(* and abandons no operation at a channel that nobody will close.          *)
THEOREM MountGateSound == MountSpec => []GateSound
  BY MountImplementsGate, GateIsSound, PTL

(* An operation of the kernel reaches the file system only through a gate  *)
(* that was open then, and is refused only for a reason of GatePromise.    *)
THEOREM MountKeepsPromise == MountSpec => KeepsPromise
  BY MountImplementsGate, GateKeepsPromise, PTL
-----------------------------------------------------------------------------
(* The invariant of the tables.                                            *)

(* An inode is in the table while somebody may name it, and a number that  *)
(* was not given yet means nothing.                                        *)
TableSound ==
  \A i \in Inodes :
    /\ inodes[i].path = Root <=> inodes[i].refcnt = 0
    /\ i >= nextInodeID => inodes[i] = NoRef

(* The counts and the maps, as KernelIsKnown has them.                     *)
CountsAgree == \A i \in Inodes : inodes[i].refcnt = lookups[i] + Cardinality(Answers(i)) + forgets[i]
MapsAgree   == \A i \in Inodes, p \in Paths : pathToInode[p] = i <=> inodes[i].path = p

HandlesAgree ==
  \A h \in Handles : handles[h] # 0 <=> opened[h] # 0 \/ \E o \in Ops : job[o].handle = h

(* What the kernel names, it has counted.                                  *)
Counts(i) == i \in Inodes => lookups[i] > 0

NamesCounted ==
  /\ \A s \in Spots : Counts(name[s])
  /\ \A h \in Handles : Counts(opened[h])
  /\ \A o \in Ops : Counts(job[o].inode) /\ Counts(job[o].at[1]) /\ Counts(job[o].to[1])

(* The operations on a name.                                               *)
NameAsks == {"lookup", "create", "unlink", "rename"}

(* How far an operation has come, and what it then knows.  Only a create or*)
(* an open brings a handle back, only an operation that passed the gate    *)
(* changes the tables, and a rename knows what it moves.                   *)
JobSound(o) ==
  LET j == job[o] IN
  /\ j.out # "none" => pc[o] = "returned" /\ answer[o] = "passed"
  /\ j.out # "unknown"
  /\ j.child # 0 => j.out = "ok" /\ j.do \in {"lookup", "create"}
  /\ j.handle # 0 /\ j.do # "handle" =>
       j.out = "ok" /\ (j.do = "inode" \/ (j.do = "create" /\ j.child # 0))
  /\ j.do = "handle" => j.handle # 0 /\ opened[j.handle] # 0
  /\ j.do = "inode"  => j.inode # 0
  /\ j.do = "create" => j.inode = 0
  /\ j.do \in NameAsks => j.at \in Spots /\ j.path \in Paths
  /\ j.do = "rename" => j.to \in Spots /\ j.inode \in Inodes

JobsSound == \A o \in Ops : JobSound(o)

MInv ==
  /\ MountTypeOK /\ TableSound /\ CountsAgree /\ MapsAgree
  /\ HandlesAgree /\ NamesCounted /\ JobsSound
-----------------------------------------------------------------------------
(* Facts about the parts of the state.                                     *)

(* The records in job.                                                     *)
Jobs == [do : Asks \cup {"none"}, at : Spots \cup {NoSpot}, to : Spots \cup {NoSpot},
         path : Paths \cup {Root}, inode : Inodes \cup {0, RootInode},
         child : Inodes \cup {0}, handle : Handles \cup {0},
         out : {"none", "done", "ok", "error", "unknown"}]

(* 0 and the root's number are not among the inodes of the tables.         *)
LEMMA Numbers == 0 \notin Inodes /\ RootInode \notin Inodes /\ RootInode # 0 /\ Inodes \subseteq Nat
  BY MountAssumption DEF Inodes, RootInode

(* Answers under way can be counted.                                       *)
LEMMA Answering == \A i \in Inodes : IsFiniteSet(Answers(i)) /\ Cardinality(Answers(i)) \in Nat
<1> SUFFICES ASSUME NEW i \in Inodes PROVE IsFiniteSet(Answers(i)) /\ Cardinality(Answers(i)) \in Nat
  OBVIOUS
<1>1. Answers(i) \subseteq Ops
  BY DEF Answers
<1>2. QED
  BY <1>1, FS_Subset, FS_CardinalityType, MountAssumption

(* An inode that the kernel has counted is in the table.                   *)
LEMMA CountedIsKnown ==
  ASSUME MInv, NEW i \in Inodes \cup {RootInode}, Counts(i)
  PROVE  Known(i)
<1>1. CASE i = RootInode
  BY <1>1 DEF Known
<1>2. CASE i \in Inodes
  <2>1. inodes[i].refcnt = lookups[i] + Cardinality(Answers(i)) + forgets[i]
    BY <1>2 DEF MInv, CountsAgree
  <2>2. lookups[i] \in Nat /\ lookups[i] > 0 /\ forgets[i] \in Nat
    BY <1>2 DEF MInv, MountTypeOK, Counts
  <2>3. inodes[i].refcnt # 0
    BY <1>2, <2>1, <2>2, Answering
  <2>4. QED
    BY <2>3 DEF Known, NoRef
<1>3. QED
  BY <1>1, <1>2

(* What an answer leaves of the operation's record.                        *)
LEMMA OnlyOut ==
  ASSUME job \in [Ops -> Jobs], NEW o \in Ops,
         NEW out \in {"none", "done", "ok", "error", "unknown"},
         job' = [job EXCEPT ![o].out = out]
  PROVE  /\ job' \in [Ops -> Jobs]
         /\ job'[o].out = out
         /\ \A q \in Ops : /\ job'[q].do = job[q].do /\ job'[q].path = job[q].path
                           /\ job'[q].to = job[q].to /\ job'[q].at = job[q].at
                           /\ job'[q].inode = job[q].inode /\ job'[q].child = job[q].child
                           /\ job'[q].handle = job[q].handle
                           /\ q # o => job'[q] = job[q]
  BY DEF Jobs

(* The beginning.                                                          *)
LEMMA MInvInit == MountInit => MInv
<1> SUFFICES ASSUME MountInit PROVE MInv
  OBVIOUS
<1> USE MountAssumption, Numbers DEF MountInit, NoJob, NoRef
<1>1. MountTypeOK
  <2>1. TypeOK
    BY InitIInv DEF IInv, MountInit
  <2>2. job \in [Ops -> Jobs]
    BY DEF Jobs
  <2>3. nextInodeID \in 2..(MaxInode + 1)
    OBVIOUS
  <2>4. QED
    BY <2>1, <2>2, <2>3 DEF MountTypeOK, Jobs
<1>2. TableSound /\ MapsAgree /\ HandlesAgree
  <2>1. TableSound
    BY DEF TableSound
  <2>2. MapsAgree
    BY DEF MapsAgree
  <2>3. HandlesAgree
    BY DEF HandlesAgree
  <2>4. QED
    BY <2>1, <2>2, <2>3
<1>3. CountsAgree
  <2>1. ASSUME NEW i \in Inodes PROVE Answers(i) = {}
    BY DEF Answers
  <2>2. ASSUME NEW i \in Inodes PROVE inodes[i].refcnt = lookups[i] + Cardinality(Answers(i)) + forgets[i]
    <3>1. Cardinality(Answers(i)) = 0
      BY <2>1, FS_EmptySet
    <3>2. QED
      BY <3>1
  <2>3. QED
    BY <2>2 DEF CountsAgree
<1>4. NamesCounted /\ JobsSound
  BY DEF NamesCounted, Counts, NoSpot, JobsSound, JobSound, NameAsks
<1>5. QED
  BY <1>1, <1>2, <1>3, <1>4 DEF MInv
-----------------------------------------------------------------------------
(* Each action preserves the invariant.  That the gate's variables keep    *)
(* their types is known from IInv.                                         *)

(* The gate: who has passed it stays so until the kernel takes the answer. *)
LEMMA GateMInv ==
  ASSUME MInv, TypeOK', UNCHANGED <<table, job, kernel>>,
         \A o \in Ops : pc[o] = "returned" => pc'[o] = "returned" /\ answer'[o] = answer[o]
  PROVE  MInv'
<1> USE DEF table, kernel
<1>1. MountTypeOK'
  BY DEF MInv, MountTypeOK
<1>2. TableSound' /\ MapsAgree' /\ HandlesAgree'
  BY DEF MInv, TableSound, MapsAgree, HandlesAgree
<1>3. CountsAgree'
  BY DEF MInv, CountsAgree, Answers
<1>4. NamesCounted'
  BY DEF MInv, NamesCounted, Counts
<1>5. JobsSound'
  BY DEF MInv, JobsSound, JobSound
<1>6. QED
  BY <1>1, <1>2, <1>3, <1>4, <1>5 DEF MInv

(* Arriving at the gate, waking, and the daemon's calls touch no table.    *)
LEMMA AtGateMInv ==
  ASSUME MInv, TypeOK',
         (\E o \in Ops : AtGate(o) \/ Interrupt(o)) \/ Daemon \/ UNCHANGED mountVars
  PROVE  MInv'
<1>1. UNCHANGED <<table, job, kernel>>
  BY DEF AtGate, Interrupt, Daemon, mountVars
<1>2. ASSUME NEW q \in Ops, pc[q] = "returned"
      PROVE  pc'[q] = "returned" /\ answer'[q] = answer[q]
  <2> USE <1>2 DEF MInv, MountTypeOK, TypeOK
  <2>1. ASSUME NEW o \in Ops, OpStep(o) \/ CtxDone(o) PROVE pc'[q] = "returned" /\ answer'[q] = answer[q]
    BY <2>1 DEF OpStep, CtxDone, Pass, Refuse, Block, Wake, Recheck, Return
  <2>2. CASE Daemon
    BY <2>2 DEF Daemon, Reset, MarkReady, MarkFailed, Close, opVars
  <2>3. CASE UNCHANGED mountVars
    BY <2>3 DEF mountVars, vars
  <2>4. QED
    BY <2>1, <2>2, <2>3 DEF AtGate, Interrupt
<1>3. QED
  BY <1>1, <1>2, GateMInv

(* An operation is answered without a change of the tables.                *)
LEMMA OutMInv ==
  ASSUME MInv, TypeOK', NEW o \in Ops, NEW out \in {"done", "ok", "error"},
         job[o].out = "none", pc[o] = "returned", answer[o] = "passed", Out(o, out)
  PROVE  MInv'
<1> USE DEF table, kernel, vars
<1>1. job \in [Ops -> Jobs]
  BY DEF MInv, MountTypeOK, Jobs
<1>2. /\ UNCHANGED <<table, kernel, pc, answer>>
      /\ job' = [job EXCEPT ![o].out = out]
  BY DEF Out
<1>3. /\ job' \in [Ops -> Jobs]
      /\ job'[o].out = out
      /\ \A q \in Ops : /\ job'[q].do = job[q].do /\ job'[q].path = job[q].path
                        /\ job'[q].to = job[q].to /\ job'[q].at = job[q].at
                        /\ job'[q].inode = job[q].inode /\ job'[q].child = job[q].child
                        /\ job'[q].handle = job[q].handle
                        /\ q # o => job'[q] = job[q]
  BY <1>1, <1>2, OnlyOut
<1>4. MountTypeOK'
  BY <1>2, <1>3 DEF MInv, MountTypeOK, Jobs
<1>5. TableSound' /\ MapsAgree' /\ HandlesAgree'
  BY <1>2, <1>3 DEF MInv, TableSound, MapsAgree, HandlesAgree
<1>6. CountsAgree'
  <2>1. ASSUME NEW i \in Inodes PROVE Answers(i)' = Answers(i)
    BY <1>3 DEF Answers
  <2>2. QED
    BY <1>2, <2>1 DEF MInv, CountsAgree
<1>7. NamesCounted'
  BY <1>2, <1>3 DEF MInv, NamesCounted, Counts
<1>8. JobsSound'
  <2>1. ASSUME NEW q \in Ops, q # o PROVE JobSound(q)'
    BY <1>2, <1>3, <2>1 DEF MInv, JobsSound, JobSound
  <2>2. JobSound(o)'
    BY <1>2, <1>3 DEF MInv, JobsSound, JobSound
  <2>3. QED
    BY <2>1, <2>2 DEF JobsSound
<1>9. QED
  BY <1>4, <1>5, <1>6, <1>7, <1>8 DEF MInv

(* Of what the kernel asks about, the adapter knows every inode.           *)
LEMMA InMInv ==
  ASSUME MInv, TypeOK', NEW o \in Ops, NEW dirs \in SUBSET (Inodes \cup {RootInode}),
         NEW out \in {"done", "ok"}, \A i \in dirs : Counts(i),
         job[o].out = "none", pc[o] = "returned", answer[o] = "passed", In(o, dirs, out)
  PROVE  MInv'
<1>1. \A i \in dirs : Known(i)
  BY CountedIsKnown
<1>2. FileSystem(o, out)
  BY <1>1 DEF In
<1>3. QED
  BY <1>2, OutMInv DEF FileSystem

(* Where an operation on a name happens.                                   *)
LEMMA DirIsCounted ==
  ASSUME MInv, NEW o \in Ops, job[o].do \in NameAsks
  PROVE  job[o].at[1] \in Inodes \cup {RootInode} /\ Counts(job[o].at[1])
<1>1. job[o].at \in Spots
  BY DEF MInv, JobsSound, JobSound
<1>2. Counts(job[o].at[1])
  BY DEF MInv, NamesCounted
<1>3. QED
  BY <1>1, <1>2 DEF Spots

(* Where a rename goes.                                                    *)
LEMMA TargetIsCounted ==
  ASSUME MInv, NEW o \in Ops, job[o].do = "rename"
  PROVE  job[o].to[1] \in Inodes \cup {RootInode} /\ Counts(job[o].to[1])
<1>1. job[o].to \in Spots
  BY DEF MInv, JobsSound, JobSound
<1>2. Counts(job[o].to[1])
  BY DEF MInv, NamesCounted
<1>3. QED
  BY <1>1, <1>2 DEF Spots

(* The operations that leave the tables alone find every inode and handle. *)
LEMMA ServeMInv ==
  ASSUME MInv, TypeOK', NEW o \in Ops,
         LookUpInode(o) \/ CreateFile(o) \/ Unlink(o) \/ Rename(o) \/ GetInodeAttributes(o) \/ ReadDir(o)
  PROVE  MInv'
<1>1. CASE LookUpInode(o) \/ CreateFile(o) \/ Unlink(o)
  <2>1. job[o].do \in NameAsks
    BY <1>1 DEF LookUpInode, CreateFile, Unlink, Passed, NameAsks
  <2>2. PICK out \in {"done", "ok"} : In(o, {job[o].at[1]}, out)
    BY <1>1 DEF LookUpInode, CreateFile, Unlink
  <2>3. job[o].out = "none" /\ pc[o] = "returned" /\ answer[o] = "passed"
    BY <1>1 DEF LookUpInode, CreateFile, Unlink, Passed
  <2>4. QED
    BY <2>1, <2>2, <2>3, DirIsCounted, InMInv
<1>2. CASE Rename(o)
  <2>1. job[o].do = "rename" /\ job[o].do \in NameAsks
    BY <1>2 DEF Rename, Passed, NameAsks
  <2>2. In(o, {job[o].at[1], job[o].to[1]}, "ok")
    BY <1>2 DEF Rename
  <2>3. job[o].out = "none" /\ pc[o] = "returned" /\ answer[o] = "passed"
    BY <1>2 DEF Rename, Passed
  <2>4. {job[o].at[1], job[o].to[1]} \in SUBSET (Inodes \cup {RootInode})
    BY <2>1, DirIsCounted, TargetIsCounted
  <2>5. \A i \in {job[o].at[1], job[o].to[1]} : Counts(i)
    BY <2>1, DirIsCounted, TargetIsCounted
  <2>6. QED
    BY <2>2, <2>3, <2>4, <2>5, InMInv
<1>3. CASE GetInodeAttributes(o)
  <2>1. /\ job[o].do = "inode" /\ In(o, {job[o].inode}, "ok")
        /\ job[o].out = "none" /\ pc[o] = "returned" /\ answer[o] = "passed"
    BY <1>3 DEF GetInodeAttributes, Passed
  <2>2. job[o].inode \in Inodes \cup {0, RootInode}
    BY DEF MInv, MountTypeOK
  <2>3. job[o].inode # 0 /\ Counts(job[o].inode)
    BY <2>1 DEF MInv, JobsSound, JobSound, NamesCounted
  <2>4. QED
    BY <2>1, <2>2, <2>3, InMInv
<1>4. CASE ReadDir(o)
  <2>1. /\ job[o].do = "handle"
        /\ job[o].out = "none" /\ pc[o] = "returned" /\ answer[o] = "passed"
    BY <1>4 DEF ReadDir, Passed
  <2>2. job[o].handle # 0 /\ job[o].handle \in Handles \cup {0}
    BY <2>1 DEF MInv, JobsSound, JobSound, MountTypeOK
  <2>3. OpenHandle(job[o].handle)
    BY <2>2 DEF MInv, HandlesAgree, OpenHandle
  <2>4. QED
    BY <1>4, <2>1, <2>3, OutMInv DEF ReadDir, FileSystem
<1>5. QED
  BY <1>1, <1>2, <1>3, <1>4

(* A new handle for an inode that is known.                                *)
LEMMA OpenMInv ==
  ASSUME MInv, TypeOK', NEW o \in Ops, Open(o)
  PROVE  MInv'
<1> USE DEF kernel, vars
<1>1. PICK h \in Handles : /\ handles[h] = 0
                           /\ handles' = [handles EXCEPT ![h] = job[o].inode]
                           /\ job' = [job EXCEPT ![o].out = "ok", ![o].handle = h]
  BY DEF Open, OpenHandle
<1>2. UNCHANGED <<pc, answer, inodes, pathToInode, nextInodeID, kernel>>
  BY DEF Open
<1>3. job[o].do = "inode" /\ job[o].out = "none" /\ pc[o] = "returned" /\ answer[o] = "passed"
  BY DEF Open, Passed
<1>4. job \in [Ops -> Jobs]
  BY DEF MInv, MountTypeOK, Jobs
<1>5. /\ job' \in [Ops -> Jobs]
      /\ job'[o].out = "ok" /\ job'[o].handle = h
      /\ \A q \in Ops : /\ job'[q].do = job[q].do /\ job'[q].path = job[q].path
                        /\ job'[q].to = job[q].to /\ job'[q].at = job[q].at
                        /\ job'[q].inode = job[q].inode /\ job'[q].child = job[q].child
                        /\ q # o => job'[q] = job[q]
  <2>1. job' = [job EXCEPT ![o] = [job[o] EXCEPT !.out = "ok", !.handle = h]]
    BY <1>1, <1>4
  <2>2. job[o] \in Jobs
    BY <1>4
  <2>3. [job[o] EXCEPT !.out = "ok", !.handle = h] \in Jobs
    BY <2>2 DEF Jobs
  <2>4. QED
    BY <1>4, <2>1, <2>2, <2>3 DEF Jobs
<1>6. job[o].inode \in Inodes \cup {RootInode} /\ job[o].inode # 0 /\ job[o].handle = 0 /\ job[o].child = 0
  BY <1>3 DEF MInv, JobsSound, JobSound, MountTypeOK
<1>7. MountTypeOK'
  BY <1>1, <1>2, <1>5, <1>6 DEF MInv, MountTypeOK, Jobs
<1>8. TableSound' /\ MapsAgree'
  BY <1>2 DEF MInv, TableSound, MapsAgree
<1>9. HandlesAgree'
  <2>1. ASSUME NEW g \in Handles
        PROVE  handles'[g] # 0 <=> opened'[g] # 0 \/ \E q \in Ops : job'[q].handle = g
    <3>1. CASE g = h
      BY <1>1, <1>5, <1>6, <3>1 DEF MInv, MountTypeOK
    <3>2. CASE g # h
      <4>1. (\E q \in Ops : job'[q].handle = g) <=> \E q \in Ops : job[q].handle = g
        BY <1>5, <1>6, <3>2, MountAssumption
      <4>2. handles'[g] = handles[g] /\ opened'[g] = opened[g]
        BY <1>1, <1>2, <3>2 DEF MInv, MountTypeOK
      <4>3. QED
        BY <4>1, <4>2 DEF MInv, HandlesAgree
    <3>3. QED
      BY <3>1, <3>2
  <2>2. QED
    BY <2>1 DEF HandlesAgree
<1>10. CountsAgree'
  <2>1. ASSUME NEW i \in Inodes PROVE Answers(i)' = Answers(i)
    BY <1>5 DEF Answers
  <2>2. QED
    BY <1>2, <2>1 DEF MInv, CountsAgree
<1>11. NamesCounted'
  BY <1>2, <1>5 DEF MInv, NamesCounted, Counts
<1>12. JobsSound'
  <2>1. ASSUME NEW q \in Ops, q # o PROVE JobSound(q)'
    BY <1>2, <1>5, <2>1 DEF MInv, JobsSound, JobSound
  <2>2. JobSound(o)'
    BY <1>2, <1>3, <1>5, <1>6 DEF MInv, JobsSound, JobSound
  <2>3. QED
    BY <2>1, <2>2 DEF JobsSound
<1>13. QED
  BY <1>7, <1>8, <1>9, <1>10, <1>11, <1>12 DEF MInv

(* An inode is given to a path and counted, with a handle for a file that  *)
(* was created.                                                            *)
LEMMA AllocMInv ==
  ASSUME MInv, TypeOK', NEW o \in Ops, Alloc(o)
  PROVE  MInv'
<1> USE DEF kernel, vars
<1>1. /\ job[o].do \in {"lookup", "create"} /\ job[o].out = "done"
      /\ pc[o] = "returned" /\ answer[o] = "passed"
  BY DEF Alloc, Passed
<1>2. job[o].path \in Paths /\ job[o].child = 0 /\ job[o].handle = 0
  BY <1>1 DEF MInv, JobsSound, JobSound, NameAsks, MountTypeOK
<1>3. PICK i \in Inodes, h \in Handles \cup {0} :
        /\ job' = [job EXCEPT ![o].out = "ok", ![o].child = i, ![o].handle = h]
        /\ IF h = 0 THEN handles' = handles
                    ELSE job[o].do = "create" /\ handles[h] = 0 /\ handles' = [handles EXCEPT ![h] = i]
        /\ \/ /\ pathToInode[job[o].path] = i /\ inodes' = Counted(i)
              /\ UNCHANGED <<pathToInode, nextInodeID>>
           \/ /\ i = nextInodeID /\ (pathToInode[job[o].path] = 0 \/ inodes[pathToInode[job[o].path]] = NoRef)
              /\ inodes' = [inodes EXCEPT ![i] = [path |-> job[o].path, refcnt |-> 1]]
              /\ pathToInode' = [pathToInode EXCEPT ![job[o].path] = i]
              /\ nextInodeID' = nextInodeID + 1
  <2>1. PICK i \in Inodes :
          /\ i = (IF pathToInode[job[o].path] # 0 /\ inodes[pathToInode[job[o].path]] # NoRef
                    THEN pathToInode[job[o].path] ELSE nextInodeID)
    BY DEF Alloc
  <2>2. (\E h \in Handles : /\ job[o].do = "create" /\ handles[h] = 0 /\ handles' = [handles EXCEPT ![h] = i]
                            /\ job' = [job EXCEPT ![o].out = "ok", ![o].child = i, ![o].handle = h])
        \/ (handles' = handles /\ job' = [job EXCEPT ![o].out = "ok", ![o].child = i, ![o].handle = 0])
    BY <2>1 DEF Alloc, OpenHandle
  <2>3. \/ /\ pathToInode[job[o].path] = i /\ inodes' = Counted(i)
           /\ UNCHANGED <<pathToInode, nextInodeID>>
        \/ /\ i = nextInodeID /\ (pathToInode[job[o].path] = 0 \/ inodes[pathToInode[job[o].path]] = NoRef)
           /\ inodes' = [inodes EXCEPT ![i] = [path |-> job[o].path, refcnt |-> 1]]
           /\ pathToInode' = [pathToInode EXCEPT ![job[o].path] = i]
           /\ nextInodeID' = nextInodeID + 1
    BY <2>1 DEF Alloc
  <2>4. CASE \E h \in Handles : /\ job[o].do = "create" /\ handles[h] = 0 /\ handles' = [handles EXCEPT ![h] = i]
                                /\ job' = [job EXCEPT ![o].out = "ok", ![o].child = i, ![o].handle = h]
    BY <2>3, <2>4, MountAssumption
  <2>5. CASE handles' = handles /\ job' = [job EXCEPT ![o].out = "ok", ![o].child = i, ![o].handle = 0]
    BY <2>3, <2>5
  <2>6. QED
    BY <2>2, <2>4, <2>5
<1>4. UNCHANGED <<pc, answer, kernel>>
  BY DEF Alloc
<1>5. job \in [Ops -> Jobs] /\ inodes \in [Inodes -> [path : Paths \cup {Root}, refcnt : Nat]]
  BY DEF MInv, MountTypeOK, Jobs
<1>6. /\ job' \in [Ops -> Jobs]
      /\ job'[o].out = "ok" /\ job'[o].child = i /\ job'[o].handle = h
      /\ \A q \in Ops : /\ job'[q].do = job[q].do /\ job'[q].path = job[q].path
                        /\ job'[q].to = job[q].to /\ job'[q].at = job[q].at
                        /\ job'[q].inode = job[q].inode
                        /\ q # o => job'[q] = job[q]
  <2>1. job' = [job EXCEPT ![o] = [job[o] EXCEPT !.out = "ok", !.child = i, !.handle = h]]
    BY <1>3, <1>5
  <2>2. job[o] \in Jobs
    BY <1>5
  <2>3. [job[o] EXCEPT !.out = "ok", !.child = i, !.handle = h] \in Jobs
    BY <2>2 DEF Jobs
  <2>4. QED
    BY <1>5, <2>1, <2>2, <2>3 DEF Jobs
<1>7. /\ inodes' \in [Inodes -> [path : Paths \cup {Root}, refcnt : Nat]]
      /\ pathToInode' \in [Paths -> Inodes \cup {0}]
      /\ inodes'[i].path = job[o].path /\ inodes'[i].refcnt = inodes[i].refcnt + 1
      /\ pathToInode'[job[o].path] = i
      /\ \A k \in Inodes : k # i => inodes'[k] = inodes[k]
      /\ \A p \in Paths : p # job[o].path => pathToInode'[p] = pathToInode[p]
      /\ i < nextInodeID' /\ nextInodeID <= nextInodeID' /\ nextInodeID' \in 2..(MaxInode + 1)
      /\ inodes[i].path \in {Root, job[o].path} /\ pathToInode[job[o].path] \in {0, i}
  <2>1. CASE pathToInode[job[o].path] = i /\ inodes' = Counted(i) /\ UNCHANGED <<pathToInode, nextInodeID>>
    <3>1. inodes[i].path = job[o].path
      BY <1>2, <2>1 DEF MInv, MapsAgree
    <3>2. inodes[i] # NoRef
      BY <1>2, <3>1, MountAssumption DEF NoRef
    <3>3. i < nextInodeID
      BY <3>2, Numbers DEF MInv, TableSound, MountTypeOK
    <3>4. inodes[i] \in [path : Paths \cup {Root}, refcnt : Nat]
      BY <1>5
    <3>5. inodes' = [inodes EXCEPT ![i] = [inodes[i] EXCEPT !.refcnt = @ + 1]]
      BY <2>1, <1>5 DEF Counted
    <3>6. /\ [inodes[i] EXCEPT !.refcnt = @ + 1] \in [path : Paths \cup {Root}, refcnt : Nat]
          /\ [inodes[i] EXCEPT !.refcnt = @ + 1].path = inodes[i].path
          /\ [inodes[i] EXCEPT !.refcnt = @ + 1].refcnt = inodes[i].refcnt + 1
      BY <3>4
    <3>7. QED
      BY <1>2, <1>5, <2>1, <3>1, <3>3, <3>5, <3>6 DEF MInv, MountTypeOK
  <2>2. CASE /\ i = nextInodeID /\ (pathToInode[job[o].path] = 0 \/ inodes[pathToInode[job[o].path]] = NoRef)
             /\ inodes' = [inodes EXCEPT ![i] = [path |-> job[o].path, refcnt |-> 1]]
             /\ pathToInode' = [pathToInode EXCEPT ![job[o].path] = i]
             /\ nextInodeID' = nextInodeID + 1
    <3>1. inodes[i] = NoRef
      BY <2>2, Numbers DEF MInv, TableSound
    <3>2. pathToInode \in [Paths -> Inodes \cup {0}]
      BY DEF MInv, MountTypeOK
    <3>3. pathToInode[job[o].path] = 0
      <4>1. SUFFICES ASSUME pathToInode[job[o].path] # 0 PROVE FALSE
        OBVIOUS
      <4>2. pathToInode[job[o].path] \in Inodes
        BY <1>2, <3>2, <4>1
      <4>3. inodes[pathToInode[job[o].path]].path = job[o].path
        BY <1>2, <4>2 DEF MInv, MapsAgree
      <4>4. QED
        BY <1>2, <2>2, <4>1, <4>3, MountAssumption DEF NoRef
    <3>4. nextInodeID' \in 2..(MaxInode + 1) /\ i < nextInodeID'
      BY <2>2, MountAssumption DEF MInv, MountTypeOK, Inodes
    <3>5. QED
      BY <1>2, <1>5, <2>2, <3>1, <3>2, <3>3, <3>4, Numbers DEF NoRef, MInv, MountTypeOK
  <2>3. QED
    BY <1>3, <2>1, <2>2
<1>8. handles' \in [Handles -> Inodes \cup {0, RootInode}]
  BY <1>3 DEF MInv, MountTypeOK
<1>9. MountTypeOK'
  BY <1>4, <1>6, <1>7, <1>8 DEF MInv, MountTypeOK, Jobs
<1>10. MapsAgree'
  <2>1. ASSUME NEW k \in Inodes, NEW p \in Paths PROVE pathToInode'[p] = k <=> inodes'[k].path = p
    <3>1. pathToInode[p] = k <=> inodes[k].path = p
      BY DEF MInv, MapsAgree
    <3>2. CASE k = i
      BY <1>2, <1>7, <3>1, <3>2, MountAssumption
    <3>3. CASE k # i
      BY <1>2, <1>7, <3>1, <3>3, Numbers
    <3>4. QED
      BY <3>2, <3>3
  <2>2. QED
    BY <2>1 DEF MapsAgree
<1>11. TableSound'
  <2>1. ASSUME NEW k \in Inodes
        PROVE  /\ inodes'[k].path = Root <=> inodes'[k].refcnt = 0
               /\ k >= nextInodeID' => inodes'[k] = NoRef
    <3>1. CASE k = i
      BY <1>2, <1>5, <1>7, <3>1, MountAssumption, Numbers
    <3>2. CASE k # i
      BY <1>7, <3>2, Numbers DEF MInv, TableSound, MountTypeOK
    <3>3. QED
      BY <3>1, <3>2
  <2>2. QED
    BY <2>1 DEF TableSound
<1>12. HandlesAgree'
  <2>1. ASSUME NEW g \in Handles
        PROVE  handles'[g] # 0 <=> opened'[g] # 0 \/ \E q \in Ops : job'[q].handle = g
    <3>1. CASE g = h
      BY <1>3, <1>6, <3>1, MountAssumption, Numbers DEF MInv, MountTypeOK
    <3>2. CASE g # h
      <4>1. (\E q \in Ops : job'[q].handle = g) <=> \E q \in Ops : job[q].handle = g
        BY <1>2, <1>6, <3>2, MountAssumption
      <4>2. handles'[g] = handles[g] /\ opened'[g] = opened[g]
        BY <1>3, <1>4, <3>2 DEF MInv, MountTypeOK
      <4>3. QED
        BY <4>1, <4>2 DEF MInv, HandlesAgree
    <3>3. QED
      BY <3>1, <3>2
  <2>2. QED
    BY <2>1 DEF HandlesAgree
<1>13. CountsAgree'
  <2>1. ASSUME NEW k \in Inodes
        PROVE  inodes'[k].refcnt = lookups'[k] + Cardinality(Answers(k)') + forgets'[k]
    <3>1. CASE k = i
      <4>1. Answers(k)' = Answers(k) \cup {o} /\ o \notin Answers(k)
        BY <1>2, <1>6, <3>1, Numbers DEF Answers
      <4>2. Cardinality(Answers(k)') = Cardinality(Answers(k)) + 1
        BY <4>1, Answering, FS_AddElement
      <4>3. Cardinality(Answers(k)) \in Nat /\ lookups[k] \in Nat /\ forgets[k] \in Nat
        BY Answering DEF MInv, MountTypeOK
      <4>4. QED
        BY <1>4, <1>7, <3>1, <4>2, <4>3, SMTT(30) DEF MInv, CountsAgree
    <3>2. CASE k # i
      <4>1. Answers(k)' = Answers(k)
        BY <1>2, <1>6, <3>2, Numbers DEF Answers
      <4>2. QED
        BY <1>4, <1>7, <3>2, <4>1 DEF MInv, CountsAgree
    <3>3. QED
      BY <3>1, <3>2
  <2>2. QED
    BY <2>1 DEF CountsAgree
<1>14. NamesCounted'
  BY <1>4, <1>6 DEF MInv, NamesCounted, Counts
<1>15. JobsSound'
  <2>1. ASSUME NEW q \in Ops, q # o PROVE JobSound(q)'
    BY <1>4, <1>6, <2>1 DEF MInv, JobsSound, JobSound
  <2>2. JobSound(o)'
    <3>1. h # 0 => job[o].do = "create"
      BY <1>3
    <3>2. QED
      BY <1>1, <1>2, <1>4, <1>6, <3>1, Numbers DEF MInv, JobsSound, JobSound
  <2>3. QED
    BY <2>1, <2>2 DEF JobsSound
<1>16. QED
  BY <1>9, <1>10, <1>11, <1>12, <1>13, <1>14, <1>15 DEF MInv

(* A name goes, of which nothing below it and no operation knows.          *)
LEMMA DropMInv ==
  ASSUME MInv, TypeOK', NEW s \in Spots, DropName(s)
  PROVE  MInv'
<1> USE DEF table, vars
<1>1. /\ UNCHANGED <<inodes, pathToInode, nextInodeID, handles, pc, answer, job, lookups, opened, forgets>>
      /\ name' = [name EXCEPT ![s] = 0]
  BY DEF DropName
<1>2. MountTypeOK'
  BY <1>1 DEF MInv, MountTypeOK
<1>3. TableSound' /\ MapsAgree' /\ HandlesAgree'
  BY <1>1 DEF MInv, TableSound, MapsAgree, HandlesAgree
<1>4. CountsAgree'
  BY <1>1 DEF MInv, CountsAgree, Answers
<1>5. NamesCounted'
  BY <1>1, Numbers DEF MInv, NamesCounted, Counts, MountTypeOK
<1>6. JobsSound'
  BY <1>1 DEF MInv, JobsSound, JobSound
<1>7. QED
  BY <1>2, <1>3, <1>4, <1>5, <1>6 DEF MInv

(* The kernel gives lookups of an inode back, the last ones when it cannot *)
(* name it any more.                                                       *)
LEMMA EvictMInv ==
  ASSUME MInv, TypeOK', NEW i \in Inodes, NEW n \in 1..lookups[i], Evict(i, n)
  PROVE  MInv'
<1> USE DEF table, vars
<1>1. /\ UNCHANGED <<inodes, pathToInode, nextInodeID, handles, pc, answer, job, name, opened>>
      /\ lookups' = [lookups EXCEPT ![i] = @ - n]
      /\ forgets' = [forgets EXCEPT ![i] = @ + n]
      /\ n < lookups[i] \/ ~Pinned(i)
  BY DEF Evict
<1>2. /\ lookups \in [Inodes -> Nat] /\ forgets \in [Inodes -> Nat]
      /\ n \in Nat /\ lookups[i] - n \in Nat
  BY DEF MInv, MountTypeOK
<1>3. MountTypeOK'
  BY <1>1, <1>2 DEF MInv, MountTypeOK
<1>4. TableSound' /\ MapsAgree' /\ HandlesAgree'
  BY <1>1 DEF MInv, TableSound, MapsAgree, HandlesAgree
<1>5. CountsAgree'
  <2>1. ASSUME NEW k \in Inodes
        PROVE  inodes'[k].refcnt = lookups'[k] + Cardinality(Answers(k)') + forgets'[k]
    <3>1. Answers(k)' = Answers(k)
      BY <1>1 DEF Answers
    <3>2. inodes[k].refcnt = lookups[k] + Cardinality(Answers(k)) + forgets[k]
      BY DEF MInv, CountsAgree
    <3>3. lookups'[k] + forgets'[k] = lookups[k] + forgets[k]
      BY <1>1, <1>2
    <3>4. lookups'[k] \in Nat /\ forgets'[k] \in Nat
      BY <1>3 DEF MountTypeOK
    <3>5. QED
      BY <1>1, <1>2, <3>1, <3>2, <3>3, <3>4, Answering
  <2>2. QED
    BY <2>1 DEF CountsAgree
<1>6. NamesCounted'
  <2>1. ASSUME NEW k, Counts(k), k # i PROVE Counts(k)'
    BY <1>1, <1>2, <2>1 DEF Counts
  <2>2. CASE n < lookups[i]
    <3>1. Counts(i)'
      BY <1>1, <1>2, <2>2 DEF Counts
    <3>2. QED
      BY <1>1, <2>1, <3>1 DEF MInv, NamesCounted
  <2>3. CASE ~Pinned(i)
    <3>1. \A s \in Spots : name[s] # i
      BY <2>3 DEF Pinned, InUse, IsDir, Links
    <3>2. \A h \in Handles : opened[h] # i
      BY <2>3 DEF Pinned, InUse
    <3>3. \A o \in Ops : job[o].inode # i /\ job[o].at[1] # i /\ job[o].to[1] # i
      BY <2>3 DEF Pinned
    <3>4. QED
      BY <1>1, <2>1, <3>1, <3>2, <3>3 DEF MInv, NamesCounted
  <2>4. QED
    BY <1>1, <2>2, <2>3
<1>7. JobsSound'
  BY <1>1 DEF MInv, JobsSound, JobSound
<1>8. QED
  BY <1>3, <1>4, <1>5, <1>6, <1>7 DEF MInv

(* The adapter forgets: with the last count the inode goes, and then nobody*)
(* has it.                                                                 *)
LEMMA ForgetMInv ==
  ASSUME MInv, TypeOK', NEW i \in Inodes, NEW n \in 1..forgets[i], ForgetInode(i, n)
  PROVE  MInv'
<1> USE DEF vars
<1>1. /\ UNCHANGED <<nextInodeID, handles, pc, answer, job, name, lookups, opened>>
      /\ forgets' = [forgets EXCEPT ![i] = @ - n]
  BY DEF ForgetInode
<1>2. /\ lookups \in [Inodes -> Nat] /\ forgets \in [Inodes -> Nat]
      /\ inodes \in [Inodes -> [path : Paths \cup {Root}, refcnt : Nat]]
      /\ pathToInode \in [Paths -> Inodes \cup {0}]
  BY DEF MInv, MountTypeOK
<1>3. forgets[i] \in Nat /\ n \in Nat /\ n >= 1 /\ n <= forgets[i]
  BY <1>2
<1>4. /\ inodes[i].refcnt = lookups[i] + Cardinality(Answers(i)) + forgets[i]
      /\ Cardinality(Answers(i)) \in Nat /\ lookups[i] \in Nat
  BY <1>2, Answering DEF MInv, CountsAgree
<1>5. inodes[i].refcnt >= n /\ inodes[i].refcnt \in Nat /\ inodes[i].refcnt # 0
  BY <1>2, <1>3, <1>4
<1>6. inodes[i].path \in Paths /\ inodes[i] # NoRef
  BY <1>2, <1>5 DEF MInv, TableSound, NoRef
<1>7. /\ inodes' \in [Inodes -> [path : Paths \cup {Root}, refcnt : Nat]]
      /\ pathToInode' \in [Paths -> Inodes \cup {0}]
      /\ inodes'[i].refcnt = inodes[i].refcnt - n
      /\ \A k \in Inodes : k # i => inodes'[k] = inodes[k]
      /\ \A p \in Paths : p # inodes[i].path => pathToInode'[p] = pathToInode[p]
      /\ IF inodes[i].refcnt = n THEN inodes'[i] = NoRef /\ pathToInode'[inodes[i].path] = 0
                                 ELSE inodes'[i].path = inodes[i].path /\ pathToInode' = pathToInode
  <2>1. /\ inodes' = [inodes EXCEPT ![i] = Forgotten(inodes[i], n)]
        /\ pathToInode' = IF Forgotten(inodes[i], n) = NoRef THEN [pathToInode EXCEPT ![inodes[i].path] = 0]
                                                             ELSE pathToInode
    BY <1>6 DEF ForgetInode
  <2>2. CASE inodes[i].refcnt = n
    <3>1. Forgotten(inodes[i], n) = NoRef
      BY <1>3, <2>2 DEF Forgotten
    <3>2. QED
      BY <1>2, <1>3, <1>6, <2>1, <2>2, <3>1 DEF NoRef
  <2>3. CASE inodes[i].refcnt # n
    <3>1. inodes[i].refcnt > n
      BY <1>3, <1>5, <2>3
    <3>2. inodes[i] \in [path : Paths \cup {Root}, refcnt : Nat]
      BY <1>2
    <3>3. Forgotten(inodes[i], n) = [inodes[i] EXCEPT !.refcnt = @ - n]
      BY <3>1 DEF Forgotten
    <3>4. inodes[i].refcnt - n \in Nat /\ inodes[i].refcnt - n # 0
      BY <1>3, <1>5, <3>1
    <3>5. /\ Forgotten(inodes[i], n) \in [path : Paths \cup {Root}, refcnt : Nat]
          /\ Forgotten(inodes[i], n).path = inodes[i].path
          /\ Forgotten(inodes[i], n).refcnt = inodes[i].refcnt - n
      BY <3>2, <3>3, <3>4
    <3>6. Forgotten(inodes[i], n) # NoRef
      BY <3>4, <3>5 DEF NoRef
    <3>7. QED
      BY <1>2, <2>1, <2>3, <3>5, <3>6
  <2>4. QED
    BY <2>2, <2>3
<1>8. forgets' \in [Inodes -> Nat] /\ forgets'[i] = forgets[i] - n
  BY <1>1, <1>2, <1>3
<1>9. MountTypeOK'
  BY <1>1, <1>7, <1>8 DEF MInv, MountTypeOK
<1>10. MapsAgree'
  <2>1. ASSUME NEW k \in Inodes, NEW p \in Paths PROVE pathToInode'[p] = k <=> inodes'[k].path = p
    <3>1. pathToInode[p] = k <=> inodes[k].path = p
      BY DEF MInv, MapsAgree
    <3>2. pathToInode[inodes[i].path] = i
      BY <1>6 DEF MInv, MapsAgree
    <3>3. CASE inodes[i].refcnt = n
      BY <1>6, <1>7, <3>1, <3>2, <3>3, Numbers, MountAssumption DEF NoRef
    <3>4. CASE inodes[i].refcnt # n
      BY <1>7, <3>1, <3>4
    <3>5. QED
      BY <3>3, <3>4
  <2>2. QED
    BY <2>1 DEF MapsAgree
<1>11. TableSound'
  <2>1. ASSUME NEW k \in Inodes
        PROVE  /\ inodes'[k].path = Root <=> inodes'[k].refcnt = 0
               /\ k >= nextInodeID' => inodes'[k] = NoRef
    <3>1. CASE k = i
      <4>1. ~(i >= nextInodeID)
        BY <1>6 DEF MInv, TableSound
      <4>2. CASE inodes[i].refcnt = n
        BY <1>1, <1>7, <3>1, <4>1, <4>2 DEF NoRef
      <4>3. CASE inodes[i].refcnt # n
        <5>1. inodes'[i].path # Root
          BY <1>6, <1>7, <4>3, MountAssumption
        <5>2. inodes'[i].refcnt # 0
          BY <1>3, <1>5, <1>7, <4>3
        <5>3. nextInodeID' = nextInodeID
          BY <1>1
        <5>4. QED
          BY <3>1, <4>1, <5>1, <5>2, <5>3
      <4>4. QED
        BY <4>2, <4>3
    <3>2. CASE k # i
      BY <1>1, <1>7, <3>2 DEF MInv, TableSound
    <3>3. QED
      BY <3>1, <3>2
  <2>2. QED
    BY <2>1 DEF TableSound
<1>12. CountsAgree'
  <2>1. ASSUME NEW k \in Inodes
        PROVE  inodes'[k].refcnt = lookups'[k] + Cardinality(Answers(k)') + forgets'[k]
    <3>1. Answers(k)' = Answers(k)
      BY <1>1 DEF Answers
    <3>2. CASE k = i
      BY <1>1, <1>3, <1>4, <1>7, <1>8, <3>1, <3>2
    <3>3. CASE k # i
      BY <1>1, <1>2, <1>7, <3>1, <3>3 DEF MInv, CountsAgree
    <3>4. QED
      BY <3>2, <3>3
  <2>2. QED
    BY <2>1 DEF CountsAgree
<1>13. HandlesAgree' /\ NamesCounted'
  BY <1>1 DEF MInv, HandlesAgree, NamesCounted, Counts
<1>14. JobsSound'
  BY <1>1 DEF MInv, JobsSound, JobSound
<1>15. QED
  BY <1>9, <1>10, <1>11, <1>12, <1>13, <1>14 DEF MInv

(* A handle is released when no operation uses it.                         *)
LEMMA ReleaseMInv ==
  ASSUME MInv, TypeOK', NEW h \in Handles, ReleaseHandle(h)
  PROVE  MInv'
<1> USE DEF vars
<1>1. /\ UNCHANGED <<inodes, pathToInode, nextInodeID, pc, answer, job, name, lookups, forgets>>
      /\ opened' = [opened EXCEPT ![h] = 0] /\ handles' = [handles EXCEPT ![h] = 0]
      /\ \A o \in Ops : job[o].handle # h
  BY DEF ReleaseHandle
<1>2. MountTypeOK'
  BY <1>1 DEF MInv, MountTypeOK
<1>3. TableSound' /\ MapsAgree'
  BY <1>1 DEF MInv, TableSound, MapsAgree
<1>4. HandlesAgree'
  BY <1>1 DEF MInv, HandlesAgree, MountTypeOK
<1>5. CountsAgree'
  BY <1>1 DEF MInv, CountsAgree, Answers
<1>6. NamesCounted'
  BY <1>1, Numbers DEF MInv, NamesCounted, Counts, MountTypeOK
<1>7. JobsSound'
  <2>1. ASSUME NEW q \in Ops PROVE JobSound(q)'
    <3>1. job[q].handle \in Handles => opened'[job[q].handle] = opened[job[q].handle]
      BY <1>1 DEF MInv, MountTypeOK
    <3>2. job[q].handle \in Handles \cup {0}
      BY DEF MInv, MountTypeOK
    <3>3. QED
      BY <1>1, <3>1, <3>2 DEF MInv, JobsSound, JobSound
  <2>2. QED
    BY <2>1 DEF JobsSound
<1>8. QED
  BY <1>2, <1>3, <1>4, <1>5, <1>6, <1>7 DEF MInv
-----------------------------------------------------------------------------
(* The kernel asks, and takes answers.                                     *)

(* What it asks about it has counted.                                      *)
LEMMA AskMInv ==
  ASSUME MInv, TypeOK', NEW o \in Ops, NEW what \in Jobs,
         job[o] = NoJob, Ask(o, what),
         what.out = "none", what.child = 0,
         Counts(what.inode), Counts(what.at[1]), Counts(what.to[1]),
         what.do # "handle" => what.handle = 0,
         what.do = "handle" => what.handle # 0 /\ opened[what.handle] # 0,
         what.do = "inode"  => what.inode # 0,
         what.do = "create" => what.inode = 0,
         what.do \in NameAsks => what.at \in Spots /\ what.path \in Paths,
         what.do = "rename" => what.to \in Spots /\ what.inode \in Inodes
  PROVE  MInv'
<1> USE DEF vars, table, kernel
<1>1. /\ UNCHANGED <<inodes, pathToInode, nextInodeID, handles, pc, answer, name, lookups, opened, forgets>>
      /\ job' = [job EXCEPT ![o] = what]
  BY DEF Ask
<1>2. job \in [Ops -> Jobs]
  BY DEF MInv, MountTypeOK, Jobs
<1>3. job' \in [Ops -> Jobs] /\ job'[o] = what /\ \A q \in Ops : q # o => job'[q] = job[q]
  BY <1>1, <1>2
<1>4. job[o].handle = 0 /\ job[o].child = 0
  BY DEF NoJob
<1>5. MountTypeOK'
  BY <1>1, <1>3 DEF MInv, MountTypeOK, Jobs
<1>6. TableSound' /\ MapsAgree'
  BY <1>1 DEF MInv, TableSound, MapsAgree
<1>7. HandlesAgree'
  <2>1. ASSUME NEW g \in Handles
        PROVE  handles'[g] # 0 <=> opened'[g] # 0 \/ \E q \in Ops : job'[q].handle = g
    <3>1. handles[g] # 0 <=> opened[g] # 0 \/ \E q \in Ops : job[q].handle = g
      BY DEF MInv, HandlesAgree
    <3>2. what.handle = g => opened[g] # 0
      BY MountAssumption
    <3>3. g # 0
      BY MountAssumption
    <3>4. (opened[g] # 0 \/ \E q \in Ops : job'[q].handle = g)
            <=> (opened[g] # 0 \/ \E q \in Ops : job[q].handle = g)
      BY <1>3, <1>4, <3>2, <3>3
    <3>5. QED
      BY <1>1, <3>1, <3>4
  <2>2. QED
    BY <2>1 DEF HandlesAgree
<1>8. CountsAgree'
  <2>1. ASSUME NEW i \in Inodes PROVE Answers(i)' = Answers(i)
    BY <1>3, <1>4 DEF Answers
  <2>2. QED
    BY <1>1, <2>1 DEF MInv, CountsAgree
<1>9. NamesCounted'
  <2>1. ASSUME NEW q \in Ops PROVE Counts(job[q].inode)' /\ Counts(job[q].at[1])' /\ Counts(job[q].to[1])'
    <3>1. CASE q = o
      BY <1>1, <1>3, <3>1 DEF Counts
    <3>2. CASE q # o
      BY <1>1, <1>3, <3>2 DEF MInv, NamesCounted, Counts
    <3>3. QED
      BY <3>1, <3>2
  <2>2. QED
    BY <1>1, <2>1 DEF MInv, NamesCounted, Counts
<1>10. JobsSound'
  <2>1. ASSUME NEW q \in Ops, q # o PROVE JobSound(q)'
    BY <1>1, <1>3, <2>1 DEF MInv, JobsSound, JobSound
  <2>2. JobSound(o)'
    BY <1>1, <1>3 DEF JobSound
  <2>3. QED
    BY <2>1, <2>2 DEF JobsSound
<1>11. QED
  BY <1>5, <1>6, <1>7, <1>8, <1>9, <1>10 DEF MInv

(* A name in the tree is in a directory that is known.                     *)
LEMMA SpotFact ==
  ASSUME MInv, NEW s \in Spots
  PROVE  /\ name[s] \in Inodes \cup {0} /\ Counts(name[s])
         /\ InTree(s) => Counts(s[1]) /\ PathAt(s) \in Paths
<1>1. name[s] \in Inodes \cup {0} /\ Counts(name[s])
  BY DEF MInv, MountTypeOK, NamesCounted
<1>2. ASSUME InTree(s) PROVE Counts(s[1])
  <2>1. CASE s[1] = RootInode
    BY <2>1, Numbers DEF Counts
  <2>2. CASE s[1] # RootInode
    <3>1. PICK u \in Spots : name[u] = s[1]
      BY <1>2, <2>2 DEF InTree, IsDir, Links
    <3>2. QED
      BY <3>1 DEF MInv, NamesCounted
  <2>3. QED
    BY <2>1, <2>2
<1>3. QED
  BY <1>1, <1>2 DEF InTree

(* Each kind of operation the kernel sends meets those conditions.         *)
LEMMA ArriveMInv ==
  ASSUME MInv, TypeOK', NEW o \in Ops, Arrive(o)
  PROVE  MInv'
<1> USE DEF Asks, Jobs, NoJob, NameAsks
<1>0. job[o] = NoJob
  BY DEF Arrive
<1>a. NoSpot[1] = 0 /\ Counts(0)
  BY Numbers DEF NoSpot, Counts
<1>1. ASSUME NEW s \in Spots, AskLookUp(o, s) PROVE MInv'
  <2> DEFINE what == [NoJob EXCEPT !.do = "lookup", !.at = s, !.path = PathAt(s), !.inode = name[s]]
  <2>1. Ask(o, what) /\ InTree(s)
    BY <1>1 DEF AskLookUp
  <2>2. name[s] \in Inodes \cup {0} /\ Counts(name[s]) /\ Counts(s[1]) /\ PathAt(s) \in Paths
    BY <2>1, SpotFact
  <2>3. /\ what \in Jobs /\ what.do = "lookup" /\ what.at = s /\ what.path = PathAt(s) /\ what.to = NoSpot
        /\ what.inode = name[s] /\ what.out = "none" /\ what.child = 0 /\ what.handle = 0
    BY <2>2
  <2> HIDE DEF what
  <2>4. QED
    BY <1>0, <1>a, <2>1, <2>2, <2>3, AskMInv
<1>2. ASSUME NEW s \in Spots, AskCreate(o, s) PROVE MInv'
  <2> DEFINE what == [NoJob EXCEPT !.do = "create", !.at = s, !.path = PathAt(s)]
  <2>1. Ask(o, what) /\ InTree(s)
    BY <1>2 DEF AskCreate
  <2>2. Counts(s[1]) /\ PathAt(s) \in Paths
    BY <2>1, SpotFact
  <2>3. /\ what \in Jobs /\ what.do = "create" /\ what.at = s /\ what.path = PathAt(s) /\ what.to = NoSpot
        /\ what.inode = 0 /\ what.out = "none" /\ what.child = 0 /\ what.handle = 0
    BY <2>2
  <2> HIDE DEF what
  <2>4. QED
    BY <1>0, <1>a, <2>1, <2>2, <2>3, AskMInv
<1>3. ASSUME NEW s \in Spots, AskUnlink(o, s) PROVE MInv'
  <2> DEFINE what == [NoJob EXCEPT !.do = "unlink", !.at = s, !.path = PathAt(s), !.inode = name[s]]
  <2>1. Ask(o, what) /\ InTree(s)
    BY <1>3 DEF AskUnlink
  <2>2. name[s] \in Inodes \cup {0} /\ Counts(name[s]) /\ Counts(s[1]) /\ PathAt(s) \in Paths
    BY <2>1, SpotFact
  <2>3. /\ what \in Jobs /\ what.do = "unlink" /\ what.at = s /\ what.path = PathAt(s) /\ what.to = NoSpot
        /\ what.inode = name[s] /\ what.out = "none" /\ what.child = 0 /\ what.handle = 0
    BY <2>2
  <2> HIDE DEF what
  <2>4. QED
    BY <1>0, <1>a, <2>1, <2>2, <2>3, AskMInv
<1>4. ASSUME NEW s \in Spots, NEW t \in Spots, AskRename(o, s, t) PROVE MInv'
  <2> DEFINE what == [NoJob EXCEPT !.do = "rename", !.at = s, !.to = t, !.path = PathAt(s), !.inode = name[s]]
  <2>1. Ask(o, what) /\ InTree(s) /\ InTree(t) /\ name[s] # 0
    BY <1>4 DEF AskRename
  <2>2. name[s] \in Inodes /\ Counts(name[s]) /\ Counts(s[1]) /\ Counts(t[1]) /\ PathAt(s) \in Paths
    BY <2>1, SpotFact
  <2>3. /\ what \in Jobs /\ what.do = "rename" /\ what.at = s /\ what.path = PathAt(s) /\ what.to = t
        /\ what.inode = name[s] /\ what.out = "none" /\ what.child = 0 /\ what.handle = 0
    BY <2>2
  <2> HIDE DEF what
  <2>4. QED
    BY <1>0, <2>1, <2>2, <2>3, AskMInv
<1>5. ASSUME NEW i \in Inodes \cup {RootInode}, AskInode(o, i) PROVE MInv'
  <2> DEFINE what == [NoJob EXCEPT !.do = "inode", !.inode = i]
  <2>1. Ask(o, what) /\ InUse(i)
    BY <1>5 DEF AskInode
  <2>2. Counts(i) /\ i # 0
    BY <2>1, Numbers DEF InUse, IsDir, Links, MInv, NamesCounted, Counts
  <2>3. /\ what \in Jobs /\ what.do = "inode" /\ what.at = NoSpot /\ what.to = NoSpot /\ what.inode = i
        /\ what.out = "none" /\ what.child = 0 /\ what.handle = 0
    OBVIOUS
  <2> HIDE DEF what
  <2>4. QED
    BY <1>0, <1>a, <2>1, <2>2, <2>3, AskMInv
<1>6. ASSUME NEW h \in Handles, AskHandle(o, h) PROVE MInv'
  <2> DEFINE what == [NoJob EXCEPT !.do = "handle", !.inode = opened[h], !.handle = h]
  <2>1. Ask(o, what) /\ opened[h] # 0
    BY <1>6 DEF AskHandle
  <2>2. opened[h] \in Inodes \cup {0, RootInode} /\ Counts(opened[h]) /\ h # 0
    BY MountAssumption DEF MInv, NamesCounted, MountTypeOK
  <2>3. /\ what \in Jobs /\ what.do = "handle" /\ what.at = NoSpot /\ what.to = NoSpot
        /\ what.inode = opened[h] /\ what.out = "none" /\ what.child = 0 /\ what.handle = h
    BY <2>2
  <2> HIDE DEF what
  <2>4. QED
    BY <1>0, <1>a, <2>1, <2>2, <2>3, AskMInv
<1>7. QED
  BY <1>1, <1>2, <1>3, <1>4, <1>5, <1>6 DEF Arrive

(* What all takings of an answer have in common.                           *)
LEMMA TakeFacts ==
  ASSUME MInv, NEW o \in Ops, Take(o)
  PROVE  /\ job' \in [Ops -> Jobs] /\ job'[o] = NoJob
         /\ \A q \in Ops : q # o => job'[q] = job[q] /\ pc'[q] = pc[q] /\ answer'[q] = answer[q]
         /\ UNCHANGED table
         /\ \A i \in Inodes : Answers(i)' = Answers(i) \ {o} /\ (o \in Answers(i) <=> job[o].child = i)
<1>1. job \in [Ops -> Jobs] /\ pc \in [Ops -> {"idle", "select", "recheck", "returned"}]
      /\ answer \in [Ops -> {"none", "passed", "refused"}]
  BY DEF MInv, MountTypeOK, Jobs, TypeOK
<1>2. NoJob \in Jobs /\ NoJob.do = "none" /\ NoJob.child = 0
  BY DEF NoJob, Jobs
<1>3. job' = [job EXCEPT ![o] = NoJob]
  BY DEF Take
<1>4. job' \in [Ops -> Jobs] /\ job'[o] = NoJob /\ \A q \in Ops : q # o => job'[q] = job[q]
  BY <1>1, <1>2, <1>3
<1>5. \A q \in Ops : q # o => pc'[q] = pc[q] /\ answer'[q] = answer[q]
  BY <1>1 DEF Take, NextOp
<1>6. \A i \in Inodes : Answers(i)' = Answers(i) \ {o} /\ (o \in Answers(i) <=> job[o].child = i)
  BY <1>2, <1>4, Numbers DEF Answers
<1>7. QED
  BY <1>4, <1>5, <1>6 DEF Take

(* An operation that nobody answers or disturbs stays sound: its handle    *)
(* stays open.                                                             *)
LEMMA OthersSound ==
  ASSUME MInv, NEW o \in Ops, Take(o),
         \A h \in Handles : opened[h] # 0 => opened'[h] # 0
  PROVE  JobsSound'
<1>1. ASSUME NEW q \in Ops, q # o PROVE JobSound(q)'
  <2>1. job'[q] = job[q] /\ pc'[q] = pc[q] /\ answer'[q] = answer[q]
    BY <1>1, TakeFacts
  <2>2. job[q].do = "handle" => opened'[job[q].handle] # 0
    BY DEF MInv, JobsSound, JobSound, MountTypeOK
  <2>3. JobSound(q)
    BY DEF MInv, JobsSound
  <2>4. QED
    BY <2>1, <2>2, <2>3 DEF JobSound
<1>2. JobSound(o)'
  BY TakeFacts DEF JobSound, NoJob, NameAsks
<1>3. QED
  BY <1>1, <1>2 DEF JobsSound

(* A refusal or an error brought nothing.                                  *)
LEMMA TakeErrorMInv ==
  ASSUME MInv, TypeOK', NEW o \in Ops, TakeError(o)
  PROVE  MInv'
<1> USE DEF table, kernel
<1>1. Take(o) /\ UNCHANGED <<kernel, table>>
  BY DEF TakeError, Take
<1>2. job[o].out \in {"none", "error"}
  BY DEF TakeError, MInv, JobsSound, JobSound
<1>3. job[o].child = 0 /\ (job[o].handle # 0 => job[o].do = "handle" /\ opened[job[o].handle] # 0)
  BY <1>2 DEF MInv, JobsSound, JobSound
<1>4. MountTypeOK'
  BY <1>1, TakeFacts DEF MInv, MountTypeOK, Jobs
<1>5. TableSound' /\ MapsAgree'
  BY <1>1 DEF MInv, TableSound, MapsAgree
<1>6. HandlesAgree'
  <2>1. ASSUME NEW g \in Handles
        PROVE  handles'[g] # 0 <=> opened'[g] # 0 \/ \E q \in Ops : job'[q].handle = g
    <3>1. handles[g] # 0 <=> opened[g] # 0 \/ \E q \in Ops : job[q].handle = g
      BY DEF MInv, HandlesAgree
    <3>2. job'[o].handle = 0 /\ g # 0
      BY <1>1, TakeFacts, MountAssumption DEF NoJob
    <3>3. (opened[g] # 0 \/ \E q \in Ops : job'[q].handle = g)
            <=> (opened[g] # 0 \/ \E q \in Ops : job[q].handle = g)
      BY <1>1, <1>3, <3>2, TakeFacts
    <3>4. QED
      BY <1>1, <3>1, <3>3
  <2>2. QED
    BY <2>1 DEF HandlesAgree
<1>7. CountsAgree'
  <2>1. ASSUME NEW i \in Inodes PROVE Answers(i)' = Answers(i)
    BY <1>1, <1>3, TakeFacts, Numbers
  <2>2. QED
    BY <1>1, <2>1 DEF MInv, CountsAgree
<1>8. NamesCounted'
  <2>1. ASSUME NEW q \in Ops PROVE Counts(job[q].inode)' /\ Counts(job[q].at[1])' /\ Counts(job[q].to[1])'
    <3>1. CASE q = o
      BY <1>1, <3>1, TakeFacts, Numbers DEF Counts, NoJob, NoSpot
    <3>2. CASE q # o
      BY <1>1, <3>2, TakeFacts DEF MInv, NamesCounted, Counts
    <3>3. QED
      BY <3>1, <3>2
  <2>2. QED
    BY <1>1, <2>1 DEF MInv, NamesCounted, Counts
<1>9. JobsSound'
  BY <1>1, OthersSound
<1>10. QED
  BY <1>1, <1>4, <1>5, <1>6, <1>7, <1>8, <1>9, TakeFacts DEF MInv

(* The kernel counts the inode of an answer, or gives it back at once.     *)
LEMMA TakeInodeMInv ==
  ASSUME MInv, TypeOK', NEW o \in Ops, TakeInode(o)
  PROVE  MInv'
<1> USE DEF table
<1>1. Take(o) /\ UNCHANGED table /\ job[o].child # 0
  BY DEF TakeInode, Take
<1>2. PICK i \in Inodes : job[o].child = i
  BY <1>1 DEF MInv, MountTypeOK
<1>3. job[o].at \in Spots /\ job[o].do \in {"lookup", "create"} /\ job[o].handle \in Handles \cup {0}
      /\ (job[o].handle # 0 => job[o].inode = 0)
  BY <1>1 DEF MInv, MountTypeOK, JobsSound, JobSound, NameAsks
<1>4. opened' = IF job[o].handle # 0 THEN [opened EXCEPT ![job[o].handle] = i] ELSE opened
  BY <1>2 DEF TakeInode
<1>5. \/ /\ job[o].inode \in {0, i}
         /\ lookups' = [lookups EXCEPT ![i] = @ + 1]
         /\ IF job[o].inode = 0 THEN Splice(o) ELSE name' = name
         /\ forgets' = forgets
      \/ /\ job[o].inode \notin {0, i}
         /\ forgets' = [forgets EXCEPT ![i] = @ + 1] /\ name' = name /\ lookups' = lookups
  BY <1>2 DEF TakeInode
<1>6. lookups \in [Inodes -> Nat] /\ forgets \in [Inodes -> Nat] /\ name \in [Spots -> Inodes \cup {0}]
      /\ opened \in [Handles -> Inodes \cup {0, RootInode}]
  BY DEF MInv, MountTypeOK
<1>7. ASSUME Splice(o)
      PROVE  name' \in [Spots -> Inodes \cup {0}] /\ \A s \in Spots : name'[s] \in {0, name[s], i}
  BY <1>2, <1>3, <1>6, <1>7 DEF Splice
<1>8. /\ lookups' \in [Inodes -> Nat] /\ forgets' \in [Inodes -> Nat] /\ name' \in [Spots -> Inodes \cup {0}]
      /\ lookups'[i] + forgets'[i] = lookups[i] + forgets[i] + 1
      /\ \A k \in Inodes : lookups'[k] >= lookups[k]
                           /\ (k # i => lookups'[k] = lookups[k] /\ forgets'[k] = forgets[k])
      /\ \A s \in Spots : name'[s] \in {0, name[s]} \/ (name'[s] = i /\ lookups'[i] > 0)
      /\ job[o].handle # 0 => lookups'[i] > 0
  BY <1>3, <1>5, <1>6, <1>7
<1>9. opened' \in [Handles -> Inodes \cup {0, RootInode}]
      /\ \A h \in Handles : opened'[h] = IF h = job[o].handle THEN i ELSE opened[h]
  BY <1>3, <1>4, <1>6, MountAssumption
<1>10. MountTypeOK'
  BY <1>1, <1>8, <1>9, TakeFacts DEF MInv, MountTypeOK, Jobs
<1>11. TableSound' /\ MapsAgree'
  BY <1>1 DEF MInv, TableSound, MapsAgree
<1>12. HandlesAgree'
  <2>1. ASSUME NEW g \in Handles
        PROVE  handles'[g] # 0 <=> opened'[g] # 0 \/ \E q \in Ops : job'[q].handle = g
    <3>1. handles[g] # 0 <=> opened[g] # 0 \/ \E q \in Ops : job[q].handle = g
      BY DEF MInv, HandlesAgree
    <3>2. job'[o].handle = 0 /\ g # 0
      BY <1>1, TakeFacts, MountAssumption DEF NoJob
    <3>3. CASE g = job[o].handle
      BY <1>1, <1>9, <3>1, <3>3, Numbers
    <3>4. CASE g # job[o].handle
      BY <1>1, <1>9, <3>1, <3>2, <3>4, TakeFacts
    <3>5. QED
      BY <3>3, <3>4
  <2>2. QED
    BY <2>1 DEF HandlesAgree
<1>13. CountsAgree'
  <2>1. ASSUME NEW k \in Inodes
        PROVE  inodes'[k].refcnt = lookups'[k] + Cardinality(Answers(k)') + forgets'[k]
    <3>1. inodes[k].refcnt = lookups[k] + Cardinality(Answers(k)) + forgets[k]
          /\ Cardinality(Answers(k)) \in Nat /\ IsFiniteSet(Answers(k))
      BY Answering DEF MInv, CountsAgree
    <3>2. CASE k = i
      <4>1. Cardinality(Answers(k)') = Cardinality(Answers(k)) - 1
        BY <1>1, <1>2, <3>1, <3>2, TakeFacts, FS_RemoveElement
      <4>2. QED
        BY <1>1, <1>6, <1>8, <3>1, <3>2, <4>1
    <3>3. CASE k # i
      <4>1. o \notin Answers(k)
        BY <1>1, <1>2, <3>3, TakeFacts
      <4>2. Answers(k)' = Answers(k) \ {o}
        BY <1>1, TakeFacts
      <4>3. Answers(k)' = Answers(k)
        BY <4>1, <4>2
      <4>4. QED
        BY <1>1, <1>8, <3>1, <3>3, <4>3
    <3>4. QED
      BY <3>2, <3>3
  <2>2. QED
    BY <2>1 DEF CountsAgree
<1>14. NamesCounted'
  <2>1. ASSUME NEW k, Counts(k) PROVE Counts(k)'
    BY <1>6, <1>8, <2>1 DEF Counts
  <2>2. ASSUME NEW s \in Spots PROVE Counts(name[s])'
    <3>1. CASE name'[s] \in {0, name[s]}
      BY <2>1, <3>1, Numbers DEF MInv, NamesCounted, Counts
    <3>2. CASE name'[s] = i /\ lookups'[i] > 0
      BY <3>2 DEF Counts
    <3>3. QED
      BY <1>8, <3>1, <3>2
  <2>3. ASSUME NEW h \in Handles PROVE Counts(opened[h])'
    <3>1. CASE h = job[o].handle
      BY <1>8, <1>9, <3>1, MountAssumption DEF Counts
    <3>2. CASE h # job[o].handle
      BY <1>9, <2>1, <3>2 DEF MInv, NamesCounted, Counts
    <3>3. QED
      BY <3>1, <3>2
  <2>4. ASSUME NEW q \in Ops PROVE Counts(job[q].inode)' /\ Counts(job[q].at[1])' /\ Counts(job[q].to[1])'
    <3>1. CASE q = o
      BY <1>1, <3>1, TakeFacts, Numbers DEF Counts, NoJob, NoSpot
    <3>2. CASE q # o
      BY <1>1, <2>1, <3>2, TakeFacts DEF MInv, NamesCounted, Counts
    <3>3. QED
      BY <3>1, <3>2
  <2>5. QED
    BY <2>2, <2>3, <2>4 DEF NamesCounted
<1>15. JobsSound'
  <2>1. \A h \in Handles : opened[h] # 0 => opened'[h] # 0
    BY <1>9, Numbers
  <2>2. QED
    BY <1>1, <2>1, OthersSound
<1>16. QED
  BY <1>1, <1>10, <1>11, <1>12, <1>13, <1>14, <1>15, TakeFacts DEF MInv

(* An open brings a handle, an unlink or a rename changes the names.       *)
LEMMA TakeDoneMInv ==
  ASSUME MInv, TypeOK', NEW o \in Ops, TakeDone(o)
  PROVE  MInv'
<1> USE DEF table
<1>1. Take(o) /\ UNCHANGED table /\ job[o].child = 0 /\ job[o].out = "ok" /\ UNCHANGED <<lookups, forgets>>
  BY DEF TakeDone, Take
<1>2. /\ opened' = (IF job[o].do = "inode" /\ job[o].handle # 0
                     THEN [opened EXCEPT ![job[o].handle] = job[o].inode] ELSE opened)
      /\ name' = CASE job[o].do = "unlink" -> [name EXCEPT ![job[o].at] = 0]
                   [] job[o].do = "rename" -> [name EXCEPT ![job[o].to] = job[o].inode, ![job[o].at] = 0]
                   [] OTHER -> name
  BY DEF TakeDone
<1>3. /\ job[o].handle \in Handles \cup {0} /\ job[o].inode \in Inodes \cup {0, RootInode}
      /\ job[o].handle # 0 /\ job[o].do # "handle" => job[o].do = "inode"
      /\ job[o].do = "handle" => opened[job[o].handle] # 0
      /\ job[o].do = "inode"  => job[o].inode # 0
      /\ job[o].do \in {"unlink", "rename"} => job[o].at \in Spots
      /\ job[o].do = "rename" => job[o].to \in Spots /\ job[o].inode \in Inodes
      /\ Counts(job[o].inode)
  BY <1>1 DEF MInv, MountTypeOK, JobsSound, JobSound, NamesCounted, NameAsks
<1>4. name \in [Spots -> Inodes \cup {0}] /\ opened \in [Handles -> Inodes \cup {0, RootInode}]
  BY DEF MInv, MountTypeOK
<1>5. /\ opened' \in [Handles -> Inodes \cup {0, RootInode}]
      /\ \A h \in Handles : opened'[h] = IF job[o].do = "inode" /\ h = job[o].handle
                                           THEN job[o].inode ELSE opened[h]
  BY <1>2, <1>3, <1>4, MountAssumption
<1>6. /\ name' \in [Spots -> Inodes \cup {0}]
      /\ \A s \in Spots : name'[s] \in {0, name[s], job[o].inode}
  <2>1. CASE job[o].do = "unlink"
    BY <1>2, <1>3, <1>4, <2>1
  <2>2. CASE job[o].do = "rename"
    <3>1. name' = [name EXCEPT ![job[o].to] = job[o].inode, ![job[o].at] = 0]
      BY <1>2, <2>2
    <3>2. name' \in [Spots -> Inodes \cup {0}]
      BY <1>3, <1>4, <2>2, <3>1
    <3>3. ASSUME NEW s \in Spots
          PROVE  name'[s] = IF s = job[o].at THEN 0 ELSE IF s = job[o].to THEN job[o].inode ELSE name[s]
      BY <1>3, <1>4, <2>2, <3>1
    <3>4. QED
      BY <1>3, <2>2, <3>2, <3>3, Numbers
  <2>3. CASE job[o].do \notin {"unlink", "rename"}
    BY <1>2, <1>4, <2>3
  <2>4. QED
    BY <2>1, <2>2, <2>3
<1>7. MountTypeOK'
  BY <1>1, <1>5, <1>6, TakeFacts DEF MInv, MountTypeOK, Jobs
<1>8. TableSound' /\ MapsAgree'
  BY <1>1 DEF MInv, TableSound, MapsAgree
<1>9. HandlesAgree'
  <2>1. ASSUME NEW g \in Handles
        PROVE  handles'[g] # 0 <=> opened'[g] # 0 \/ \E q \in Ops : job'[q].handle = g
    <3>1. handles[g] # 0 <=> opened[g] # 0 \/ \E q \in Ops : job[q].handle = g
      BY DEF MInv, HandlesAgree
    <3>2. job'[o].handle = 0 /\ g # 0 /\ handles' = handles
      BY <1>1, TakeFacts, MountAssumption DEF NoJob
    <3>3. CASE g = job[o].handle
      <4>1. opened'[g] # 0
        BY <1>3, <1>5, <3>2, <3>3
      <4>2. QED
        BY <3>1, <3>2, <3>3, <4>1
    <3>4. CASE g # job[o].handle
      <4>1. opened'[g] = opened[g]
        BY <1>5, <3>4
      <4>2. (\E q \in Ops : job'[q].handle = g) <=> \E q \in Ops : job[q].handle = g
        BY <1>1, <3>2, <3>4, TakeFacts
      <4>3. QED
        BY <3>1, <3>2, <4>1, <4>2
    <3>5. QED
      BY <3>3, <3>4
  <2>2. QED
    BY <2>1 DEF HandlesAgree
<1>10. CountsAgree'
  <2>1. ASSUME NEW i \in Inodes PROVE Answers(i)' = Answers(i)
    BY <1>1, TakeFacts, Numbers
  <2>2. QED
    BY <1>1, <2>1 DEF MInv, CountsAgree
<1>11. NamesCounted'
  <2>1. ASSUME NEW s \in Spots PROVE Counts(name[s])'
    <3>1. Counts(name[s]) /\ Counts(job[o].inode) /\ Counts(0)
      BY <1>3, Numbers DEF MInv, NamesCounted, Counts
    <3>2. QED
      BY <1>1, <1>6, <3>1 DEF Counts
  <2>2. ASSUME NEW h \in Handles PROVE Counts(opened[h])'
    <3>1. Counts(opened[h]) /\ Counts(job[o].inode)
      BY <1>3 DEF MInv, NamesCounted
    <3>2. QED
      BY <1>1, <1>5, <3>1 DEF Counts
  <2>3. ASSUME NEW q \in Ops PROVE Counts(job[q].inode)' /\ Counts(job[q].at[1])' /\ Counts(job[q].to[1])'
    <3>1. CASE q = o
      BY <1>1, <3>1, TakeFacts, Numbers DEF Counts, NoJob, NoSpot
    <3>2. CASE q # o
      BY <1>1, <3>2, TakeFacts DEF MInv, NamesCounted, Counts
    <3>3. QED
      BY <3>1, <3>2
  <2>4. QED
    BY <2>1, <2>2, <2>3 DEF NamesCounted
<1>12. JobsSound'
  <2>1. \A h \in Handles : opened[h] # 0 => opened'[h] # 0
    BY <1>3, <1>5
  <2>2. QED
    BY <1>1, <2>1, OthersSound
<1>13. QED
  BY <1>1, <1>7, <1>8, <1>9, <1>10, <1>11, <1>12, TakeFacts DEF MInv

-----------------------------------------------------------------------------
(* The invariant holds, and with it what the kernel may rely on.           *)

(* Every step preserves it.                                                *)
LEMMA MInvStep == IInv /\ MInv /\ [MountNext]_mountVars => MInv'
<1> SUFFICES ASSUME IInv, MInv, [MountNext]_mountVars PROVE MInv'
  OBVIOUS
<1>1. TypeOK'
  <2>1. [Next]_vars
    BY GateStep DEF mountVars, vars
  <2>2. QED
    BY <2>1, StepIInv DEF IInv
<1>2. ASSUME NEW o \in Ops, Arrive(o) PROVE MInv'
  BY <1>1, <1>2, ArriveMInv
<1>3. ASSUME NEW o \in Ops, AtGate(o) \/ Interrupt(o) PROVE MInv'
  BY <1>1, <1>3, AtGateMInv
<1>4. ASSUME NEW o \in Ops, Serve(o) PROVE MInv'
  BY <1>1, <1>4, ServeMInv, OpenMInv, AllocMInv DEF Serve
<1>5. ASSUME NEW o \in Ops, TakeError(o) \/ TakeInode(o) \/ TakeDone(o) PROVE MInv'
  BY <1>1, <1>5, TakeErrorMInv, TakeInodeMInv, TakeDoneMInv
<1>6. ASSUME NEW s \in Spots, DropName(s) PROVE MInv'
  BY <1>1, <1>6, DropMInv
<1>7. ASSUME NEW i \in Inodes,
             (\E n \in 1..lookups[i] : Evict(i, n)) \/ \E n \in 1..forgets[i] : ForgetInode(i, n)
      PROVE  MInv'
  BY <1>1, <1>7, EvictMInv, ForgetMInv
<1>8. ASSUME NEW h \in Handles, ReleaseHandle(h) PROVE MInv'
  BY <1>1, <1>8, ReleaseMInv
<1>9. CASE Daemon \/ UNCHANGED mountVars
  BY <1>1, <1>9, AtGateMInv
<1>10. QED
  BY <1>2, <1>3, <1>4, <1>5, <1>6, <1>7, <1>8, <1>9 DEF MountNext

(* MInv holds throughout.                                                  *)
LEMMA AlwaysMInv == MountSpec => []MInv
<1>1. MountSpec => []IInv
  BY MountImplementsGate, AlwaysIInv, PTL
<1>2. QED
  BY <1>1, MInvInit, MInvStep, PTL DEF MountSpec

(* The kernel's and the adapter's variables keep their types.              *)
THEOREM MountTypeCorrect == MountSpec => []MountTypeOK
<1>1. MInv => MountTypeOK
  BY DEF MInv
<1>2. QED
  BY <1>1, AlwaysMInv, PTL

(* The adapter's counts are the kernel's, whatever lookups, creates,       *)
(* renames of files and of directories with what is in them, FORGETs and   *)
(* releases are under way at a time: every inode and handle that the kernel*)
(* may name is there, and no other.                                        *)
THEOREM TheKernelIsKnown == MountSpec => []KernelIsKnown
<1>1. MInv => KernelIsKnown
  BY DEF MInv, KernelIsKnown, CountsAgree, MapsAgree, HandlesAgree, JobsSound, JobSound
<1>2. QED
  BY <1>1, AlwaysMInv, PTL
=============================================================================
