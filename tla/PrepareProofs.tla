--------------------------- MODULE PrepareProofs ---------------------------
(***************************************************************************)
(* Proofs about Prepare, for any configurations, workers, clients and      *)
(* bounds.                                                                 *)
(***************************************************************************)
EXTENDS Prepare, TLAPS

(* What syncRepos has read and found out when it acts on it.               *)
SyncSound ==
  /\ sync.pc \in {"unmount", "remount", "supersede", "reset", "start"} => sync.seen.cfg \in Configs
  /\ sync.pc \in {"supersede", "reset", "start"} => rt.cfg = sync.seen.cfg
  /\ sync.pc \in {"remount", "supersede"} => \A t \in Tokens : ~worker[t].alive

(* A process that writes the row back read one.                            *)
ClientsSound == \A c \in Clients : cli[c].op # "none" => cli[c].seen.cfg \in Configs

(* A preparation that is not cancelled is the only one, and works for the  *)
(* runtime that is mounted.                                                *)
LiveSound(t) ==
  /\ worker[t].pc # "idle" => worker[t].cfg \in Configs
  /\ worker[t].alive => preparing = t /\ worker[t].pc # "idle" /\ rt.cfg = worker[t].cfg

(* It may have captured a runtime it was not started for; then its context *)
(* is cancelled, and it does not get past the checks that take it.         *)
HeldSound(t) ==
  worker[t].held =>
    /\ rt.cfg \in Configs
    /\ worker[t].pc \in {"reconciled", "serve", "final", "open", "activate"} => worker[t].alive

(* How far a preparation has come.                                         *)
Progress(t) ==
  worker[t].alive =>
    /\ worker[t].pc = "resolve" => head = worker[t].cfg
    /\ worker[t].pc \in {"publish", "recheck", "ready", "capture", "verify", "reconciled", "serve"}
         => worker[t].tree = worker[t].cfg
    /\ worker[t].pc \in {"recheck", "ready"} => snap = worker[t].cfg
    /\ worker[t].held /\ worker[t].pc \in {"final", "open"} => rt.tree = worker[t].cfg

WorkersSound == \A t \in Tokens : LiveSound(t) /\ HeldSound(t) /\ Progress(t)

IInv == TypeOK /\ SyncSound /\ ClientsSound /\ WorkersSound /\ OpenGateServesConfig

USE PrepareAssumption

-----------------------------------------------------------------------------
(* Rows and runtimes.                                                      *)

(* A row names a configuration exactly when it is there.                   *)
LEMMA RowFacts ==
  ASSUME NEW r \in Rows
  PROVE  /\ r.cfg \in Known /\ r.state \in {"preparing", "ready", "failed", "absent"}
         /\ r.cfg \in Configs <=> r # NoRow
         /\ r.cfg \in Configs <=> r.state # "absent"
BY DEF Rows, NoRow, Known

(* A conditional update of the row by somebody who knows a configuration   *)
(* changes its state alone, and none when the row has another.             *)
LEMMA RowUpdate ==
  ASSUME row \in Rows, NEW cfg \in Configs, NEW s \in {"preparing", "ready", "failed"},
         UpdatePrepareStateForConfig(cfg, s)
  PROVE  /\ row' \in Rows
         /\ row'.cfg = row.cfg
         /\ row.cfg # cfg => row' = row
         /\ row.cfg = cfg => row'.state = s
BY DEF Rows, NoRow, UpdatePrepareStateForConfig

(* A runtime names a configuration exactly when it is there.               *)
LEMMA RuntimeFacts ==
  ASSUME NEW r \in Runtimes
  PROVE  /\ r.cfg \in Known /\ r.tree \in Known
         /\ r.cfg \in Configs <=> r # NoRuntime
         /\ r.cfg \in Configs <=> r.gate # "absent"
BY DEF Runtimes, NoRuntime, Known

(* What mountRepo and mountAsyncRepo put in Service.running is a runtime.  *)
LEMMA NewRuntime ==
  ASSUME NEW cfg \in Configs, NEW g \in {"none", "closed", "failed", "open"},
         NEW k \in Known, NEW a \in BOOLEAN
  PROVE  /\ [cfg |-> cfg, gate |-> g, tree |-> k, active |-> a] \in Runtimes
         /\ [cfg |-> cfg, gate |-> g, tree |-> k, active |-> a].cfg = cfg
BY DEF Runtimes

(* A runtime that is there stays one when its fields are set.              *)
LEMMA RuntimeUpdate ==
  ASSUME NEW r \in Runtimes, r.cfg \in Configs,
         NEW g \in {"none", "closed", "failed", "open"}, NEW cfg \in Configs, NEW k \in Known
  PROVE  /\ [r EXCEPT !.tree = k] \in Runtimes
         /\ [r EXCEPT !.gate = g] \in Runtimes
         /\ [r EXCEPT !.gate = g, !.cfg = cfg] \in Runtimes
         /\ [r EXCEPT !.active = TRUE] \in Runtimes
<1>1. r \in [cfg : Configs, gate : {"none", "closed", "failed", "open"}, tree : Known, active : BOOLEAN]
  BY DEF Runtimes, NoRuntime
<1>2. [r EXCEPT !.tree = k] \in Runtimes
  BY <1>1 DEF Runtimes
<1>3. [r EXCEPT !.gate = g] \in Runtimes
  BY <1>1 DEF Runtimes
<1>4. [r EXCEPT !.gate = g, !.cfg = cfg] \in Runtimes
  BY <1>1 DEF Runtimes
<1>5. [r EXCEPT !.active = TRUE] \in Runtimes
  BY <1>1 DEF Runtimes
<1> QED
  BY <1>2, <1>3, <1>4, <1>5

(* Nothing runs and nothing is registered.                                 *)
LEMMA Initially == Init => IInv
<1> SUFFICES ASSUME Init PROVE IInv
  OBVIOUS
<1> USE DEF Init, Idle, AtRest, NoCall
<1>1. TypeOK
  BY DEF TypeOK, Rows, Runtimes, Known, WorkerPC, SyncPC
<1>2. SyncSound /\ ClientsSound /\ WorkersSound /\ OpenGateServesConfig
  BY DEF SyncSound, ClientsSound, WorkersSound, LiveSound, HeldSound, Progress,
         OpenGateServesConfig, NoRuntime
<1> QED
  BY <1>1, <1>2 DEF IInv

-----------------------------------------------------------------------------
(* Types.                                                                  *)

WorkerType == [pc : WorkerPC, cfg : Known, tree : Known, alive : BOOLEAN, held : BOOLEAN]

(* Every step keeps the types: whoever writes the row knows a              *)
(* configuration, and whoever holds a runtime finds one.                   *)
LEMMA TypeStep == IInv /\ [Next]_vars => TypeOK'
<1> SUFFICES ASSUME IInv, [Next]_vars PROVE TypeOK'
  OBVIOUS
<1> USE DEF IInv, TypeOK, persisted, budget
<1> DEFINE SyncType == [pc : SyncPC, seen : Rows, busy : BOOLEAN]
<1>a. AtRest \in SyncType
  BY DEF AtRest, SyncPC, Rows
<1>b. \A p \in SyncPC, b \in BOOLEAN :
        /\ [sync EXCEPT !.pc = p] \in SyncType
        /\ [sync EXCEPT !.pc = p, !.busy = b] \in SyncType
  OBVIOUS
<1>1. ASSUME NEW cfg \in Configs, AddRepo(cfg) PROVE TypeOK'
  BY <1>1 DEF AddRepo, Call, Rows
<1>2. CASE RemoveRepo
  BY <1>2 DEF RemoveRepo, Call, Rows
<1>3. ASSUME NEW c \in Clients, NEW o \in {"prepare", "refresh"}, GetRepo(c, o) PROVE TypeOK'
  BY <1>3 DEF GetRepo, Call
<1>4. ASSUME NEW c \in Clients, PrepareAgain(c) PROVE TypeOK'
  BY <1>4, RowUpdate DEF PrepareAgain, NoCall, ClientsSound, Rows
<1>5. ASSUME NEW c \in Clients, SetRefresh(c) PROVE TypeOK'
  BY <1>5 DEF SetRefresh, NoCall, Rows
<1>6. CASE ListRepos
  BY <1>6 DEF ListRepos, SyncAt, SyncPC
<1>7. CASE UnmountRemoved
  <2>1. sync' \in SyncType
    BY <1>7, <1>a DEF UnmountRemoved, SyncDone
  <2>2. rt' \in Runtimes
    BY <1>7 DEF UnmountRemoved, Unmount, Runtimes
  <2>3. worker' \in [Tokens -> WorkerType]
    <3>1. \A t \in Tokens : [worker[t] EXCEPT !.alive = FALSE, !.held = FALSE] \in WorkerType
      BY ZenonT(40) DEF WorkerType
    <3> QED
      BY <1>7, <3>1 DEF UnmountRemoved, Unmount
  <2> QED
    BY <1>7, <2>1, <2>2, <2>3 DEF UnmountRemoved, WorkerType
<1>8. CASE LookRunning
  <2>1. sync' \in SyncType
    <3>1. CASE SyncDone
      BY <3>1, <1>a DEF SyncDone
    <3>2. CASE sync' = [sync EXCEPT !.pc = "check", !.busy = preparing # NoToken]
      BY <3>2, <1>b DEF SyncPC
    <3> QED
      BY <1>8, <3>1, <3>2 DEF LookRunning
  <2> QED
    BY <1>8, <2>1 DEF LookRunning
<1>9. CASE LookPending
  <2>1. sync.seen.cfg \in Configs
    BY <1>9, RowFacts DEF LookPending
  <2>2. rt' \in Runtimes
    BY <1>9, <2>1, NewRuntime DEF LookPending, MountAsyncRepo
  <2>3. sync' \in SyncType
    <3>1. CASE SyncDone
      BY <3>1, <1>a DEF SyncDone
    <3>2. CASE SyncTo("start")
      BY <3>2, <1>b DEF SyncTo, SyncPC
    <3> QED
      BY <1>9, <3>1, <3>2 DEF LookPending
  <2> QED
    BY <1>9, <2>2, <2>3 DEF LookPending
<1>10. CASE MountRepo
  BY <1>10, NewRuntime, RowFacts DEF MountRepo, SyncAt, SyncDone, AtRest, SyncPC, Rows
<1>11. CASE Check
  <2>1. CASE SyncDone
    BY <1>11, <2>1 DEF Check, SyncDone, AtRest, SyncPC, Rows
  <2>2. ASSUME NEW p \in SyncPC, sync' = [sync EXCEPT !.seen = row, !.pc = p] PROVE TypeOK'
    BY <1>11, <2>2 DEF Check
  <2> QED
    BY <1>11, <2>1, <2>2 DEF Check, SyncPC
<1>12. CASE UnmountForRestart
  BY <1>12 DEF UnmountForRestart, SyncAt, Unmount, SyncTo, SyncPC, Runtimes
<1>13. CASE Remount
  BY <1>13, NewRuntime DEF Remount, SyncSound, SyncAt, MountAsyncRepo, SyncTo, SyncPC
<1>14. CASE SupersedePrepare
  BY <1>14 DEF SupersedePrepare, SyncTo, SyncPC
<1>15. CASE ResetRunning
  <2>1. sync.seen.cfg \in Configs /\ rt.cfg \in Configs
    BY <1>15 DEF ResetRunning, SyncAt, SyncSound
  <2>2. CASE SyncDone /\ UNCHANGED rt
    BY <1>15, <2>2, <1>a DEF ResetRunning, SyncDone
  <2>3. CASE SyncTo("start") /\ rt' = [rt EXCEPT !.gate = "closed", !.cfg = sync.seen.cfg]
    <3>1. rt' \in Runtimes
      BY <2>1, <2>3, RuntimeUpdate
    <3>2. sync' \in SyncType
      BY <2>3, <1>b DEF SyncTo, SyncPC
    <3> QED
      BY <1>15, <3>1, <3>2 DEF ResetRunning
  <2> QED
    BY <1>15, <2>2, <2>3 DEF ResetRunning
<1>16. CASE StillPreparing
  BY <1>16 DEF StillPreparing, SyncDone, AtRest, SyncPC, Rows
<1>17. CASE StartPrepareWorker
  BY <1>17 DEF StartPrepareWorker, SyncDone, AtRest, SyncPC, Free, SyncAt, SyncSound, WorkerPC, Rows, Known
<1>18. CASE MountFails
  BY <1>18 DEF MountFails, Fault, SyncDone, AtRest, SyncPC, Rows
<1>19. CASE Crash
  BY <1>19 DEF Crash, Fault, Idle, AtRest, SyncPC, WorkerPC, Rows, Runtimes, Known
<1>20. ASSUME NEW t \in Tokens, Work(t) \/ FailureNotRecorded(t) PROVE TypeOK'
  <2>1. CASE PrepareGitDir(t)
    BY <2>1 DEF PrepareGitDir, Goto, WorkerPC
  <2>2. CASE ResolveHEAD(t)
    <3>1. worker' = [worker EXCEPT ![t] = [worker[t] EXCEPT !.pc = "publish", !.tree = head]]
      BY <2>2 DEF ResolveHEAD
    <3>2. worker'[t] \in WorkerType
      BY <3>1, ZenonT(40) DEF WorkerPC, WorkerType
    <3> QED
      BY <2>2, <3>1, <3>2 DEF ResolveHEAD, WorkerType
  <2>3. CASE PublishSnapshot(t)
    BY <2>3 DEF PublishSnapshot, Goto, WorkerPC
  <2>4. CASE Recheck(t)
    BY <2>4 DEF Recheck, Goto, WorkerPC
  <2>5. CASE MarkRowReady(t)
    BY <2>5, RowUpdate DEF MarkRowReady, Goto, WorkerPC, WorkersSound, LiveSound, Live, At
  <2>6. CASE Capture(t)
    <3>1. ASSUME NEW p \in WorkerPC, NEW h \in BOOLEAN,
                 worker' = [worker EXCEPT ![t].held = h, ![t].pc = p]
          PROVE  TypeOK'
      <4>1. [worker[t] EXCEPT !.held = h, !.pc = p] \in WorkerType
        BY ZenonT(40) DEF WorkerType
      <4>2. worker' = [worker EXCEPT ![t] = [worker[t] EXCEPT !.held = h, !.pc = p]]
        BY <3>1
      <4> QED
        BY <2>6, <4>1, <4>2, ZenonT(40) DEF Capture, WorkerType
    <3>2. CASE rt = NoRuntime
      <4>1. (rt # NoRuntime) = FALSE
        BY <3>2
      <4>2. worker' = [worker EXCEPT ![t].held = rt # NoRuntime, ![t].pc = "exit"]
        BY <2>6, <3>2 DEF Capture
      <4> QED
        BY <3>1, <4>1, <4>2 DEF WorkerPC
    <3>3. CASE rt # NoRuntime /\ rt.cfg # worker[t].cfg
      <4>1. worker' = [worker EXCEPT ![t].held = TRUE, ![t].pc = "fail"]
        BY <2>6, <3>3 DEF Capture
      <4> QED
        BY <3>1, <4>1 DEF WorkerPC
    <3>4. CASE rt # NoRuntime /\ rt.cfg = worker[t].cfg
      <4>1. worker' = [worker EXCEPT ![t].held = TRUE, ![t].pc = "verify"]
        BY <2>6, <3>4 DEF Capture
      <4> QED
        BY <3>1, <4>1 DEF WorkerPC
    <3> QED
      BY <3>2, <3>3, <3>4
  <2>7. CASE Verify(t, "verify", "reconciled")
    BY <2>7 DEF Verify, Goto, WorkerPC
  <2>8. CASE Verify(t, "reconciled", "serve")
    BY <2>8 DEF Verify, Goto, WorkerPC
  <2>9. CASE SetGeneration(t)
    <3>1. rt' \in Runtimes
      BY <2>9, RuntimeUpdate DEF SetGeneration, WorkersSound, HeldSound
    <3> QED
      BY <2>9, <3>1 DEF SetGeneration, Goto, WorkerPC
  <2>10. CASE FinalCheck(t)
    BY <2>10 DEF FinalCheck, Goto, WorkerPC
  <2>11. CASE OpenGate(t)
    <3>1. rt' \in Runtimes
      BY <2>11, RuntimeUpdate DEF OpenGate, WorkersSound, HeldSound
    <3> QED
      BY <2>11, <3>1 DEF OpenGate, Goto, WorkerPC
  <2>12. CASE StartRepoBackground(t)
    <3>1. rt' \in Runtimes
      BY <2>12, RuntimeUpdate DEF StartRepoBackground, WorkersSound, HeldSound
    <3> QED
      BY <2>12, <3>1 DEF StartRepoBackground, Goto, WorkerPC
  <2>13. CASE StepFails(t)
    BY <2>13 DEF StepFails, Goto, WorkerPC, Live
  <2>14. CASE Fail(t)
    BY <2>14 DEF Fail, Goto, WorkerPC
  <2>15. CASE MarkRowFailed(t)
    BY <2>15, RowUpdate DEF MarkRowFailed, Goto, WorkerPC, WorkersSound, LiveSound, At
  <2>16. CASE FailureNotRecorded(t)
    BY <2>16 DEF FailureNotRecorded, Goto, WorkerPC, Fault
  <2>17. CASE ApplyFailed(t)
    <3>1. rt' \in Runtimes
      BY <2>17, RuntimeUpdate, RuntimeFacts DEF ApplyFailed
    <3> QED
      BY <2>17, <3>1 DEF ApplyFailed, Goto, WorkerPC
  <2>18. CASE Exit(t)
    BY <2>18 DEF Exit, Goto, WorkerPC, Idle, Known
  <2> QED
    BY <1>20, <2>1, <2>2, <2>3, <2>4, <2>5, <2>6, <2>7, <2>8, <2>9, <2>10,
       <2>11, <2>12, <2>13, <2>14, <2>15, <2>16, <2>17, <2>18 DEF Work
<1>21. CASE UNCHANGED vars
  BY <1>21 DEF vars
<1> QED
  BY <1>1, <1>2, <1>3, <1>4, <1>5, <1>6, <1>7, <1>8, <1>9, <1>10,
     <1>11, <1>12, <1>13, <1>14, <1>15, <1>16, <1>17, <1>18, <1>19, <1>20, <1>21 DEF Next, Command, Sync
-----------------------------------------------------------------------------
(* What a worker's step leaves alone.                                      *)

(* A worker that goes on changes nothing of itself but where it is.        *)
LEMMA GotoEffect ==
  ASSUME TypeOK, NEW t \in Tokens, NEW p, Goto(t, p)
  PROVE  /\ \A s \in Tokens \ {t} : worker'[s] = worker[s]
         /\ worker'[t].pc = p /\ worker'[t].cfg = worker[t].cfg
         /\ worker'[t].tree = worker[t].tree
         /\ worker'[t].alive = worker[t].alive /\ worker'[t].held = worker[t].held
BY DEF TypeOK, Goto

(* Setting one field of a runtime, or of the absent one, leaves the        *)
(* others.                                                                 *)
LEMMA RuntimeEffect ==
  ASSUME NEW r \in Runtimes, NEW k, NEW g
  PROVE  /\ [r EXCEPT !.tree = k].cfg = r.cfg /\ [r EXCEPT !.tree = k].tree = k
         /\ [r EXCEPT !.tree = k].gate = r.gate
         /\ [r EXCEPT !.gate = g].cfg = r.cfg /\ [r EXCEPT !.gate = g].tree = r.tree
         /\ [r EXCEPT !.gate = g].gate = g
         /\ [r EXCEPT !.active = TRUE].cfg = r.cfg /\ [r EXCEPT !.active = TRUE].tree = r.tree
         /\ [r EXCEPT !.active = TRUE].gate = r.gate
<1>1. CASE r \in [cfg : Configs, gate : {"none", "closed", "failed", "open"}, tree : Known, active : BOOLEAN]
  BY <1>1
<1>2. CASE r = NoRuntime
  BY <1>2 DEF NoRuntime
<1> QED
  BY <1>1, <1>2 DEF Runtimes

(* The other workers, and what is there for them, stay as they are; the    *)
(* gitdir and the snapshot change only under a worker whose context lives. *)
Frame(t) ==
  /\ UNCHANGED <<sync, cli>>
  /\ \A s \in Tokens \ {t} : worker'[s] = worker[s]
  /\ rt'.cfg = rt.cfg
  /\ rt'.tree # rt.tree => worker[t].held /\ worker[t].pc = "serve"
  /\ <<head, snap>>' # <<head, snap>> => worker[t].alive
  /\ preparing' # preparing => preparing = t
  /\ worker'[t].alive => worker[t].alive /\ worker'[t].pc # "idle" /\ preparing' = preparing
  /\ worker'[t].pc # "idle" => worker[t].pc # "idle" /\ worker'[t].cfg = worker[t].cfg

(* Every step of a worker is within its frame.                             *)
LEMMA FrameLemma ==
  ASSUME IInv, NEW t \in Tokens, Work(t) \/ FailureNotRecorded(t)
  PROVE  Frame(t)
<1> USE DEF IInv, Frame, persisted, budget
<1>t. worker[t] \in WorkerType /\ rt \in Runtimes
  BY DEF TypeOK, WorkerType
<1>1. CASE PrepareGitDir(t)
  BY <1>1, GotoEffect DEF PrepareGitDir, Live, At
<1>2. CASE PublishSnapshot(t)
  BY <1>2, GotoEffect DEF PublishSnapshot, Live, At
<1>3. CASE Recheck(t)
  BY <1>3, GotoEffect DEF Recheck, Live, At
<1>4. CASE MarkRowReady(t)
  BY <1>4, GotoEffect DEF MarkRowReady, Live, At
<1>5. CASE Verify(t, "verify", "reconciled")
  BY <1>5, GotoEffect DEF Verify, Live, At
<1>6. CASE Verify(t, "reconciled", "serve")
  BY <1>6, GotoEffect DEF Verify, Live, At
<1>7. CASE FinalCheck(t)
  BY <1>7, GotoEffect DEF FinalCheck, At
<1>8. CASE StepFails(t)
  BY <1>8, GotoEffect DEF StepFails, Live, At
<1>9. CASE Fail(t)
  BY <1>9, GotoEffect DEF Fail, At
<1>10. CASE MarkRowFailed(t)
  BY <1>10, GotoEffect DEF MarkRowFailed, At
<1>11. CASE FailureNotRecorded(t)
  BY <1>11, GotoEffect DEF FailureNotRecorded, At
<1>12. CASE SetGeneration(t)
  <2>1. rt'.cfg = rt.cfg /\ (rt'.tree # rt.tree => worker[t].held /\ worker[t].pc = "serve")
    BY <1>12, <1>t, RuntimeEffect DEF SetGeneration, At
  <2> QED
    BY <1>12, <2>1, GotoEffect DEF SetGeneration, At
<1>13. CASE OpenGate(t)
  <2>1. rt'.cfg = rt.cfg /\ (rt'.tree # rt.tree => worker[t].held /\ worker[t].pc = "serve")
    BY <1>13, <1>t, RuntimeEffect DEF OpenGate, At
  <2> QED
    BY <1>13, <2>1, GotoEffect DEF OpenGate, At
<1>14. CASE StartRepoBackground(t)
  <2>1. rt'.cfg = rt.cfg /\ (rt'.tree # rt.tree => worker[t].held /\ worker[t].pc = "serve")
    BY <1>14, <1>t, RuntimeEffect DEF StartRepoBackground, At
  <2> QED
    BY <1>14, <2>1, GotoEffect DEF StartRepoBackground, At
<1>15. CASE ApplyFailed(t)
  <2>1. rt'.cfg = rt.cfg /\ (rt'.tree # rt.tree => worker[t].held /\ worker[t].pc = "serve")
    BY <1>15, <1>t, RuntimeEffect DEF ApplyFailed, At
  <2> QED
    BY <1>15, <2>1, GotoEffect DEF ApplyFailed, At
<1>16. CASE ResolveHEAD(t)
  BY <1>16, <1>t DEF ResolveHEAD, At, TypeOK, WorkerType, Live
<1>17. CASE Capture(t)
  BY <1>17, <1>t DEF Capture, At, TypeOK, WorkerType
<1>18. CASE Exit(t)
  BY <1>18, <1>t DEF Exit, At, TypeOK, WorkerType, Idle
<1> QED
  BY <1>1, <1>2, <1>3, <1>4, <1>5, <1>6, <1>7, <1>8, <1>9, <1>10,
     <1>11, <1>12, <1>13, <1>14, <1>15, <1>16, <1>17, <1>18 DEF Work

-----------------------------------------------------------------------------
(* The invariant, step by step.                                            *)

(* A step of one worker does not disturb the others: only one of them      *)
(* lives.                                                                  *)
LEMMA OthersSound ==
  ASSUME IInv, NEW t \in Tokens, Frame(t), NEW s \in Tokens \ {t}
  PROVE  LiveSound(s)' /\ HeldSound(s)' /\ Progress(s)'
<1> USE DEF Frame
<1>1. LiveSound(s) /\ HeldSound(s) /\ Progress(s) /\ LiveSound(t) /\ HeldSound(t)
  BY DEF IInv, WorkersSound
<1>2. worker[s].alive => ~worker[t].alive
  BY <1>1 DEF LiveSound
<1>3. LiveSound(s)'
  BY <1>1 DEF LiveSound
<1>4. HeldSound(s)'
  BY <1>1 DEF HeldSound
<1>5. worker[s].alive => UNCHANGED <<head, snap>> /\ rt'.tree = rt.tree
  BY <1>1, <1>2 DEF HeldSound
<1>6. Progress(s)'
  BY <1>1, <1>5 DEF Progress
<1> QED
  BY <1>3, <1>4, <1>6

(* A step of a worker keeps what the invariant says of itself.             *)
LEMMA OwnSound ==
  ASSUME IInv, NEW t \in Tokens, Frame(t), Work(t) \/ FailureNotRecorded(t)
  PROVE  LiveSound(t)' /\ HeldSound(t)' /\ Progress(t)'
<1>t. worker[t] \in WorkerType /\ rt \in Runtimes /\ TypeOK
  BY DEF IInv, TypeOK, WorkerType
<1>s. LiveSound(t) /\ HeldSound(t) /\ Progress(t)
  BY DEF IInv, WorkersSound
<1>l. LiveSound(t)'
  BY <1>s DEF LiveSound, Frame
<1> SUFFICES HeldSound(t)' /\ Progress(t)'
  BY <1>l
<1> USE <1>t, <1>s DEF HeldSound, Progress, Frame, At, persisted, budget
<1>1. CASE PrepareGitDir(t)
  BY <1>1, GotoEffect DEF PrepareGitDir, Live
<1>2. CASE PublishSnapshot(t)
  BY <1>2, GotoEffect DEF PublishSnapshot, Live
<1>3. CASE Recheck(t)
  BY <1>3, GotoEffect DEF Recheck, Live
<1>4. CASE MarkRowReady(t)
  BY <1>4, GotoEffect DEF MarkRowReady, Live
<1>5. CASE Verify(t, "verify", "reconciled")
  BY <1>5, GotoEffect DEF Verify, Live
<1>6. CASE Verify(t, "reconciled", "serve")
  BY <1>6, GotoEffect DEF Verify, Live
<1>7. CASE FinalCheck(t)
  BY <1>7, GotoEffect DEF FinalCheck, Live
<1>8. CASE StepFails(t)
  BY <1>8, GotoEffect DEF StepFails, Live
<1>9. CASE Fail(t)
  BY <1>9, GotoEffect DEF Fail, Live
<1>10. CASE MarkRowFailed(t)
  BY <1>10, GotoEffect DEF MarkRowFailed, Live
<1>11. CASE FailureNotRecorded(t)
  BY <1>11, GotoEffect DEF FailureNotRecorded, Live
<1>12. CASE OpenGate(t)
  BY <1>12, GotoEffect DEF OpenGate, Live
<1>13. CASE StartRepoBackground(t)
  BY <1>13, GotoEffect DEF StartRepoBackground, Live
<1>14. CASE ApplyFailed(t)
  BY <1>14, GotoEffect DEF ApplyFailed, Live
<1>15. CASE SetGeneration(t)
  <2>1. worker[t].held => rt'.tree = worker[t].tree
    BY <1>15, RuntimeEffect DEF SetGeneration
  <2> QED
    BY <1>15, <2>1, GotoEffect DEF SetGeneration
<1>16. CASE ResolveHEAD(t)
  BY <1>16, RuntimeFacts DEF ResolveHEAD, TypeOK, WorkerType, Live
<1>17. CASE Capture(t)
  BY <1>17, RuntimeFacts DEF Capture, TypeOK, WorkerType
<1>18. CASE Exit(t)
  BY <1>18, RuntimeFacts DEF Exit, TypeOK, WorkerType, Idle
<1> QED
  BY <1>1, <1>2, <1>3, <1>4, <1>5, <1>6, <1>7, <1>8, <1>9, <1>10,
     <1>11, <1>12, <1>13, <1>14, <1>15, <1>16, <1>17, <1>18 DEF Work

(* The steps of everything but the workers.                                *)
LEMMA NextCases ==
  ASSUME [Next]_vars
  PROVE  \/ \E t \in Tokens : Work(t) \/ FailureNotRecorded(t)
         \/ UNCHANGED <<rt, worker, preparing, head, snap, sync>>
         \/ Sync \/ MountFails \/ Crash
BY DEF Next, vars, Command, AddRepo, RemoveRepo, GetRepo, PrepareAgain, SetRefresh, persisted, budget

(* Every step keeps what the invariant says of the workers: unmounting     *)
(* cancels them, and a new one starts only when none lives.                *)
LEMMA WorkersStep == IInv /\ [Next]_vars => WorkersSound'
<1> SUFFICES ASSUME IInv, [Next]_vars, NEW t \in Tokens
             PROVE  LiveSound(t)' /\ HeldSound(t)' /\ Progress(t)'
  BY DEF WorkersSound
<1>t. worker[t] \in WorkerType /\ rt \in Runtimes /\ TypeOK
  BY DEF IInv, TypeOK, WorkerType
<1>s. LiveSound(t) /\ HeldSound(t) /\ Progress(t) /\ SyncSound
  BY DEF IInv, WorkersSound
<1>1. CASE \E u \in Tokens : Work(u) \/ FailureNotRecorded(u)
  BY <1>1, FrameLemma, OthersSound, OwnSound
<1> USE DEF LiveSound, HeldSound, Progress, persisted, budget
<1>2. ASSUME UNCHANGED <<rt, worker, preparing, head, snap>>
      PROVE  LiveSound(t)' /\ HeldSound(t)' /\ Progress(t)'
  BY <1>2, <1>s
<1>3. CASE ListRepos \/ LookRunning \/ Check \/ StillPreparing \/ MountFails
  BY <1>2, <1>3 DEF ListRepos, LookRunning, Check, StillPreparing, MountFails
<1>4. CASE UnmountRemoved \/ UnmountForRestart
  <2>1. worker'[t] = [worker[t] EXCEPT !.alive = FALSE, !.held = FALSE]
    BY <1>4 DEF UnmountRemoved, UnmountForRestart, Unmount
  <2>2. /\ ~worker'[t].alive /\ ~worker'[t].held
        /\ worker'[t].pc = worker[t].pc /\ worker'[t].cfg = worker[t].cfg
    BY <2>1, <1>t DEF WorkerType
  <2> QED
    BY <2>2, <1>s
<1>5. CASE LookPending \/ MountRepo
  <2>1. ~worker[t].alive /\ ~worker[t].held
    BY <1>5, <1>s, <1>t, RuntimeFacts DEF LookPending, MountRepo, NoRuntime
  <2> QED
    BY <1>5, <1>s, <2>1 DEF LookPending, MountRepo
<1>6. CASE Remount
  <2>1. ~worker[t].alive /\ sync.seen.cfg \in Configs /\ rt'.cfg = sync.seen.cfg
    BY <1>6, <1>s DEF Remount, SyncAt, SyncSound, MountAsyncRepo
  <2> QED
    BY <1>6, <1>s, <2>1 DEF Remount
<1>7. CASE SupersedePrepare
  BY <1>7, <1>s DEF SupersedePrepare, SyncAt, SyncSound
<1>8. CASE ResetRunning
  <2>1. rt'.cfg = rt.cfg /\ rt'.tree = rt.tree
    BY <1>8, <1>s, <1>t DEF ResetRunning, SyncAt, SyncSound, Runtimes, NoRuntime
  <2> QED
    BY <1>8, <1>s, <2>1 DEF ResetRunning
<1>9. CASE StartPrepareWorker
  <2>1. PICK u \in Free : /\ preparing' = u
                          /\ worker' = [worker EXCEPT ![u] = [pc |-> "git", cfg |-> sync.seen.cfg,
                                          tree |-> NoConfig, alive |-> TRUE, held |-> FALSE]]
    BY <1>9 DEF StartPrepareWorker
  <2>2. ~worker[t].alive
    BY <1>9, <1>s, <1>t DEF StartPrepareWorker
  <2>3. CASE t = u
    <3>1. worker'[t] = [pc |-> "git", cfg |-> sync.seen.cfg,
                        tree |-> NoConfig, alive |-> TRUE, held |-> FALSE]
      BY <2>1, <2>3, <1>t DEF TypeOK
    <3>2. rt' = rt /\ rt.cfg = sync.seen.cfg /\ sync.seen.cfg \in Configs
      BY <1>9, <1>s DEF StartPrepareWorker, SyncAt, SyncSound
    <3> QED
      BY <2>1, <2>3, <3>1, <3>2
  <2>4. CASE t # u
    <3>1. worker'[t] = worker[t] /\ rt' = rt
      BY <1>9, <2>1, <2>4, <1>t DEF TypeOK, StartPrepareWorker
    <3> QED
      BY <3>1, <2>2, <1>s
  <2> QED
    BY <2>3, <2>4
<1>10. CASE Crash
  BY <1>10 DEF Crash, Idle
<1> QED
  BY <1>1, <1>2, <1>3, <1>4, <1>5, <1>6, <1>7, <1>8, <1>9, <1>10, NextCases DEF Sync

(* Every step keeps what the invariant says of the poll: nothing but the   *)
(* poll changes the configuration of the runtime.                          *)
LEMMA SyncStep == IInv /\ [Next]_vars => SyncSound'
<1> SUFFICES ASSUME IInv, [Next]_vars PROVE SyncSound'
  OBVIOUS
<1>t. TypeOK /\ SyncSound /\ sync \in [pc : SyncPC, seen : Rows, busy : BOOLEAN] /\ row \in Rows
  BY DEF IInv, TypeOK
<1> USE <1>t DEF SyncSound, SyncAt, persisted, budget
<1>1. ASSUME NEW u \in Tokens, Work(u) \/ FailureNotRecorded(u) PROVE SyncSound'
  <2>1. Frame(u)
    BY <1>1, FrameLemma
  <2>2. \A s \in Tokens : worker'[s].alive => worker[s].alive
    BY <2>1 DEF Frame
  <2> QED
    BY <2>1, <2>2 DEF Frame
<1>2. CASE UNCHANGED <<rt, worker, preparing, head, snap, sync>>
  BY <1>2
<1>3. CASE SyncDone \/ Crash
  BY <1>3 DEF SyncDone, Crash, AtRest
<1>4. CASE ListRepos
  BY <1>4 DEF ListRepos
<1>5. CASE LookRunning
  BY <1>3, <1>5 DEF LookRunning
<1>6. CASE LookPending
  <2>1. sync.seen.cfg \in Configs /\ rt'.cfg = sync.seen.cfg
    BY <1>6, RowFacts DEF LookPending, MountAsyncRepo
  <2> QED
    BY <1>3, <1>6, <2>1 DEF LookPending, SyncTo
<1>7. CASE Check
  <2>1. ASSUME row.state = "preparing" PROVE row.cfg \in Configs
    BY <2>1, RowFacts
  <2>2. CASE SyncDone
    BY <1>3, <2>2
  <2>3. CASE ~SyncDone
    <3>1. /\ row.state = "preparing" /\ rt' = rt /\ sync'.seen = row
          /\ sync'.pc = IF rt.active \/ rt.cfg # row.cfg THEN "unmount" ELSE "reset"
      BY <1>7, <2>3 DEF Check
    <3> QED
      BY <2>1, <3>1
  <2> QED
    BY <2>2, <2>3
<1>8. CASE UnmountForRestart
  BY <1>8, ZenonT(40) DEF UnmountForRestart, Unmount, SyncTo, TypeOK
<1>9. CASE Remount
  <2>1. rt'.cfg = sync.seen.cfg /\ sync'.seen = sync.seen /\ sync'.pc = "supersede" /\ worker' = worker
    BY <1>9 DEF Remount, MountAsyncRepo, SyncTo
  <2> QED
    BY <1>9, <2>1 DEF Remount
<1>10. CASE SupersedePrepare
  BY <1>10 DEF SupersedePrepare, SyncTo
<1>11. CASE ResetRunning
  <2>1. CASE SyncTo("start") /\ rt' = [rt EXCEPT !.gate = "closed", !.cfg = sync.seen.cfg]
    <3>1. rt'.cfg = sync.seen.cfg
      BY <1>11, <2>1 DEF ResetRunning, TypeOK, Runtimes, NoRuntime
    <3> QED
      BY <1>11, <2>1, <3>1 DEF ResetRunning, SyncTo
  <2> QED
    BY <1>3, <1>11, <2>1 DEF ResetRunning
<1>12. CASE UnmountRemoved \/ MountRepo \/ StillPreparing \/ StartPrepareWorker \/ MountFails
  BY <1>3, <1>12 DEF UnmountRemoved, MountRepo, StillPreparing, StartPrepareWorker, MountFails
<1> QED
  BY <1>1, <1>2, <1>3, <1>4, <1>5, <1>6, <1>7, <1>8, <1>9, <1>10, <1>11, <1>12, NextCases DEF Sync

(* A client never writes a row it has not read.                            *)
LEMMA ClientsStep == IInv /\ [Next]_vars => ClientsSound'
<1> SUFFICES ASSUME IInv, [Next]_vars PROVE ClientsSound'
  OBVIOUS
<1>t. TypeOK /\ ClientsSound
  BY DEF IInv
<1> USE <1>t DEF ClientsSound, persisted, budget
<1>1. CASE UNCHANGED cli
  BY <1>1
<1>2. ASSUME NEW c \in Clients, NEW o \in {"prepare", "refresh"}, GetRepo(c, o) PROVE ClientsSound'
  <2>1. row.cfg \in Configs
    BY <1>2, RowFacts DEF GetRepo, TypeOK
  <2> QED
    BY <1>2, <2>1 DEF GetRepo, TypeOK
<1>3. ASSUME NEW c \in Clients, cli' = [cli EXCEPT ![c] = NoCall] PROVE ClientsSound'
  BY <1>3 DEF NoCall, TypeOK
<1>4. ASSUME NEW c \in Clients, Command(c) PROVE ClientsSound'
  BY <1>2, <1>3, <1>4 DEF Command, PrepareAgain, SetRefresh
<1>5. CASE Sync
  BY <1>1, <1>5 DEF Sync, ListRepos, UnmountRemoved, LookRunning, LookPending, MountRepo, Check,
       UnmountForRestart, Remount, SupersedePrepare, ResetRunning, StillPreparing, StartPrepareWorker
<1>6. ASSUME NEW t \in Tokens, Work(t) \/ FailureNotRecorded(t) PROVE ClientsSound'
  BY <1>1, <1>6, FrameLemma DEF Frame
<1> QED
  BY <1>1, <1>4, <1>5, <1>6 DEF Next, vars, AddRepo, RemoveRepo, MountFails, Crash

(* Every step keeps an open gate on the tree of its configuration.         *)
LEMMA GateStep == IInv /\ [Next]_vars => OpenGateServesConfig'
<1> SUFFICES ASSUME IInv, [Next]_vars PROVE OpenGateServesConfig'
  OBVIOUS
<1>t. TypeOK /\ rt \in Runtimes /\ OpenGateServesConfig
  BY DEF IInv, TypeOK
<1> USE <1>t DEF OpenGateServesConfig, persisted, budget
<1>1. CASE UNCHANGED rt
  BY <1>1
<1>2. CASE Sync \/ MountFails \/ Crash
  <2>1. CASE ResetRunning /\ rt' = [rt EXCEPT !.gate = "closed", !.cfg = sync.seen.cfg]
    BY <2>1 DEF Runtimes, NoRuntime
  <2>2. CASE UnmountRemoved \/ UnmountForRestart \/ Crash
    <3>1. rt' = NoRuntime
      BY <2>2 DEF UnmountRemoved, UnmountForRestart, Crash, Unmount
    <3> QED
      BY <3>1 DEF NoRuntime
  <2>3. CASE LookPending \/ Remount \/ MountRepo
    <3>1. rt'.gate # "open"
      BY <2>3 DEF LookPending, Remount, MountAsyncRepo, MountRepo
    <3> QED
      BY <3>1
  <2> QED
    BY <1>1, <1>2, <2>1, <2>2, <2>3 DEF Sync, MountFails, ListRepos, LookRunning, Check,
       SupersedePrepare, ResetRunning, StillPreparing, StartPrepareWorker
<1>3. ASSUME NEW t \in Tokens, Work(t) \/ FailureNotRecorded(t) PROVE OpenGateServesConfig'
  <2>1. LiveSound(t) /\ HeldSound(t) /\ Progress(t)
    BY DEF IInv, WorkersSound
  <2>2. CASE SetGeneration(t)
    <3>1. CASE ~worker[t].held
      BY <1>1, <2>2, <3>1 DEF SetGeneration
    <3>2. CASE worker[t].held
      <4>1. rt'.tree = worker[t].tree /\ rt'.cfg = rt.cfg
        BY <2>2, <3>2, RuntimeEffect DEF SetGeneration
      <4> QED
        BY <2>1, <2>2, <3>2, <4>1 DEF SetGeneration, At, LiveSound, HeldSound, Progress
    <3> QED
      BY <3>1, <3>2
  <2>3. CASE OpenGate(t)
    <3>1. CASE worker[t].held /\ rt.gate # "none"
      <4>1. rt'.tree = rt.tree /\ rt'.cfg = rt.cfg
        BY <2>3, <3>1, RuntimeEffect DEF OpenGate
      <4> QED
        BY <2>1, <2>3, <3>1, <4>1 DEF OpenGate, At, LiveSound, HeldSound, Progress
    <3> QED
      BY <1>1, <2>3, <3>1 DEF OpenGate
  <2>4. CASE StartRepoBackground(t) \/ ApplyFailed(t)
    <3>1. \/ rt' = rt
          \/ rt' = [rt EXCEPT !.active = TRUE]
          \/ rt' = [rt EXCEPT !.gate = "failed"]
      BY <2>4 DEF StartRepoBackground, ApplyFailed
    <3>2. CASE rt' = [rt EXCEPT !.active = TRUE]
      BY <3>2, RuntimeEffect
    <3>3. CASE rt' = [rt EXCEPT !.gate = "failed"]
      <4>1. rt'.gate = "failed"
        BY <3>3, RuntimeEffect
      <4> QED
        BY <4>1
    <3> QED
      BY <1>1, <3>1, <3>2, <3>3
  <2> QED
    BY <1>1, <1>3, <2>2, <2>3, <2>4 DEF Work, PrepareGitDir, ResolveHEAD, PublishSnapshot, Recheck,
       MarkRowReady, Capture, Verify, FinalCheck, StepFails, Fail, MarkRowFailed,
       FailureNotRecorded, Exit
<1> QED
  BY <1>1, <1>2, <1>3, NextCases

(* The invariant is inductive.                                             *)
LEMMA Invariant == Spec => []IInv
<1>1. IInv /\ [Next]_vars => IInv'
  BY TypeStep, SyncStep, ClientsStep, WorkersStep, GateStep DEF IInv
<1> QED
  BY <1>1, Initially, PTL DEF Spec

-----------------------------------------------------------------------------
(* The theorems.                                                           *)

(* The registry, the runtime, the workers and the poll keep their types;   *)
(* in particular no conditional update resurrects a row that was deleted,  *)
(* and nobody touches a runtime that is not there.                         *)
THEOREM PrepareTypeCorrect == Spec => []TypeOK
<1>1. IInv => TypeOK
  BY DEF IInv
<1> QED
  BY <1>1, Invariant, PTL

(* Two preparations never work on one gitdir at a time (startPrepareWorker,*)
(* supersedePrepare, stopRuntime).                                         *)
THEOREM OnePreparation == Spec => []OneLivePreparation
<1>1. IInv => OneLivePreparation
  BY DEF IInv, WorkersSound, LiveSound, OneLivePreparation
<1> QED
  BY <1>1, Invariant, PTL

(* What completePreparedRuntime opens the gate for is the tree of the      *)
(* configuration the runtime is mounted with.                              *)
THEOREM GateOpensOnItsTree == Spec => []OpenGateServesConfig
<1>1. IInv => OpenGateServesConfig
  BY DEF IInv
<1> QED
  BY <1>1, Invariant, PTL

(* Only a worker that lives makes a row ready, over the tree it published. *)
LEMMA ReadyStep ==
  ASSUME IInv, [Next]_vars, row'.state = "ready", row # row', cli' = cli
  PROVE  snap = row'.cfg
<1>t. TypeOK /\ row \in Rows
  BY DEF IInv, TypeOK
<1> USE <1>t DEF persisted, budget
<1>1. ASSUME NEW cfg \in Configs, AddRepo(cfg) PROVE FALSE
  BY <1>1 DEF AddRepo
<1>2. CASE RemoveRepo
  BY <1>2 DEF RemoveRepo, NoRow
<1>3. ASSUME NEW c \in Clients, Command(c) PROVE FALSE
  <2>1. ~PrepareAgain(c)
    <3>1. SUFFICES ASSUME PrepareAgain(c) PROVE FALSE
      OBVIOUS
    <3>2. cli[c].seen.cfg \in Configs
      BY <3>1 DEF PrepareAgain, IInv, ClientsSound
    <3> QED
      BY <3>1, <3>2, RowUpdate DEF PrepareAgain
  <2>2. ~SetRefresh(c)
    BY DEF SetRefresh, NoCall, TypeOK
  <2>3. \A o : ~GetRepo(c, o)
    BY DEF GetRepo
  <2> QED
    BY <1>3, <2>1, <2>2, <2>3 DEF Command
<1>4. ASSUME NEW t \in Tokens, Work(t) \/ FailureNotRecorded(t) PROVE snap = row'.cfg
  <2>1. LiveSound(t) /\ Progress(t)
    BY DEF IInv, WorkersSound
  <2>2. CASE MarkRowReady(t)
    BY <2>1, <2>2, RowUpdate DEF MarkRowReady, Live, At, LiveSound, Progress
  <2>3. CASE MarkRowFailed(t)
    BY <2>1, <2>3, RowUpdate DEF MarkRowFailed, At, LiveSound
  <2> QED
    BY <1>4, <2>2, <2>3 DEF Work, PrepareGitDir, ResolveHEAD, PublishSnapshot, Recheck,
       Capture, Verify, SetGeneration, FinalCheck, OpenGate, StartRepoBackground, StepFails,
       Fail, FailureNotRecorded, ApplyFailed, Exit
<1>5. ~(Sync \/ MountFails \/ Crash)
  BY DEF Sync, ListRepos, UnmountRemoved, LookRunning, LookPending, MountRepo, Check,
     UnmountForRestart, Remount, SupersedePrepare, ResetRunning, StillPreparing,
     StartPrepareWorker, MountFails, Crash
<1> QED
  BY <1>1, <1>2, <1>3, <1>4, <1>5 DEF Next, vars

(* A row becomes ready only over a snapshot of its own branch              *)
(* (prepareConfigStillCurrent before setPrepareStateBeforeReadyGate).      *)
THEOREM ReadyRowsArePublished == Spec => ReadyIsPublished
<1>1. IInv /\ [Next]_vars
        => [(row'.state = "ready" /\ row # row' /\ cli' = cli) => snap = row'.cfg]_vars
  BY ReadyStep
<1> QED
  BY <1>1, Invariant, PTL DEF Spec, ReadyIsPublished
============================================================================
