------------------------------ MODULE Prepare ------------------------------
(***************************************************************************)
(* The life of one repository that was added with --async: the row in the  *)
(* registry, which every artifact-fs process reads and writes, and in the  *)
(* daemon the goroutine that polls the registry (syncRepos), the goroutines*)
(* that prepare the repository (runPrepare) and the runtime they prepare.  *)
(*                                                                         *)
(* One action is one registry statement, one critical section of           *)
(* Service.mu, or one call of git, of the snapshot or of the overlay.  A   *)
(* configuration stands for everything samePrepareConfig compares, and a   *)
(* tree for the configuration it was checked out for.  Two configurations  *)
(* share the repository's gitdir and its databases, as they do by default. *)
(***************************************************************************)
EXTENDS Naturals

CONSTANTS
  Configs,     \* what the repository may be configured to
  NoConfig,
  Tokens,      \* names of preparing goroutines; at most so many live at once
  NoToken,
  Clients,     \* command-line processes that read the row before they write it
  MaxCalls,    \* bound on the commands
  MaxFaults    \* bound on crashes, failed mounts and failures not recorded

ASSUME PrepareAssumption ==
  /\ NoConfig \notin Configs
  /\ NoToken \notin Tokens
  /\ {MaxCalls, MaxFaults} \subseteq Nat

VARIABLES
  row,        \* the registry's row of the repository
  head,       \* what the gitdir's HEAD is checked out for
  snap,       \* the tree of the snapshot's current generation
  rt,         \* the entry of Service.running
  preparing,  \* the entry of Service.preparing
  worker,     \* the preparing goroutines
  sync,       \* the goroutine of Start
  cli,        \* per client, the row it read and what for
  calls, faults,
  lost        \* a statement on the row was lost or overwritten

persisted == <<row, head, snap>>
budget    == <<calls, faults, lost>>
vars      == <<row, head, snap, rt, preparing, worker, sync, cli, budget>>

Known == Configs \cup {NoConfig}
NoRow == [cfg |-> NoConfig, state |-> "absent"]
Rows  == [cfg : Configs, state : {"preparing", "ready", "failed"}] \cup {NoRow}

(* The gate of a runtime that mountRepo started is nil: "none".            *)
NoRuntime == [cfg |-> NoConfig, gate |-> "absent", tree |-> NoConfig, active |-> FALSE]
Runtimes  == [cfg : Configs, gate : {"none", "closed", "failed", "open"},
              tree : Known, active : BOOLEAN] \cup {NoRuntime}

(* alive: the context of the runtime it was started for is not cancelled.  *)
(* held: the runtime it captured is the one in Service.running.            *)
WorkerPC == {"idle", "git", "resolve", "publish", "recheck", "ready", "capture", "verify",
             "reconciled", "serve", "final", "open", "activate", "fail",
             "failing", "applyFailed", "exit"}
Idle     == [pc |-> "idle", cfg |-> NoConfig, tree |-> NoConfig, alive |-> FALSE, held |-> FALSE]

SyncPC == {"idle", "look", "check", "unmount", "remount", "supersede", "reset", "start"}

TypeOK ==
  /\ row \in Rows
  /\ head \in Known /\ snap \in Known
  /\ rt \in Runtimes
  /\ preparing \in Tokens \cup {NoToken}
  /\ worker \in [Tokens -> [pc : WorkerPC, cfg : Known, tree : Known,
                            alive : BOOLEAN, held : BOOLEAN]]
  /\ sync \in [pc : SyncPC, seen : Rows, busy : BOOLEAN]
  /\ cli \in [Clients -> [op : {"none", "prepare", "refresh"}, seen : Rows]]
  /\ calls \in Nat /\ faults \in Nat /\ lost \in BOOLEAN

AtRest == [pc |-> "idle", seen |-> NoRow, busy |-> FALSE]
NoCall == [op |-> "none", seen |-> NoRow]

Init ==
  /\ row = NoRow
  /\ head = NoConfig /\ snap = NoConfig
  /\ rt = NoRuntime
  /\ preparing = NoToken
  /\ worker = [t \in Tokens |-> Idle]
  /\ sync = AtRest
  /\ cli = [c \in Clients |-> NoCall]
  /\ calls = 0 /\ faults = 0 /\ lost = FALSE

Fault == faults < MaxFaults /\ faults' = faults + 1

-----------------------------------------------------------------------------
(* Commands.  Each runs in a process of its own, whose map of running      *)
(* repositories is empty: only the row of the registry changes.            *)

Call == calls < MaxCalls /\ calls' = calls + 1

AddRepo(cfg) ==
  /\ Call
  /\ row' = [cfg |-> cfg, state |-> "preparing"]
  /\ UNCHANGED <<head, snap, rt, preparing, worker, sync, cli, faults, lost>>

RemoveRepo ==
  /\ Call
  /\ row # NoRow
  /\ row' = NoRow
  /\ UNCHANGED <<head, snap, rt, preparing, worker, sync, cli, faults, lost>>

(* Prepare and SetRefresh begin with GetRepo; Prepare has nothing to do    *)
(* for a row that is ready.                                                *)
GetRepo(c, op) ==
  /\ Call
  /\ cli[c] = NoCall
  /\ row # NoRow
  /\ op = "prepare" => row.state # "ready"
  /\ cli' = [cli EXCEPT ![c] = [op |-> op, seen |-> row]]
  /\ UNCHANGED <<persisted, rt, preparing, worker, sync, faults, lost>>

UpdatePrepareStateForConfig(cfg, state) ==
  row' = IF row.cfg = cfg THEN [row EXCEPT !.state = state] ELSE row

PrepareAgain(c) ==
  /\ cli[c].op = "prepare"
  /\ UpdatePrepareStateForConfig(cli[c].seen.cfg, "preparing")
  /\ cli' = [cli EXCEPT ![c] = NoCall]
  /\ UNCHANGED <<head, snap, rt, preparing, worker, sync, budget>>

(* SetRefresh writes back every column of the row it read.                 *)
SetRefresh(c) ==
  /\ cli[c].op = "refresh"
  /\ row' = cli[c].seen
  /\ lost' = (lost \/ row # cli[c].seen)
  /\ cli' = [cli EXCEPT ![c] = NoCall]
  /\ UNCHANGED <<head, snap, rt, preparing, worker, sync, calls, faults>>

-----------------------------------------------------------------------------
(* syncRepos, every three seconds.                                         *)

SyncAt(pc) == sync.pc = pc
SyncTo(pc) == sync' = [sync EXCEPT !.pc = pc]
SyncDone   == sync' = AtRest

ListRepos ==
  /\ SyncAt("idle")
  /\ sync' = [pc |-> "look", seen |-> row, busy |-> FALSE]
  /\ UNCHANGED <<persisted, rt, preparing, worker, cli, budget>>

(* Mutant of Unmount: the context of the runtime is not cancelled.         *)
UnmountLeavingContext ==
  /\ rt' = NoRuntime
  /\ worker' = [t \in Tokens |-> [worker[t] EXCEPT !.held = FALSE]]

(* stopRuntime cancels the runtime's context, and with it its workers.     *)
Unmount ==
  /\ rt' = NoRuntime
  /\ worker' = [t \in Tokens |-> [worker[t] EXCEPT !.alive = FALSE, !.held = FALSE]]

(* The repository is not registered any more.                              *)
UnmountRemoved ==
  /\ SyncAt("look") /\ sync.seen = NoRow
  /\ Unmount /\ SyncDone
  /\ UNCHANGED <<persisted, preparing, cli, budget>>

(* A running repository is looked at again only if its row says preparing. *)
LookRunning ==
  /\ SyncAt("look") /\ sync.seen # NoRow /\ rt # NoRuntime
  /\ IF sync.seen.state = "preparing"
     THEN sync' = [sync EXCEPT !.pc = "check", !.busy = preparing # NoToken]
     ELSE SyncDone
  /\ UNCHANGED <<persisted, rt, preparing, worker, cli, budget>>

(* mountAsyncRepo serves what the snapshot holds behind a closed gate.     *)
MountAsyncRepo(seen) ==
  rt' = [cfg |-> seen.cfg, gate |-> IF seen.state = "failed" THEN "failed" ELSE "closed",
         tree |-> snap, active |-> FALSE]

LookPending ==
  /\ SyncAt("look") /\ sync.seen.state \in {"preparing", "failed"} /\ rt = NoRuntime
  /\ MountAsyncRepo(sync.seen)
  /\ IF sync.seen.state = "preparing" THEN SyncTo("start") ELSE SyncDone
  /\ UNCHANGED <<persisted, preparing, worker, cli, budget>>

(* mountRepo: ensurePreparedRepo clones when there is no gitdir and        *)
(* publishes what HEAD is checked out for.                                 *)
MountRepo ==
  /\ SyncAt("look") /\ sync.seen.state = "ready" /\ rt = NoRuntime
  /\ head' = IF head = NoConfig THEN sync.seen.cfg ELSE head
  /\ snap' = head'
  /\ rt' = [cfg |-> sync.seen.cfg, gate |-> "none", tree |-> head', active |-> TRUE]
  /\ SyncDone
  /\ UNCHANGED <<row, preparing, worker, cli, budget>>

(* Either mount fails and waits for a later poll.                          *)
MountFails ==
  /\ Fault
  /\ \/ SyncAt("look") /\ sync.seen # NoRow /\ rt = NoRuntime
     \/ SyncAt("remount")
  /\ SyncDone
  /\ UNCHANGED <<persisted, rt, preparing, worker, cli, calls, lost>>

(* restartRunningPrepareIfCurrent reads the row again.                     *)
Check ==
  LET matches == rt.cfg = row.cfg
  IN  /\ SyncAt("check")
      /\ IF row.state # "preparing" \/ (sync.busy /\ matches) THEN SyncDone
         ELSE sync' = [sync EXCEPT !.seen = row,
                         !.pc = IF rt.active \/ ~matches THEN "unmount" ELSE "reset"]
      /\ UNCHANGED <<persisted, rt, preparing, worker, cli, budget>>

UnmountForRestart ==
  /\ SyncAt("unmount")
  /\ Unmount /\ SyncTo("remount")
  /\ UNCHANGED <<persisted, preparing, cli, budget>>

Remount ==
  /\ SyncAt("remount")
  /\ MountAsyncRepo(sync.seen) /\ SyncTo("supersede")
  /\ UNCHANGED <<persisted, preparing, worker, cli, budget>>

SupersedePrepare ==
  /\ SyncAt("supersede")
  /\ preparing' = NoToken
  /\ SyncTo("start")
  /\ UNCHANGED <<persisted, rt, worker, cli, budget>>

(* resetRunningPrepareState does nothing to a runtime without a gate.      *)
ResetRunning ==
  /\ SyncAt("reset")
  /\ IF rt.gate = "none" THEN SyncDone /\ UNCHANGED rt
     ELSE SyncTo("start") /\ rt' = [rt EXCEPT !.gate = "closed", !.cfg = sync.seen.cfg]
  /\ UNCHANGED <<persisted, preparing, worker, cli, budget>>

(* A token is only ever compared with that of a worker that has not        *)
(* returned, so one of a worker that has is as good as the next number.    *)
Free == {t \in Tokens : worker[t].pc = "idle"}

StartPrepareWorker ==
  LET t == CHOOSE f \in Free : TRUE
  IN  /\ SyncAt("start") /\ preparing = NoToken
      /\ Free # {}
      /\ preparing' = t
      /\ worker' = [worker EXCEPT ![t] = [pc |-> "git", cfg |-> sync.seen.cfg,
                       tree |-> NoConfig, alive |-> TRUE, held |-> FALSE]]
      /\ SyncDone
      /\ UNCHANGED <<persisted, rt, cli, budget>>

(* The last worker has not returned: startPrepareWorker leaves it to the   *)
(* next poll.                                                              *)
StillPreparing ==
  /\ SyncAt("start") /\ preparing # NoToken
  /\ SyncDone
  /\ UNCHANGED <<persisted, rt, preparing, worker, cli, budget>>

-----------------------------------------------------------------------------
(* runPrepare, by worker t.                                                *)

At(t, pc)  == worker[t].pc = pc
Goto(t, pc) == worker' = [worker EXCEPT ![t].pc = pc]
Current(t) == row.cfg = worker[t].cfg  \* prepareConfigStillCurrent

(* A call that takes the context fails once it is cancelled.               *)
Live(t, pc) == At(t, pc) /\ worker[t].alive

(* The clone, or the fetch and PrepareFetchedBranch.                       *)
PrepareGitDir(t) ==
  /\ Live(t, "git") /\ Goto(t, "resolve")
  /\ head' = worker[t].cfg
  /\ UNCHANGED <<row, snap, rt, preparing, sync, cli, budget>>

ResolveHEAD(t) ==
  /\ Live(t, "resolve")
  /\ worker' = [worker EXCEPT ![t].pc = "publish", ![t].tree = head]
  /\ UNCHANGED <<persisted, rt, preparing, sync, cli, budget>>

PublishSnapshot(t) ==
  /\ Live(t, "publish") /\ Goto(t, "recheck")
  /\ snap' = worker[t].tree
  /\ UNCHANGED <<row, head, rt, preparing, sync, cli, budget>>

(* A superseded worker returns an error that it does not record.           *)
Recheck(t) ==
  /\ Live(t, "recheck") /\ Goto(t, IF Current(t) THEN "ready" ELSE "exit")
  /\ UNCHANGED <<persisted, rt, preparing, sync, cli, budget>>

(* Mutant of MarkRowReady: the statement that names only the repository,   *)
(* UpdatePrepareState.                                                     *)
MarkRowReadyAnyConfig(t) ==
  /\ Live(t, "ready")
  /\ row' = IF row = NoRow THEN row ELSE [row EXCEPT !.state = "ready"]
  /\ Goto(t, "capture")
  /\ UNCHANGED <<head, snap, rt, preparing, sync, cli, budget>>

(* setPrepareStateBeforeReadyGate.                                         *)
MarkRowReady(t) ==
  /\ Live(t, "ready")
  /\ UpdatePrepareStateForConfig(worker[t].cfg, "ready")
  /\ Goto(t, IF Current(t) THEN "capture" ELSE "fail")
  /\ UNCHANGED <<head, snap, rt, preparing, sync, cli, budget>>

(* completePreparedRuntime, up to "activate".  The runtime it captures is  *)
(* the running one, which need not be the one the worker was started for.  *)
Capture(t) ==
  /\ At(t, "capture")
  /\ worker' = [worker EXCEPT ![t].held = rt # NoRuntime,
       ![t].pc = IF rt = NoRuntime THEN "exit"
                 ELSE IF rt.cfg # worker[t].cfg THEN "fail" ELSE "verify"]
  /\ UNCHANGED <<persisted, rt, preparing, sync, cli, budget>>

(* prepareConfigStillCurrent, before and after the overlay's Reconcile.     *)
Verify(t, from, to) ==
  /\ Live(t, from) /\ Goto(t, IF Current(t) THEN to ELSE "fail")
  /\ UNCHANGED <<persisted, rt, preparing, sync, cli, budget>>

(* Mutant of SetGeneration: the resolver is looked up again.               *)
SetGenerationOfRunning(t) ==
  /\ At(t, "serve") /\ Goto(t, "final")
  /\ rt' = [rt EXCEPT !.tree = worker[t].tree]
  /\ UNCHANGED <<persisted, preparing, sync, cli, budget>>

SetGeneration(t) ==
  /\ At(t, "serve") /\ Goto(t, "final")
  /\ rt' = IF worker[t].held THEN [rt EXCEPT !.tree = worker[t].tree] ELSE rt
  /\ UNCHANGED <<persisted, preparing, sync, cli, budget>>

FinalCheck(t) ==
  /\ At(t, "final")
  /\ Goto(t, IF worker[t].held /\ rt.cfg = worker[t].cfg THEN "open" ELSE "fail")
  /\ UNCHANGED <<persisted, rt, preparing, sync, cli, budget>>

(* After the critical section, MarkReady.  A nil gate stays nil.           *)
OpenGate(t) ==
  /\ At(t, "open") /\ Goto(t, "activate")
  /\ rt' = IF worker[t].held /\ rt.gate # "none" THEN [rt EXCEPT !.gate = "open"] ELSE rt
  /\ UNCHANGED <<persisted, preparing, sync, cli, budget>>

StartRepoBackground(t) ==
  /\ At(t, "activate") /\ Goto(t, "exit")
  /\ rt' = IF worker[t].held THEN [rt EXCEPT !.active = TRUE] ELSE rt
  /\ UNCHANGED <<persisted, preparing, sync, cli, budget>>

(* git, the disk, the thirty-minute timeout or a cancelled context.  The   *)
(* git commands may fail after they moved HEAD.                            *)
StepFails(t) ==
  /\ worker[t].pc \in {"git", "resolve", "publish", "recheck", "ready", "verify",
                       "reconciled"}
  /\ Goto(t, "fail")
  /\ head' \in {head} \cup (IF Live(t, "git") THEN {worker[t].cfg} ELSE {})
  /\ UNCHANGED <<row, snap, rt, preparing, sync, cli, budget>>

(* Mutant of Fail: the error is returned to the goroutine, which only logs *)
(* it.                                                                     *)
FailUnrecorded(t) ==
  /\ At(t, "fail") /\ Goto(t, "exit")
  /\ UNCHANGED <<persisted, rt, preparing, sync, cli, budget>>

(* A cancelled or superseded worker records nothing.                       *)
Fail(t) ==
  /\ At(t, "fail")
  /\ Goto(t, IF worker[t].alive /\ Current(t) THEN "failing" ELSE "exit")
  /\ UNCHANGED <<persisted, rt, preparing, sync, cli, budget>>

MarkRowFailed(t) ==
  /\ At(t, "failing")
  /\ UpdatePrepareStateForConfig(worker[t].cfg, "failed")
  /\ Goto(t, IF Current(t) THEN "applyFailed" ELSE "exit")
  /\ UNCHANGED <<head, snap, rt, preparing, sync, cli, budget>>

(* runPrepare ignores the error of setPrepareState.                        *)
FailureNotRecorded(t) ==
  /\ Fault /\ At(t, "failing") /\ Goto(t, "exit")
  /\ lost' = TRUE
  /\ UNCHANGED <<persisted, rt, preparing, sync, cli, calls>>

(* MarkFailed does not close a gate that is open.                          *)
ApplyFailed(t) ==
  /\ At(t, "applyFailed") /\ Goto(t, "exit")
  /\ rt' = IF rt.cfg = worker[t].cfg /\ rt.gate = "closed" THEN [rt EXCEPT !.gate = "failed"] ELSE rt
  /\ UNCHANGED <<persisted, preparing, sync, cli, budget>>

(* Mutant of Exit: the entry is deleted whoever it belongs to.             *)
ExitDeletingAny(t) ==
  /\ At(t, "exit")
  /\ worker' = [worker EXCEPT ![t] = Idle]
  /\ preparing' = NoToken
  /\ UNCHANGED <<persisted, rt, sync, cli, budget>>

(* Mutant of Exit: the entry is left behind.                               *)
ExitLeaving(t) ==
  /\ At(t, "exit")
  /\ worker' = [worker EXCEPT ![t] = Idle]
  /\ UNCHANGED <<persisted, rt, preparing, sync, cli, budget>>

Exit(t) ==
  /\ At(t, "exit")
  /\ worker' = [worker EXCEPT ![t] = Idle]
  /\ preparing' = IF preparing = t THEN NoToken ELSE preparing
  /\ UNCHANGED <<persisted, rt, sync, cli, budget>>

-----------------------------------------------------------------------------
(* The daemon dies and is started again.                                   *)
Crash ==
  /\ Fault
  /\ rt' = NoRuntime /\ preparing' = NoToken
  /\ worker' = [t \in Tokens |-> Idle]
  /\ sync' = AtRest
  /\ UNCHANGED <<persisted, cli, calls, lost>>

Sync ==
  \/ ListRepos \/ UnmountRemoved \/ LookRunning \/ LookPending \/ MountRepo \/ Check
  \/ UnmountForRestart \/ Remount \/ SupersedePrepare \/ ResetRunning \/ StillPreparing
  \/ StartPrepareWorker

Work(t) ==
  \/ PrepareGitDir(t) \/ ResolveHEAD(t) \/ PublishSnapshot(t) \/ Recheck(t) \/ MarkRowReady(t)
  \/ Capture(t) \/ Verify(t, "verify", "reconciled") \/ Verify(t, "reconciled", "serve")
  \/ SetGeneration(t) \/ FinalCheck(t) \/ OpenGate(t)
  \/ StartRepoBackground(t) \/ StepFails(t) \/ Fail(t) \/ MarkRowFailed(t)
  \/ ApplyFailed(t) \/ Exit(t)

Command(c) == \/ \E op \in {"prepare", "refresh"} : GetRepo(c, op)
              \/ PrepareAgain(c) \/ SetRefresh(c)

Next ==
  \/ \E cfg \in Configs : AddRepo(cfg)
  \/ RemoveRepo
  \/ \E c \in Clients : Command(c)
  \/ Sync
  \/ MountFails
  \/ \E t \in Tokens : Work(t) \/ FailureNotRecorded(t)
  \/ Crash

Spec == Init /\ [][Next]_vars

(* The ticker of Start keeps ticking and every preparation ends, at the    *)
(* latest by its timeout.  Nobody is obliged to run a command.             *)
Fairness == WF_vars(Sync) /\ \A t \in Tokens : WF_vars(Work(t))
FairSpec == Spec /\ Fairness

-----------------------------------------------------------------------------
(* Properties.                                                             *)

(* Two preparations never work on one gitdir at a time: a worker whose     *)
(* context is not cancelled is the one the map of preparations names, over *)
(* restarts, superseded workers that return late and removed repositories. *)
OneLivePreparation ==
  \A t \in Tokens : worker[t].alive => preparing = t

(* An open gate serves the tree of the runtime's own configuration, also   *)
(* when the branch was changed while a preparation ran.                    *)
OpenGateServesConfig == rt.gate = "open" => rt.tree = rt.cfg

(* When a preparation declares the row ready, the snapshot that a status   *)
(* command or a restart will read holds the tree of that row's branch.     *)
ReadyIsPublished ==
  [][(row'.state = "ready" /\ row # row' /\ cli' = cli) => snap = row'.cfg]_vars

(* A request to prepare is taken up and ends, ready or failed, whatever    *)
(* crashes, failed mounts and workers that were superseded come between.   *)
PreparationEnds == row.state = "preparing" ~> row.state # "preparing"

(* A repository whose row says ready is mounted and open to every          *)
(* operation, unless its row changes again.  Two holes are named: a        *)
(* failure or a command that was lost, and a runtime of another            *)
(* configuration, which the daemon replaces only under a row that says     *)
(* preparing.                                                              *)
Serving == rt.active /\ rt.gate \in {"none", "open"}
Replaced == rt # NoRuntime /\ rt.cfg # row.cfg
ReadyIsServed == row.state = "ready" ~> (row.state # "ready" \/ Serving \/ lost \/ Replaced)
=============================================================================
