------------------------------ MODULE Hydrator ------------------------------
(***************************************************************************)
(* The hydrator of one mounted repository (internal/hydrator): a priority  *)
(* queue of blob fetches, a pool of worker goroutines that drain it, the   *)
(* readers that block until a worker has put their blob in the cache       *)
(* directory, and the verification of files found in that directory.       *)
(*                                                                         *)
(* One action is one critical section of Service.mu, one channel operation *)
(* or one access to the cache directory; everything may interleave between *)
(* them.  A send on a reply channel is merged into the critical section    *)
(* that takes the waiters, since the channels have room for their only     *)
(* message and a reader may be arbitrarily slow to receive it.             *)
(***************************************************************************)
EXTENDS Naturals, FiniteSets

CONSTANTS
  Readers,      \* calls of EnsureHydrated; each is made once
  Peekers,      \* calls of ReadBlob; each is made once
  Workers,      \* the goroutines Start launches
  Prefetchers,  \* goroutines that call EnqueueBatch (directory listings)
  Blobs,        \* object ids
  KnownSize,    \* blobs whose size the snapshot knows
  Leftovers,    \* states of cached files that an earlier run may have left
  Explicit,     \* PriorityExplicitRead; 1..Explicit-1 are the prefetch priorities
  NoBlob        \* what a process works on when it works on nothing

(* A cached file is absent, holds the blob, or was damaged before the      *)
(* daemon started: "short" has a wrong length, "corrupt" the right length  *)
(* and wrong bytes.                                                        *)
FileState == {"absent", "good", "short", "corrupt"}
Damaged   == {"short", "corrupt"}

ASSUME HydratorAssumption ==
  /\ KnownSize \subseteq Blobs
  /\ Leftovers \subseteq FileState
  /\ NoBlob \notin Blobs
  /\ Explicit \in Nat \ {0}
  /\ Readers \cap Peekers = {}
  /\ (Readers \cup Peekers) \cap Workers = {}

Requests == Readers \cup Peekers
Procs    == Requests \cup Workers

(* How git hash-object ends: the hash matches, differs, the command fails, *)
(* or its context was cancelled.                                           *)
Verdicts == {"ok", "bad", "fail", "canceled"}

VARIABLES
  queued,     \* priority of the queued task of a blob, 0 when none is queued
  active,     \* blobs a worker is processing
  wait,       \* readers waiting for a blob
  verifying,  \* processes waiting for the verification of a blob's file
  verifiers,  \* per blob, how many runVerification goroutines are at each stage
  verified,   \* blobs whose cached file is known to be intact
  file,       \* the cache directory
  token,      \* workReady holds a signal
  stop,       \* progress of Stop: "running", "closed" (stopCh), "stopped"
  owed,       \* enqueued tasks whose EnqueueBatch has yet to signal
  pc, blob,   \* where each process is, and the blob it works on
  reply,      \* the answer in a request's channel, or what it returned
  verdict     \* the answer in a process's verification channel

queueVars  == <<queued, active, wait>>
verifyVars == <<verifying, verifiers, verdict>>
procVars   == <<pc, blob, reply>>
vars == <<queued, active, wait, verifying, verifiers, verified, file, token,
          stop, owed, pc, blob, reply, verdict>>

Validating == {"stat", "verify", "vwait", "remove", "clear", "hit", "miss", "verr"}
RequestPC  == Validating \cup {"idle", "signal", "await", "done"}
WorkerPC   == Validating \cup {"select", "pop", "more", "fetched", "hung", "again", "exited"}

Processing == Validating \cup {"more", "fetched", "hung"}  \* a worker inside step
Blocked    == {"signal", "await"}                          \* a reader registered in wait

Engaged(p) == IF p \in Workers THEN pc[p] \in Processing ELSE pc[p] # "idle"

TypeOK ==
  /\ queued \in [Blobs -> 0..Explicit]
  /\ active \subseteq Blobs
  /\ wait \in [Blobs -> SUBSET Readers]
  /\ verifying \in [Blobs -> SUBSET Procs]
  /\ verifiers \in [Blobs -> [Verdicts \cup {"running"} -> Nat]]
  /\ verified \subseteq Blobs
  /\ file \in [Blobs -> FileState]
  /\ token \in BOOLEAN
  /\ stop \in {"running", "closed", "stopped"}
  /\ owed \in [Prefetchers -> SUBSET Blobs]
  /\ pc \in [Procs -> RequestPC \cup WorkerPC]
  /\ \A r \in Requests : pc[r] \in RequestPC
  /\ \A w \in Workers : pc[w] \in WorkerPC
  /\ blob \in [Procs -> Blobs \cup {NoBlob}]
  /\ \A p \in Procs : Engaged(p) => blob[p] \in Blobs
  /\ reply \in [Requests -> {"none", "ok", "err", "direct"}]
  /\ verdict \in [Procs -> Verdicts \cup {"none"}]

Init ==
  /\ queued = [b \in Blobs |-> 0]
  /\ active = {}
  /\ wait = [b \in Blobs |-> {}]
  /\ verifying = [b \in Blobs |-> {}]
  /\ verifiers = [b \in Blobs |-> [s \in Verdicts \cup {"running"} |-> 0]]
  /\ verified = {}
  /\ file \in [Blobs -> Leftovers]
  /\ token = FALSE
  /\ stop = "running"
  /\ owed = [e \in Prefetchers |-> {}]
  /\ pc = [p \in Procs |-> IF p \in Workers THEN "select" ELSE "idle"]
  /\ blob = [p \in Procs |-> NoBlob]
  /\ reply = [r \in Requests |-> "none"]
  /\ verdict = [p \in Procs |-> "none"]

Goto(p, from, to) == pc[p] = from /\ pc' = [pc EXCEPT ![p] = to]

-----------------------------------------------------------------------------
(* The queue.                                                              *)

InFlight(b) == b \in active \/ wait[b] # {}

(* Mutant of Accepts: enqueueLocked forgets to look at Service.active.     *)
AcceptsWhileActive(b, priority) == queued[b] < priority

(* enqueueLocked accepts a task unless the blob is being processed or is   *)
(* queued at that priority or a higher one.                                *)
Accepts(b, priority) == b \notin active /\ queued[b] < priority

(* Mutant of EnqueueBatch: a repeated prefetch adds to the priority.       *)
EnqueueBatchAdding(e, tasks) ==
  LET accepted == {b \in Blobs : b \notin active /\ tasks[b] > 0}
  IN  /\ owed[e] = {}
      /\ queued' = [b \in Blobs |-> IF b \in accepted THEN queued[b] + tasks[b] ELSE queued[b]]
      /\ owed' = [owed EXCEPT ![e] = accepted]
      /\ UNCHANGED <<active, wait, verifyVars, verified, file, token, stop, procVars>>

(* EnqueueBatch: tasks gives the priority of each blob of the batch, 0 for *)
(* the others.  The signals are sent after the lock is released.           *)
EnqueueBatch(e, tasks) ==
  LET accepted == {b \in Blobs : Accepts(b, tasks[b])}
  IN  /\ owed[e] = {}
      /\ queued' = [b \in Blobs |-> IF b \in accepted THEN tasks[b] ELSE queued[b]]
      /\ owed' = [owed EXCEPT ![e] = accepted]
      /\ UNCHANGED <<active, wait, verifyVars, verified, file, token, stop, procVars>>

SignalBatch(e) ==
  /\ \E b \in owed[e] : owed' = [owed EXCEPT ![e] = @ \ {b}]
  /\ token' = TRUE
  /\ UNCHANGED <<queueVars, verifyVars, verified, file, stop, procVars>>

-----------------------------------------------------------------------------
(* validateCachedBlob, run by requests and by workers.  It leaves at "hit" *)
(* (the cached file is usable), "miss" (a fetch is needed) or "verr".      *)

Stat(p) ==
  LET b == blob[p]
      mismatch == b \in KnownSize /\ file[b] = "short"
  IN  /\ Goto(p, "stat", CASE file[b] = "absent" -> "miss"
                           [] mismatch           -> "remove"
                           [] OTHER              -> "verify")
      /\ UNCHANGED <<queueVars, verifyVars, verified, file, token, stop, owed, blob, reply>>

(* isVerified and the first critical section of verifyBlobOnce: join the   *)
(* verification of this blob, or launch one when nobody waits for one.     *)
Verify(p) ==
  LET b == blob[p]
  IN  /\ IF b \in verified
         THEN Goto(p, "verify", "hit") /\ UNCHANGED verifyVars
         ELSE /\ Goto(p, "verify", "vwait")
              /\ verifying' = [verifying EXCEPT ![b] = @ \cup {p}]
              /\ verifiers' = IF verifying[b] = {}
                              THEN [verifiers EXCEPT ![b]["running"] = @ + 1]
                              ELSE verifiers
              /\ UNCHANGED verdict
      /\ UNCHANGED <<queueVars, verified, file, token, stop, owed, blob, reply>>

(* Mutant of TakeVerdict: a verification that failed to run counts as ok.  *)
TakeVerdictTrusting(p) ==
  /\ verdict[p] # "none"
  /\ Goto(p, "vwait", CASE verdict[p] \in {"ok", "fail"} -> "hit"
                        [] verdict[p] = "bad"            -> "remove"
                        [] OTHER                         -> "verr")
  /\ verdict' = [verdict EXCEPT ![p] = "none"]
  /\ UNCHANGED <<queueVars, verifying, verifiers, verified, file, token, stop, owed,
                 blob, reply>>

(* awaitVerification returns a verdict.  An error that is not a            *)
(* cancellation counts as a miss and leaves the file where it is.          *)
TakeVerdict(p) ==
  /\ verdict[p] # "none"
  /\ Goto(p, "vwait", CASE verdict[p] = "ok"   -> "hit"
                        [] verdict[p] = "bad"  -> "remove"
                        [] verdict[p] = "fail" -> "miss"
                        [] OTHER               -> "verr")
  /\ verdict' = [verdict EXCEPT ![p] = "none"]
  /\ UNCHANGED <<queueVars, verifying, verifiers, verified, file, token, stop, owed,
                 blob, reply>>

(* removeInvalidCacheFile: os.Remove, then clearVerified.                  *)
Remove(p) ==
  /\ Goto(p, "remove", "clear")
  /\ file' = [file EXCEPT ![blob[p]] = "absent"]
  /\ UNCHANGED <<queueVars, verifyVars, verified, token, stop, owed, blob, reply>>

ClearVerified(p) ==
  /\ Goto(p, "clear", "miss")
  /\ verified' = verified \ {blob[p]}
  /\ UNCHANGED <<queueVars, verifyVars, file, token, stop, owed, blob, reply>>

(* os.Stat or os.Remove fails with something other than "not exist".       *)
CacheDirError(p) ==
  /\ \E at \in {"stat", "remove"} : Goto(p, at, "verr")
  /\ UNCHANGED <<queueVars, verifyVars, verified, file, token, stop, owed, blob, reply>>

Validate(p) == Stat(p) \/ Verify(p) \/ TakeVerdict(p) \/ Remove(p) \/ ClearVerified(p)

-----------------------------------------------------------------------------
(* runVerification, detached from the process that launched it.            *)

(* git hash-object reads the file.                                         *)
HashOutcomes(b) ==
  {"fail"} \cup (IF stop = "running" THEN {} ELSE {"canceled"})
           \cup (CASE file[b] = "good"    -> {"ok"}
                   [] file[b] \in Damaged -> {"bad"}
                   [] OTHER               -> {})

Hash(b, v) ==
  /\ verifiers[b]["running"] > 0
  /\ v \in HashOutcomes(b)
  /\ verifiers' = [verifiers EXCEPT ![b]["running"] = @ - 1, ![b][v] = @ + 1]
  /\ UNCHANGED <<queueVars, verifying, verdict, verified, file, token, stop, owed, procVars>>

(* Publish the verdict to everyone who waits for this blob's verification. *)
Publish(b, v) ==
  /\ verifiers[b][v] > 0
  /\ verifiers' = [verifiers EXCEPT ![b][v] = @ - 1]
  /\ verified' = IF v = "ok" THEN verified \cup {b} ELSE verified
  /\ verdict' = [p \in Procs |-> IF p \in verifying[b] THEN v ELSE verdict[p]]
  /\ verifying' = [verifying EXCEPT ![b] = {}]
  /\ UNCHANGED <<queueVars, file, token, stop, owed, procVars>>

-----------------------------------------------------------------------------
(* Requests.                                                               *)

(* EnsureHydrated first tries joinInflight.                                *)
EnsureHydrated(r, b) ==
  /\ Goto(r, "idle", IF InFlight(b) THEN "await" ELSE "stat")
  /\ blob' = [blob EXCEPT ![r] = b]
  /\ wait' = IF InFlight(b) THEN [wait EXCEPT ![b] = @ \cup {r}] ELSE wait
  /\ UNCHANGED <<queued, active, verifyVars, verified, file, token, stop, owed, reply>>

(* Mutant of Register: a queued prefetch is not upgraded.                  *)
RegisterWithoutUpgrade(r) ==
  LET b == blob[r]
      enqueue == ~InFlight(b) /\ queued[b] = 0
  IN  /\ Goto(r, "miss", IF enqueue THEN "signal" ELSE "await")
      /\ wait' = [wait EXCEPT ![b] = @ \cup {r}]
      /\ queued' = IF enqueue THEN [queued EXCEPT ![b] = Explicit] ELSE queued
      /\ UNCHANGED <<active, verifyVars, verified, file, token, stop, owed, blob, reply>>

(* After a miss the reader registers and, unless the blob is in flight,    *)
(* queues an explicit read or upgrades the queued prefetch to one.         *)
Register(r) ==
  LET b == blob[r]
      enqueue == ~InFlight(b) /\ Accepts(b, Explicit)
  IN  /\ Goto(r, "miss", IF enqueue THEN "signal" ELSE "await")
      /\ wait' = [wait EXCEPT ![b] = @ \cup {r}]
      /\ queued' = IF enqueue THEN [queued EXCEPT ![b] = Explicit] ELSE queued
      /\ UNCHANGED <<active, verifyVars, verified, file, token, stop, owed, blob, reply>>

(* Mutant of SignalRead: the reader queues its task and does not signal.   *)
SignalReadForgotten(r) ==
  /\ Goto(r, "signal", "await")
  /\ UNCHANGED <<queueVars, verifyVars, verified, file, token, stop, owed, blob, reply>>

SignalRead(r) ==
  /\ Goto(r, "signal", "await")
  /\ token' = TRUE
  /\ UNCHANGED <<queueVars, verifyVars, verified, file, stop, owed, blob, reply>>

Receive(r) ==
  /\ reply[r] # "none"
  /\ Goto(r, "await", "done")
  /\ UNCHANGED <<queueVars, verifyVars, verified, file, token, stop, owed, blob, reply>>

Finish(r, at, answer) ==
  /\ Goto(r, at, "done")
  /\ reply' = [reply EXCEPT ![r] = answer]
  /\ UNCHANGED <<queueVars, verifyVars, verified, file, token, stop, owed, blob>>

(* The reader's context ends while it waits: it leaves the wait list.      *)
GiveUp(r) ==
  /\ Goto(r, "await", "done")
  /\ wait' = [wait EXCEPT ![blob[r]] = @ \ {r}]
  /\ reply' = [reply EXCEPT ![r] = "err"]
  /\ UNCHANGED <<queued, active, verifyVars, verified, file, token, stop, owed, blob>>

(* Mutant of GiveUpVerifying: the verification dies with its leader.       *)
GiveUpVerifyingLeader(r) ==
  /\ Goto(r, "vwait", "verr")
  /\ verifying' = [verifying EXCEPT ![blob[r]] = @ \ {r}]
  /\ verifiers' = [verifiers EXCEPT ![blob[r]]["running"] = IF @ > 0 THEN @ - 1 ELSE 0]
  /\ verdict' = [verdict EXCEPT ![r] = "none"]
  /\ UNCHANGED <<queueVars, verified, file, token, stop, owed, blob, reply>>

GiveUpVerifying(r) ==
  /\ Goto(r, "vwait", "verr")
  /\ verifying' = [verifying EXCEPT ![blob[r]] = @ \ {r}]
  /\ verdict' = [verdict EXCEPT ![r] = "none"]
  /\ UNCHANGED <<queueVars, verifiers, verified, file, token, stop, owed, blob, reply>>

(* ReadBlob neither joins a fetch nor queues one: an oversized cached file *)
(* or a miss is read straight from git, a hit is opened in the cache.      *)
ReadBlob(r, b) ==
  /\ \/ Goto(r, "idle", "stat") /\ UNCHANGED reply
     \/ Goto(r, "idle", "done") /\ reply' = [reply EXCEPT ![r] = "direct"]
  /\ blob' = [blob EXCEPT ![r] = b]
  /\ UNCHANGED <<queueVars, verifyVars, verified, file, token, stop, owed>>

ReadCachedBlob(r) == Finish(r, "hit", IF file[blob[r]] = "absent" THEN "err" ELSE "ok")

ReaderStep(r) == Validate(r) \/ Register(r) \/ SignalRead(r) \/ Receive(r)
                 \/ Finish(r, "hit", "ok") \/ Finish(r, "verr", "err")

PeekerStep(r) == Validate(r) \/ ReadCachedBlob(r)
                 \/ Finish(r, "miss", "direct") \/ Finish(r, "verr", "err")

-----------------------------------------------------------------------------
(* Workers.                                                                *)

TakeSignal(w) ==
  /\ token
  /\ Goto(w, "select", "pop")
  /\ token' = FALSE
  /\ UNCHANGED <<queueVars, verifyVars, verified, file, stop, owed, blob, reply>>

Exit(w) ==
  /\ stop # "running"
  /\ Goto(w, "select", "exited")
  /\ UNCHANGED <<queueVars, verifyVars, verified, file, token, stop, owed, blob, reply>>

Pending == {b \in Blobs : queued[b] > 0}

Drained(w) ==
  /\ Pending = {}
  /\ Goto(w, "pop", "select")
  /\ UNCHANGED <<queueVars, verifyVars, verified, file, token, stop, owed, blob, reply>>

(* Mutant of Pop: the worker does not wake another for the rest.           *)
PopWithoutSignal(w) == \E b \in Pending :
  /\ \A c \in Pending : queued[c] <= queued[b]
  /\ queued' = [queued EXCEPT ![b] = 0]
  /\ Goto(w, "pop", "stat")
  /\ active' = active \cup {b}
  /\ blob' = [blob EXCEPT ![w] = b]
  /\ UNCHANGED <<wait, verifyVars, verified, file, token, stop, owed, reply>>

(* Mutant of Pop: the popped blob is not marked active.                    *)
PopWithoutActive(w) == \E b \in Pending :
  /\ \A c \in Pending : queued[c] <= queued[b]
  /\ queued' = [queued EXCEPT ![b] = 0]
  /\ Goto(w, "pop", IF Pending = {b} THEN "stat" ELSE "more")
  /\ blob' = [blob EXCEPT ![w] = b]
  /\ UNCHANGED <<active, wait, verifyVars, verified, file, token, stop, owed, reply>>

(* step pops a task of the highest priority.  The heap breaks ties by age, *)
(* which the model leaves open.                                            *)
Pop(w) == \E b \in Pending :
  /\ \A c \in Pending : queued[c] <= queued[b]
  /\ queued' = [queued EXCEPT ![b] = 0]
  /\ IF b \in active
     THEN Goto(w, "pop", "again") /\ UNCHANGED <<active, blob>>
     ELSE /\ Goto(w, "pop", IF Pending = {b} THEN "stat" ELSE "more")
          /\ active' = active \cup {b}
          /\ blob' = [blob EXCEPT ![w] = b]
  /\ UNCHANGED <<wait, verifyVars, verified, file, token, stop, owed, reply>>

Signal(w) ==
  /\ Goto(w, "more", "stat") \/ Goto(w, "again", "pop")
  /\ token' = TRUE
  /\ UNCHANGED <<queueVars, verifyVars, verified, file, stop, owed, blob, reply>>

(* BlobToCache writes a temporary file and renames it into place, or fails *)
(* (git, the disk, the two-minute timeout, Stop) and changes nothing.      *)
Fetch(w) ==
  /\ \/ /\ Goto(w, "miss", "fetched")
        /\ file' = [file EXCEPT ![blob[w]] = "good"]
     \/ Goto(w, "miss", "verr") /\ UNCHANGED file
  /\ UNCHANGED <<queueVars, verifyVars, verified, token, stop, owed, blob, reply>>

(* BlobToCache does not return: the file could not be written, and close   *)
(* waits, whatever the timeout, for a git that is still sending (Clogged in*)
(* BatchPool).                                                             *)
Hang(w) ==
  /\ Goto(w, "miss", "hung")
  /\ UNCHANGED <<queueVars, verifyVars, verified, file, token, stop, owed, blob, reply>>

(* Mutant of Answer: an error leaves the waiters registered.               *)
AnswerOnlySuccess(w, at, answer) ==
  LET b == blob[w]
      answered == IF answer = "ok" THEN wait[b] ELSE {}
  IN  /\ Goto(w, at, "again")
      /\ active' = active \ {b}
      /\ reply' = [r \in Requests |-> IF r \in answered THEN answer ELSE reply[r]]
      /\ wait' = [wait EXCEPT ![b] = @ \ answered]
      /\ verified' = IF at = "fetched" THEN verified \cup {b} ELSE verified
      /\ blob' = [blob EXCEPT ![w] = NoBlob]
      /\ UNCHANGED <<queued, verifyVars, file, token, stop, owed>>

(* The worker answers everyone who waits for its blob and lets it go:      *)
(* finishHydration, and the end of step after a fetch.                     *)
Answer(w, at, answer) ==
  LET b == blob[w]
  IN  /\ Goto(w, at, "again")
      /\ active' = active \ {b}
      /\ reply' = [r \in Requests |-> IF r \in wait[b] THEN answer ELSE reply[r]]
      /\ wait' = [wait EXCEPT ![b] = {}]
      /\ verified' = IF at = "fetched" THEN verified \cup {b} ELSE verified
      /\ blob' = [blob EXCEPT ![w] = NoBlob]
      /\ UNCHANGED <<queued, verifyVars, file, token, stop, owed>>

WorkerStep(w) == TakeSignal(w) \/ Exit(w) \/ Drained(w) \/ Pop(w) \/ Signal(w)
                 \/ Validate(w) \/ Fetch(w) \/ Answer(w, "hit", "ok")
                 \/ Answer(w, "fetched", "ok") \/ Answer(w, "verr", "err")

-----------------------------------------------------------------------------
(* Stop closes stopCh, then answers everyone who waits at that moment.     *)

CloseStopCh ==
  /\ stop = "running"
  /\ stop' = "closed"
  /\ UNCHANGED <<queueVars, verifyVars, verified, file, token, owed, procVars>>

CloseAll ==
  /\ stop = "closed"
  /\ stop' = "stopped"
  /\ reply' = [r \in Requests |-> IF \E b \in Blobs : r \in wait[b] THEN "err" ELSE reply[r]]
  /\ wait' = [b \in Blobs |-> {}]
  /\ verdict' = [p \in Procs |-> IF \E b \in Blobs : p \in verifying[b]
                                 THEN "fail" ELSE verdict[p]]
  /\ verifying' = [b \in Blobs |-> {}]
  /\ UNCHANGED <<queued, active, verifiers, verified, file, token, owed, pc, blob>>

-----------------------------------------------------------------------------
Next ==
  \/ \E e \in Prefetchers, tasks \in [Blobs -> 0..(Explicit - 1)] : EnqueueBatch(e, tasks)
  \/ \E e \in Prefetchers : SignalBatch(e)
  \/ \E r \in Readers, b \in Blobs : EnsureHydrated(r, b)
  \/ \E r \in Peekers, b \in Blobs : ReadBlob(r, b)
  \/ \E r \in Readers : ReaderStep(r) \/ GiveUp(r)
  \/ \E r \in Peekers : PeekerStep(r)
  \/ \E r \in Requests : GiveUpVerifying(r)
  \/ \E w \in Workers : WorkerStep(w) \/ Hang(w)
  \/ \E p \in Procs : CacheDirError(p)
  \/ \E b \in Blobs, v \in Verdicts : Hash(b, v) \/ Publish(b, v)
  \/ CloseStopCh
  \/ CloseAll

Spec == Init /\ [][Next]_vars

(* A goroutine that can run eventually runs; nobody is obliged to call the *)
(* hydrator, to cancel a read or to stop the service, and no fetch to hang.*)
Fairness ==
  /\ \A r \in Readers : WF_vars(ReaderStep(r))
  /\ \A r \in Peekers : WF_vars(PeekerStep(r))
  /\ \A w \in Workers : WF_vars(WorkerStep(w))
  /\ \A e \in Prefetchers : WF_vars(SignalBatch(e))
  /\ \A b \in Blobs : WF_vars(\E v \in Verdicts : Hash(b, v))
  /\ \A b \in Blobs, v \in Verdicts : WF_vars(Publish(b, v))
  /\ WF_vars(CloseAll)

FairSpec == Spec /\ Fairness

-----------------------------------------------------------------------------
(* Properties.                                                             *)

ProcessedBy(w, b) == pc[w] \in Processing /\ blob[w] = b

(* At most one fetch: a blob in Service.active is being processed by       *)
(* exactly one worker, a blob outside it by none, and no active blob is    *)
(* queued again, however tasks are enqueued, joined and upgraded around    *)
(* the pop.                                                                *)
OneWorkerPerBlob ==
  /\ \A b \in active : queued[b] = 0 /\ \E w \in Workers : ProcessedBy(w, b)
  /\ \A w \in Workers : pc[w] \in Processing => blob[w] \in active
  /\ \A v, w \in Workers :
       (pc[v] \in Processing /\ pc[w] \in Processing /\ blob[v] = blob[w]) => v = w

(* A reader that blocks in awaitHydration is registered in wait until it   *)
(* is answered, and its blob is queued or being processed: no interleaving *)
(* of joining, giving up, answering and stopping strands it.               *)
NoOrphanedRead ==
  /\ \A r \in Readers : (pc[r] \in Blocked /\ reply[r] = "none") => r \in wait[blob[r]]
  /\ \A b \in Blobs : wait[b] # {} => b \in active \/ queued[b] > 0

(* A blob somebody waits for is never queued at a prefetch priority, even  *)
(* when the prefetch was queued first (enqueueLocked upgrades it).         *)
NoPriorityInversion ==
  \A b \in Blobs : (wait[b] # {} /\ queued[b] > 0) => queued[b] = Explicit

(* The wake-up channel holds one signal and is sent to outside the lock:   *)
(* yet while a task is queued there is a signal in the channel, or someone *)
(* about to send one, or a worker about to look at the queue.              *)
NoLostWakeup ==
  Pending # {} =>
    \/ token
    \/ \E w \in Workers : pc[w] \in {"pop", "more", "again"}
    \/ \E r \in Readers : pc[r] = "signal"
    \/ \E e \in Prefetchers : owed[e] # {}

(* Bytes that are not the blob's are never handed out: whatever file the   *)
(* previous daemon left, once a read is answered with the cache path, a    *)
(* verification succeeded or a fetch finished, the file is not damaged.  It*)
(* may be gone: removeInvalidCacheFile removes what is there by then.      *)
NoDamagedBlobServed ==
  /\ \A r \in Requests : reply[r] = "ok" => file[blob[r]] \notin Damaged
  /\ \A b \in verified : file[b] \notin Damaged

(* A process that waits for a verification is registered for it, and a     *)
(* goroutine that will publish to it is alive, although the leader that    *)
(* launched the goroutine may have given up.                               *)
NoOrphanedVerification ==
  \A p \in Procs : (pc[p] = "vwait" /\ verdict[p] = "none") =>
    /\ p \in verifying[blob[p]]
    /\ \E s \in Verdicts \cup {"running"} : verifiers[blob[p]][s] > 0

(* Neither a worker nor a verification leaves somebody waiting for it.     *)
NobodyWaitsInVain == NoLostWakeup /\ NoOrphanedVerification

Hung == {w \in Workers : pc[w] = "hung"}

(* While the service runs, every read that blocks is answered, although    *)
(* prefetches keep arriving: verifications and fetches may fail, but none  *)
(* of them loses a reader.  The exception is a fetch that never returns: it*)
(* takes the readers of its blob with it, and the last worker everybody.   *)
EveryReadAnswered ==
  \A r \in Readers :
    pc[r] \in Blocked \cup {"vwait"} ~>
      \/ pc[r] = "done" \/ stop # "running"
      \/ Hung = Workers \/ \E w \in Hung : blob[w] = blob[r]

(* The hydrator implements HydrationPromise.                               *)
Call == [r \in Readers |-> IF pc[r] = "idle" THEN "idle"
                           ELSE IF pc[r] = "done" THEN reply[r] ELSE "pending"]
Want == [r \in Readers |-> blob[r]]
Cache == [b \in Blobs |-> IF file[b] \in Damaged THEN "damaged" ELSE file[b]]
InFetch == {"miss", "hung"}
Fetching == {blob[w] : w \in {v \in Workers : pc[v] \in InFetch}}

Promise == INSTANCE HydrationPromise WITH
  call <- Call, want <- Want, cache <- Cache, fetching <- Fetching

KeepsPromise == Promise!Spec
=============================================================================
