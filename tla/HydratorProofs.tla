--------------------------- MODULE HydratorProofs ---------------------------
(***************************************************************************)
(* Safety of the hydrator for any number of readers, workers, prefetchers  *)
(* and blobs.  The invariants build on each other: types, then ownership   *)
(* of a blob by its worker, the registration of readers, the priority of   *)
(* what they wait for, the wake-up channel, the registration of processes  *)
(* that wait for a verification, and the soundness of what is served; with *)
(* them it implements HydrationPromise.                                    *)
(***************************************************************************)
EXTENDS Hydrator, TLAPS

USE HydratorAssumption

-----------------------------------------------------------------------------
(* Type correctness.                                                       *)

LEMMA Priorities == 0 \in 0..Explicit /\ Explicit \in 0..Explicit
OBVIOUS

(* A process moves between program counters of its own kind.               *)
LEMMA GotoType ==
  ASSUME TypeOK, NEW p \in Procs, NEW from, NEW to, Goto(p, from, to),
         p \in Requests => to \in RequestPC,
         p \in Workers => to \in WorkerPC
  PROVE  /\ pc' \in [Procs -> RequestPC \cup WorkerPC]
         /\ \A r \in Requests : pc'[r] \in RequestPC
         /\ \A w \in Workers : pc'[w] \in WorkerPC
BY DEF TypeOK, Goto, Procs, Requests

(* A process that keeps its blob may only become engaged if it was.        *)
LEMMA GotoBlob ==
  ASSUME TypeOK, NEW p \in Procs, NEW from, NEW to, Goto(p, from, to),
         blob' = blob,
         p \notin Workers => from # "idle",
         (p \in Workers /\ to \in Processing) => from \in Processing
  PROVE  \A q \in Procs : Engaged(q)' => blob'[q] \in Blobs
<1> SUFFICES ASSUME NEW q \in Procs, Engaged(q)'
             PROVE  blob'[q] \in Blobs
  OBVIOUS
<1>1. Engaged(q)
  BY DEF Engaged, Goto, TypeOK, Procs, Requests
<1>2. QED BY <1>1 DEF TypeOK

LEMMA InitType == Init => TypeOK
<1> USE DEF Procs, Requests, RequestPC, WorkerPC
<1> SUFFICES ASSUME Init PROVE TypeOK
  OBVIOUS
<1>1. file \in [Blobs -> FileState]
  BY DEF Init
<1>2. pc \in [Procs -> RequestPC \cup WorkerPC]
  BY DEF Init
<1>3. \A r \in Requests : pc[r] \in RequestPC
  BY DEF Init
<1>4. queued \in [Blobs -> 0..Explicit]
  BY Priorities DEF Init
<1>5. verifiers \in [Blobs -> [Verdicts \cup {"running"} -> Nat]]
  BY DEF Init
<1>6. wait \in [Blobs -> SUBSET Readers] /\ verifying \in [Blobs -> SUBSET Procs]
  BY DEF Init
<1>7. reply \in [Requests -> {"none", "ok", "err", "direct"}]
  BY DEF Init
<1>8. verdict \in [Procs -> Verdicts \cup {"none"}] /\ blob \in [Procs -> Blobs \cup {NoBlob}]
  BY DEF Init
<1>9. \A p \in Procs : ~Engaged(p)
  BY DEF Init, Engaged, Processing, Validating
<1>10. QED BY <1>1, <1>2, <1>3, <1>4, <1>5, <1>6, <1>7, <1>8, <1>9 DEF Init, TypeOK

(* The steps of validateCachedBlob keep the types.                         *)
LEMMA ValidateType ==
  ASSUME TypeOK, NEW p \in Procs, Validate(p)
  PROVE  TypeOK'
<1> USE DEF RequestPC, WorkerPC, Validating, Processing, queueVars, verifyVars
<1>1. CASE Stat(p)
  <2>1. PICK to \in {"miss", "remove", "verify"} : Goto(p, "stat", to)
    BY <1>1 DEF Stat
  <2>2. QED BY <1>1, <2>1, GotoType, GotoBlob DEF Stat, TypeOK
<1>2. CASE Verify(p)
  <2>1. PICK to \in {"hit", "vwait"} : Goto(p, "verify", to)
    BY <1>2 DEF Verify
  <2>2. verifying' \in [Blobs -> SUBSET Procs]
    BY <1>2 DEF Verify, TypeOK
  <2>3. verifiers' \in [Blobs -> [Verdicts \cup {"running"} -> Nat]]
    <3> DEFINE more == [verifiers[blob[p]] EXCEPT !["running"] = @ + 1]
    <3>1. blob[p] \in Blobs => more \in [Verdicts \cup {"running"} -> Nat]
      BY DEF TypeOK
    <3>2. \/ verifiers' = verifiers
          \/ verifiers' = [verifiers EXCEPT ![blob[p]] = more]
      BY <1>2 DEF Verify
    <3> HIDE DEF more
    <3>3. QED BY <3>1, <3>2, ZenonT(40) DEF TypeOK
  <2>4. QED BY <1>2, <2>1, <2>2, <2>3, GotoType, GotoBlob DEF Verify, TypeOK
<1>3. CASE TakeVerdict(p)
  BY <1>3, GotoType, GotoBlob DEF TakeVerdict, TypeOK
<1>4. CASE Remove(p)
  BY <1>4, GotoType, GotoBlob DEF Remove, TypeOK, FileState
<1>5. CASE ClearVerified(p)
  BY <1>5, GotoType, GotoBlob DEF ClearVerified, TypeOK
<1>6. QED BY <1>1, <1>2, <1>3, <1>4, <1>5 DEF Validate

(* The detached verification goroutine keeps the types.                    *)
LEMMA VerificationType ==
  ASSUME TypeOK, NEW b \in Blobs, NEW v \in Verdicts, Hash(b, v) \/ Publish(b, v)
  PROVE  TypeOK'
<1> USE DEF queueVars, verifyVars, procVars, Engaged
<1> DEFINE Counts == [Verdicts \cup {"running"} -> Nat]
<1>1. CASE Hash(b, v)
  <2> DEFINE count == [verifiers[b] EXCEPT !["running"] = @ - 1, ![v] = @ + 1]
  <2>1. verifiers[b] \in Counts /\ verifiers[b]["running"] > 0
    BY <1>1 DEF TypeOK, Hash
  <2>2. v # "running"
    BY DEF Verdicts
  <2>3. count \in Counts
    BY <2>1, <2>2
  <2>4. verifiers' = [verifiers EXCEPT ![b] = count]
    BY <1>1, <2>2 DEF Hash, TypeOK
  <2> HIDE DEF count
  <2>5. verifiers' \in [Blobs -> Counts]
    BY <2>3, <2>4 DEF TypeOK
  <2>6. QED BY <1>1, <2>5 DEF Hash, TypeOK
<1>2. CASE Publish(b, v)
  <2> DEFINE count == [verifiers[b] EXCEPT ![v] = @ - 1]
  <2>1. verifiers[b] \in Counts /\ verifiers[b][v] > 0
    BY <1>2 DEF TypeOK, Publish
  <2>2. count \in Counts
    BY <2>1
  <2>3. verifiers' = [verifiers EXCEPT ![b] = count]
    BY <1>2 DEF Publish, TypeOK
  <2> HIDE DEF count
  <2>4. verifiers' \in [Blobs -> Counts]
    BY <2>2, <2>3 DEF TypeOK
  <2>5. verdict' \in [Procs -> Verdicts \cup {"none"}]
    BY <1>2 DEF Publish, TypeOK
  <2>6. verifying' \in [Blobs -> SUBSET Procs] /\ verified' \subseteq Blobs
    BY <1>2 DEF Publish, TypeOK
  <2>7. QED BY <1>2, <2>4, <2>5, <2>6 DEF Publish, TypeOK
<1>3. QED BY <1>1, <1>2

(* The steps of a request outside validateCachedBlob keep the types.       *)
LEMMA RequestType ==
  ASSUME TypeOK, NEW r \in Requests,
         \/ \E b \in Blobs : r \in Readers /\ EnsureHydrated(r, b)
         \/ \E b \in Blobs : ReadBlob(r, b)
         \/ r \in Readers /\ (Register(r) \/ GiveUp(r))
         \/ SignalRead(r) \/ Receive(r) \/ GiveUpVerifying(r)
         \/ \E at \in {"hit", "miss", "verr"}, answer \in {"ok", "err", "direct"} :
              Finish(r, at, answer)
         \/ ReadCachedBlob(r)
  PROVE  TypeOK'
<1> USE DEF RequestPC, Validating, queueVars, verifyVars
<1>0. r \in Procs /\ r \notin Workers
  BY DEF Procs, Requests
<1>1. ASSUME NEW b \in Blobs, r \in Readers, EnsureHydrated(r, b) PROVE TypeOK'
  <2>1. PICK to \in {"await", "stat"} : Goto(r, "idle", to)
    BY <1>1 DEF EnsureHydrated
  <2>2. wait' \in [Blobs -> SUBSET Readers]
    BY <1>1 DEF EnsureHydrated, TypeOK
  <2>3. blob' \in [Procs -> Blobs \cup {NoBlob}]
    BY <1>1 DEF EnsureHydrated, TypeOK
  <2>4. \A q \in Procs : Engaged(q)' => blob'[q] \in Blobs
    BY <1>0, <1>1, <2>1 DEF EnsureHydrated, Engaged, Goto, TypeOK
  <2>5. QED BY <1>0, <1>1, <2>1, <2>2, <2>3, <2>4, GotoType DEF EnsureHydrated, TypeOK
<1>2. ASSUME NEW b \in Blobs, ReadBlob(r, b) PROVE TypeOK'
  <2>1. PICK to \in {"done", "stat"} : Goto(r, "idle", to)
    BY <1>2 DEF ReadBlob
  <2>2. reply' \in [Requests -> {"none", "ok", "err", "direct"}]
    BY <1>2 DEF ReadBlob, TypeOK
  <2>3. blob' \in [Procs -> Blobs \cup {NoBlob}]
    BY <1>2 DEF ReadBlob, TypeOK
  <2>4. \A q \in Procs : Engaged(q)' => blob'[q] \in Blobs
    BY <1>0, <1>2, <2>1 DEF ReadBlob, Engaged, Goto, TypeOK
  <2>5. QED BY <1>0, <1>2, <2>1, <2>2, <2>3, <2>4, GotoType DEF ReadBlob, TypeOK
<1>3. CASE r \in Readers /\ Register(r)
  <2>1. PICK to \in {"await", "signal"} : Goto(r, "miss", to)
    BY <1>3 DEF Register
  <2>2. wait' \in [Blobs -> SUBSET Readers] /\ queued' \in [Blobs -> 0..Explicit]
    BY <1>3, Priorities DEF Register, TypeOK
  <2>3. QED BY <1>0, <1>3, <2>1, <2>2, GotoType, GotoBlob DEF Register, TypeOK
<1>4. CASE r \in Readers /\ GiveUp(r)
  <2>1. wait' \in [Blobs -> SUBSET Readers]
    BY <1>4 DEF GiveUp, TypeOK
  <2>2. QED BY <1>0, <1>4, <2>1, GotoType, GotoBlob DEF GiveUp, TypeOK
<1>5. CASE SignalRead(r)
  BY <1>0, <1>5, GotoType, GotoBlob DEF SignalRead, TypeOK
<1>6. CASE Receive(r)
  BY <1>0, <1>6, GotoType, GotoBlob DEF Receive, TypeOK
<1>7. CASE GiveUpVerifying(r)
  <2>1. verifying' \in [Blobs -> SUBSET Procs]
    BY <1>7 DEF GiveUpVerifying, TypeOK
  <2>2. QED BY <1>0, <1>7, <2>1, GotoType, GotoBlob DEF GiveUpVerifying, TypeOK
<1>8. ASSUME NEW at \in {"hit", "miss", "verr"}, NEW answer \in {"ok", "err", "direct"},
             Finish(r, at, answer)
      PROVE  TypeOK'
  BY <1>0, <1>8, GotoType, GotoBlob DEF Finish, TypeOK
<1>9. CASE ReadCachedBlob(r)
  <2>1. PICK answer \in {"ok", "err"} : Finish(r, "hit", answer)
    BY <1>9 DEF ReadCachedBlob
  <2>2. QED BY <1>8, <2>1
<1>10. QED BY <1>1, <1>2, <1>3, <1>4, <1>5, <1>6, <1>7, <1>8, <1>9

(* The steps of a worker outside validateCachedBlob keep the types.        *)
LEMMA WorkerType ==
  ASSUME TypeOK, NEW w \in Workers,
         \/ TakeSignal(w) \/ Exit(w) \/ Drained(w) \/ Pop(w) \/ Signal(w) \/ Fetch(w) \/ Hang(w)
         \/ \E at \in {"hit", "fetched", "verr"}, answer \in {"ok", "err"} :
              Answer(w, at, answer)
  PROVE  TypeOK'
<1> USE DEF WorkerPC, Validating, Processing, queueVars, verifyVars
<1>0. w \in Procs /\ w \notin Requests
  BY DEF Procs, Requests
<1>1. CASE TakeSignal(w)
  BY <1>0, <1>1, GotoType, GotoBlob DEF TakeSignal, TypeOK
<1>2. CASE Exit(w)
  BY <1>0, <1>2, GotoType, GotoBlob DEF Exit, TypeOK
<1>3. CASE Drained(w)
  BY <1>0, <1>3, GotoType, GotoBlob DEF Drained, TypeOK
<1>4. CASE Pop(w)
  <2>1. PICK to \in {"again", "stat", "more"} : Goto(w, "pop", to)
    BY <1>4 DEF Pop
  <2>2. queued' \in [Blobs -> 0..Explicit]
    BY <1>4, Priorities DEF Pop, TypeOK
  <2>3. active' \subseteq Blobs /\ blob' \in [Procs -> Blobs \cup {NoBlob}]
    BY <1>0, <1>4 DEF Pop, Pending, TypeOK
  <2>4. \A q \in Procs : Engaged(q)' => blob'[q] \in Blobs
    BY <1>0, <1>4 DEF Pop, Pending, Engaged, Goto, TypeOK
  <2>5. QED BY <1>0, <1>4, <2>1, <2>2, <2>3, <2>4, GotoType DEF Pop, TypeOK
<1>5. CASE Signal(w)
  <2>1. PICK from \in {"more", "again"}, to \in {"stat", "pop"} :
         Goto(w, from, to) /\ (from = "again" => to = "pop")
    BY <1>5 DEF Signal
  <2>2. QED BY <1>0, <1>5, <2>1, GotoType, GotoBlob DEF Signal, TypeOK
<1>6. CASE Fetch(w)
  <2>1. PICK to \in {"fetched", "verr"} : Goto(w, "miss", to)
    BY <1>6 DEF Fetch
  <2>2. file' \in [Blobs -> FileState]
    BY <1>6 DEF Fetch, TypeOK, FileState
  <2>3. QED BY <1>0, <1>6, <2>1, <2>2, GotoType, GotoBlob DEF Fetch, TypeOK
<1>7. CASE Hang(w)
  BY <1>0, <1>7, GotoType, GotoBlob DEF Hang, TypeOK
<1>8. ASSUME NEW at \in {"hit", "fetched", "verr"}, NEW answer \in {"ok", "err"},
             Answer(w, at, answer)
      PROVE  TypeOK'
  <2>1. Goto(w, at, "again")
    BY <1>8 DEF Answer
  <2>2. reply' \in [Requests -> {"none", "ok", "err", "direct"}]
    BY <1>8 DEF Answer, TypeOK
  <2>3. wait' \in [Blobs -> SUBSET Readers] /\ active' \subseteq Blobs
    BY <1>8 DEF Answer, TypeOK
  <2>4. verified' \subseteq Blobs
    <3>1. Engaged(w)
      BY <1>0, <2>1 DEF Engaged, Goto
    <3>2. QED BY <1>0, <1>8, <3>1 DEF Answer, TypeOK
  <2>5. blob' \in [Procs -> Blobs \cup {NoBlob}]
    BY <1>8 DEF Answer, TypeOK
  <2>6. \A q \in Procs : Engaged(q)' => blob'[q] \in Blobs
    BY <1>0, <1>8, <2>1 DEF Answer, Engaged, Goto, TypeOK
  <2>7. QED BY <1>0, <1>8, <2>1, <2>2, <2>3, <2>4, <2>5, <2>6, GotoType DEF Answer, TypeOK
<1>9. QED BY <1>1, <1>2, <1>3, <1>4, <1>5, <1>6, <1>7, <1>8

(* The cases of Next, for the proofs by cases below.                       *)
LEMMA NextCases ==
  ASSUME [Next]_vars
  PROVE  \/ \E e \in Prefetchers, tasks \in [Blobs -> 0..(Explicit - 1)] :
              EnqueueBatch(e, tasks)
         \/ \E e \in Prefetchers : SignalBatch(e)
         \/ \E p \in Procs : Validate(p) \/ CacheDirError(p)
         \/ \E b \in Blobs, v \in Verdicts : Hash(b, v) \/ Publish(b, v)
         \/ \E r \in Readers, b \in Blobs : EnsureHydrated(r, b)
         \/ \E r \in Peekers, b \in Blobs : ReadBlob(r, b)
         \/ \E r \in Readers : Register(r) \/ SignalRead(r) \/ Receive(r) \/ GiveUp(r)
         \/ \E r \in Readers : Finish(r, "hit", "ok") \/ Finish(r, "verr", "err")
         \/ \E r \in Peekers : \/ ReadCachedBlob(r)
                               \/ Finish(r, "miss", "direct") \/ Finish(r, "verr", "err")
         \/ \E r \in Requests : GiveUpVerifying(r)
         \/ \E w \in Workers : \/ TakeSignal(w) \/ Exit(w) \/ Drained(w) \/ Pop(w)
                               \/ Signal(w) \/ Fetch(w) \/ Hang(w)
         \/ \E w \in Workers : \/ Answer(w, "hit", "ok") \/ Answer(w, "fetched", "ok")
                               \/ Answer(w, "verr", "err")
         \/ CloseStopCh \/ CloseAll
         \/ UNCHANGED vars
<1>1. Readers \subseteq Procs /\ Peekers \subseteq Procs /\ Workers \subseteq Procs
  BY DEF Procs, Requests
<1>2. CASE \E w \in Workers : WorkerStep(w)
  BY <1>1, <1>2 DEF WorkerStep
<1>3. CASE \E r \in Readers : ReaderStep(r)
  BY <1>1, <1>3 DEF ReaderStep
<1>4. CASE \E r \in Peekers : PeekerStep(r)
  BY <1>1, <1>4 DEF PeekerStep
<1>5. QED BY <1>2, <1>3, <1>4 DEF Next

LEMMA TypeStep == TypeOK /\ [Next]_vars => TypeOK'
<1> SUFFICES ASSUME TypeOK, [Next]_vars PROVE TypeOK'
  OBVIOUS
<1> USE DEF queueVars, verifyVars, procVars
<1>1. ASSUME NEW e \in Prefetchers, NEW tasks \in [Blobs -> 0..(Explicit - 1)],
             EnqueueBatch(e, tasks)
      PROVE  TypeOK'
  <2>1. \A b \in Blobs : tasks[b] \in 0..Explicit
    OBVIOUS
  <2>2. queued' \in [Blobs -> 0..Explicit]
    BY <1>1, <2>1 DEF EnqueueBatch, TypeOK
  <2>3. owed' \in [Prefetchers -> SUBSET Blobs]
    BY <1>1 DEF EnqueueBatch, TypeOK
  <2>4. QED BY <1>1, <2>2, <2>3 DEF EnqueueBatch, TypeOK, Engaged
<1>2. ASSUME NEW e \in Prefetchers, SignalBatch(e) PROVE TypeOK'
  <2>1. owed' \in [Prefetchers -> SUBSET Blobs]
    BY <1>2 DEF SignalBatch, TypeOK
  <2>2. QED BY <1>2, <2>1 DEF SignalBatch, TypeOK, Engaged
<1>3. ASSUME NEW p \in Procs, Validate(p) PROVE TypeOK'
  BY <1>3, ValidateType
<1>4. ASSUME NEW p \in Procs, CacheDirError(p) PROVE TypeOK'
  <2>1. PICK at \in {"stat", "remove"} : Goto(p, at, "verr")
    BY <1>4 DEF CacheDirError
  <2>2. /\ "verr" \in RequestPC /\ "verr" \in WorkerPC
        /\ at # "idle" /\ at \in Processing
    BY DEF RequestPC, WorkerPC, Processing, Validating
  <2>3. QED BY <1>4, <2>1, <2>2, GotoType, GotoBlob DEF CacheDirError, TypeOK
<1>5. ASSUME NEW b \in Blobs, NEW v \in Verdicts, Hash(b, v) \/ Publish(b, v) PROVE TypeOK'
  BY <1>5, VerificationType
<1>6. Readers \subseteq Requests /\ Peekers \subseteq Requests
  BY DEF Requests
<1>7. CASE \E r \in Readers, b \in Blobs : EnsureHydrated(r, b)
  BY <1>6, <1>7, RequestType
<1>8. CASE \E r \in Peekers, b \in Blobs : ReadBlob(r, b)
  BY <1>6, <1>8, RequestType
<1>9. CASE \E r \in Readers : Register(r) \/ SignalRead(r) \/ Receive(r) \/ GiveUp(r)
  BY <1>6, <1>9, RequestType
<1>10. CASE \E r \in Readers : Finish(r, "hit", "ok") \/ Finish(r, "verr", "err")
  BY <1>6, <1>10, RequestType
<1>11. CASE \E r \in Peekers : \/ ReadCachedBlob(r)
                               \/ Finish(r, "miss", "direct") \/ Finish(r, "verr", "err")
  BY <1>6, <1>11, RequestType
<1>12. CASE \E r \in Requests : GiveUpVerifying(r)
  BY <1>12, RequestType
<1>13. CASE \E w \in Workers : \/ TakeSignal(w) \/ Exit(w) \/ Drained(w) \/ Pop(w)
                               \/ Signal(w) \/ Fetch(w) \/ Hang(w)
  BY <1>13, WorkerType
<1>14. CASE \E w \in Workers : \/ Answer(w, "hit", "ok") \/ Answer(w, "fetched", "ok")
                               \/ Answer(w, "verr", "err")
  BY <1>14, WorkerType
<1>15. CASE CloseStopCh
  BY <1>15 DEF CloseStopCh, TypeOK, Engaged
<1>16. CASE CloseAll
  <2>1. wait' \in [Blobs -> SUBSET Readers] /\ verifying' \in [Blobs -> SUBSET Procs]
    BY <1>16 DEF CloseAll
  <2>2. reply' \in [Requests -> {"none", "ok", "err", "direct"}]
    BY <1>16 DEF CloseAll, TypeOK
  <2>3. verdict' \in [Procs -> Verdicts \cup {"none"}]
    BY <1>16 DEF CloseAll, TypeOK, Verdicts
  <2>4. QED BY <1>16, <2>1, <2>2, <2>3 DEF CloseAll, TypeOK, Engaged
<1>17. CASE UNCHANGED vars
  BY <1>17 DEF vars, TypeOK, Engaged
<1>18. QED
  BY <1>1, <1>2, <1>3, <1>4, <1>5, <1>7, <1>8, <1>9, <1>10, <1>11, <1>12, <1>13,
     <1>14, <1>15, <1>16, <1>17, NextCases

(* The state of the service always has the shape the code gives it.        *)
THEOREM TypeCorrect == Spec => []TypeOK
<1>1. QED BY InitType, TypeStep, PTL DEF Spec

-----------------------------------------------------------------------------
(* A blob is processed by at most one worker.                              *)

(* Steps that neither touch the queue nor take a worker in or out of step. *)
LEMMA OwnershipFrame ==
  ASSUME OneWorkerPerBlob, active' = active, queued' = queued,
         \A w \in Workers : /\ blob'[w] = blob[w]
                            /\ pc'[w] \in Processing <=> pc[w] \in Processing
  PROVE  OneWorkerPerBlob'
BY DEF OneWorkerPerBlob, ProcessedBy

(* A process that moves within step, or outside it, keeps everyone's place.*)
LEMMA GotoOutside ==
  ASSUME TypeOK, NEW p \in Procs, NEW from, NEW to, Goto(p, from, to),
         from \in Processing <=> to \in Processing
  PROVE  \A w \in Workers : pc'[w] \in Processing <=> pc[w] \in Processing
BY DEF TypeOK, Goto, Procs

(* A request is not a worker, wherever it goes.                            *)
LEMMA GotoRequest ==
  ASSUME TypeOK, NEW r \in Requests, NEW from, NEW to, Goto(r, from, to)
  PROVE  \A w \in Workers : pc'[w] = pc[w]
BY DEF TypeOK, Goto, Procs, Requests

LEMMA OwnershipStep == TypeOK /\ OneWorkerPerBlob /\ [Next]_vars => OneWorkerPerBlob'
<1> SUFFICES ASSUME TypeOK, OneWorkerPerBlob, [Next]_vars PROVE OneWorkerPerBlob'
  OBVIOUS
<1> USE DEF queueVars, verifyVars, procVars
<1>0. Readers \subseteq Requests /\ Peekers \subseteq Requests
  BY DEF Requests
<1>1. ASSUME NEW e \in Prefetchers, NEW tasks \in [Blobs -> 0..(Explicit - 1)],
             EnqueueBatch(e, tasks)
      PROVE  OneWorkerPerBlob'
  BY <1>1 DEF EnqueueBatch, Accepts, OneWorkerPerBlob, ProcessedBy, TypeOK
<1>2. ASSUME NEW e \in Prefetchers, SignalBatch(e) PROVE OneWorkerPerBlob'
  BY <1>2, OwnershipFrame DEF SignalBatch
<1>3. ASSUME NEW p \in Procs, Validate(p) \/ CacheDirError(p) PROVE OneWorkerPerBlob'
  <2>1. PICK from, to \in Validating : Goto(p, from, to)
    BY <1>3 DEF Validate, CacheDirError, Stat, Verify, TakeVerdict, Remove,
                ClearVerified, Validating
  <2>2. active' = active /\ queued' = queued /\ blob' = blob
    BY <1>3 DEF Validate, CacheDirError, Stat, Verify, TakeVerdict, Remove, ClearVerified
  <2>3. from \in Processing /\ to \in Processing
    BY <2>1 DEF Processing
  <2>4. QED BY <2>1, <2>2, <2>3, OwnershipFrame, GotoOutside
<1>4. ASSUME NEW b \in Blobs, NEW v \in Verdicts, Hash(b, v) \/ Publish(b, v)
      PROVE  OneWorkerPerBlob'
  BY <1>4, OwnershipFrame DEF Hash, Publish
<1>5. ASSUME NEW r \in Requests, NEW b \in Blobs, EnsureHydrated(r, b) \/ ReadBlob(r, b)
      PROVE  OneWorkerPerBlob'
  <2>1. PICK to : Goto(r, "idle", to)
    BY <1>5 DEF EnsureHydrated, ReadBlob
  <2>2. active' = active /\ queued' = queued /\ \A w \in Workers : blob'[w] = blob[w]
    BY <1>5 DEF EnsureHydrated, ReadBlob, TypeOK, Procs, Requests
  <2>3. QED BY <2>1, <2>2, OwnershipFrame, GotoRequest
<1>6. ASSUME NEW r \in Requests, Register(r) PROVE OneWorkerPerBlob'
  <2>1. PICK to : Goto(r, "miss", to)
    BY <1>6 DEF Register
  <2>2. \A b \in active : queued'[b] = 0
    BY <1>6 DEF Register, Accepts, OneWorkerPerBlob, TypeOK
  <2>3. QED
    BY <1>6, <2>1, <2>2, GotoRequest
    DEF Register, OneWorkerPerBlob, ProcessedBy
<1>7. ASSUME NEW r \in Requests,
             \/ SignalRead(r) \/ Receive(r) \/ GiveUp(r) \/ GiveUpVerifying(r)
             \/ ReadCachedBlob(r)
             \/ \E at, answer : Finish(r, at, answer)
      PROVE  OneWorkerPerBlob'
  <2>1. PICK from, to : Goto(r, from, to)
    BY <1>7 DEF SignalRead, Receive, GiveUp, GiveUpVerifying, ReadCachedBlob, Finish
  <2>2. active' = active /\ queued' = queued /\ blob' = blob
    BY <1>7 DEF SignalRead, Receive, GiveUp, GiveUpVerifying, ReadCachedBlob, Finish
  <2>3. QED BY <2>1, <2>2, OwnershipFrame, GotoRequest
<1>8. ASSUME NEW w \in Workers,
             TakeSignal(w) \/ Exit(w) \/ Drained(w) \/ Signal(w) \/ Fetch(w) \/ Hang(w)
      PROVE  OneWorkerPerBlob'
  <2>1. PICK from, to : Goto(w, from, to) /\ (from \in Processing <=> to \in Processing)
    BY <1>8 DEF TakeSignal, Exit, Drained, Signal, Fetch, Hang, Processing, Validating
  <2>2. active' = active /\ queued' = queued /\ blob' = blob
    BY <1>8 DEF TakeSignal, Exit, Drained, Signal, Fetch, Hang
  <2>3. QED BY <2>1, <2>2, OwnershipFrame, GotoOutside DEF Procs
<1>9. ASSUME NEW w \in Workers, Pop(w) PROVE OneWorkerPerBlob'
  <2>1. PICK b \in Pending : /\ queued' = [queued EXCEPT ![b] = 0]
                             /\ IF b \in active
                                THEN Goto(w, "pop", "again") /\ UNCHANGED <<active, blob>>
                                ELSE /\ Goto(w, "pop", IF Pending = {b} THEN "stat" ELSE "more")
                                     /\ active' = active \cup {b}
                                     /\ blob' = [blob EXCEPT ![w] = b]
    BY <1>9 DEF Pop
  <2>2. b \in Blobs /\ queued[b] > 0
    BY DEF Pending
  <2>3. b \notin active
    BY <2>2 DEF OneWorkerPerBlob
  <2>4. /\ active' = active \cup {b}
        /\ blob' = [blob EXCEPT ![w] = b]
        /\ \E to \in {"stat", "more"} : Goto(w, "pop", to)
    BY <2>1, <2>3
  <2>5. pc[w] \notin Processing /\ pc'[w] \in Processing /\ blob'[w] = b
    BY <2>4 DEF Goto, TypeOK, Procs, Processing, Validating
  <2>6. \A v \in Workers \ {w} : blob'[v] = blob[v] /\ pc'[v] = pc[v]
    BY <2>4 DEF Goto, TypeOK, Procs
  <2>7. \A c \in active' : queued'[c] = 0 /\ \E v \in Workers : ProcessedBy(v, c)'
    <3>1. queued'[b] = 0 /\ ProcessedBy(w, b)'
      BY <2>1, <2>2, <2>5 DEF TypeOK, ProcessedBy
    <3>2. ASSUME NEW c \in active
          PROVE  queued'[c] = 0 /\ \E v \in Workers : ProcessedBy(v, c)'
      <4>1. PICK v \in Workers : ProcessedBy(v, c)
        BY <3>2 DEF OneWorkerPerBlob
      <4>2. v # w
        BY <4>1, <2>5 DEF ProcessedBy
      <4>3. ProcessedBy(v, c)'
        BY <4>1, <4>2, <2>6 DEF ProcessedBy
      <4>4. queued'[c] = 0
        BY <2>1, <3>2 DEF OneWorkerPerBlob, TypeOK
      <4>5. QED BY <4>3, <4>4
    <3>3. QED BY <2>4, <3>1, <3>2
  <2>8. \A v \in Workers : pc'[v] \in Processing => blob'[v] \in active'
    BY <2>4, <2>5, <2>6 DEF OneWorkerPerBlob
  <2>9. \A u, v \in Workers :
          (pc'[u] \in Processing /\ pc'[v] \in Processing /\ blob'[u] = blob'[v]) => u = v
    <3>1. \A v \in Workers \ {w} : pc'[v] \in Processing => blob'[v] # b
      BY <2>3, <2>6 DEF OneWorkerPerBlob
    <3>2. QED BY <2>5, <2>6, <3>1 DEF OneWorkerPerBlob
  <2>10. QED BY <2>7, <2>8, <2>9 DEF OneWorkerPerBlob
<1>10. ASSUME NEW w \in Workers, NEW at \in {"hit", "fetched", "verr"}, NEW answer,
              Answer(w, at, answer)
       PROVE  OneWorkerPerBlob'
  <2>1. /\ pc[w] \in Processing /\ pc'[w] \notin Processing
        /\ active' = active \ {blob[w]} /\ queued' = queued
    BY <1>10 DEF Answer, Goto, TypeOK, Procs, Processing, Validating
  <2>2. \A v \in Workers \ {w} : blob'[v] = blob[v] /\ pc'[v] = pc[v]
    BY <1>10 DEF Answer, Goto, TypeOK, Procs
  <2>3. ASSUME NEW c \in active'
        PROVE  queued'[c] = 0 /\ \E v \in Workers : ProcessedBy(v, c)'
    <3>1. PICK v \in Workers : ProcessedBy(v, c)
      BY <2>1, <2>3 DEF OneWorkerPerBlob
    <3>2. v # w
      BY <2>1, <3>1 DEF ProcessedBy
    <3>3. QED BY <2>1, <2>2, <3>1, <3>2 DEF ProcessedBy, OneWorkerPerBlob
  <2>4. \A v \in Workers : pc'[v] \in Processing => blob'[v] \in active'
    BY <2>1, <2>2 DEF OneWorkerPerBlob
  <2>5. QED BY <2>1, <2>2, <2>3, <2>4 DEF OneWorkerPerBlob
<1>11. CASE CloseStopCh
  BY <1>11, OwnershipFrame DEF CloseStopCh
<1>12. CASE CloseAll
  BY <1>12, OwnershipFrame DEF CloseAll
<1>13. CASE UNCHANGED vars
  BY <1>13, OwnershipFrame DEF vars
<1>14. QED
  BY <1>0, <1>1, <1>2, <1>3, <1>4, <1>5, <1>6, <1>7, <1>8, <1>9, <1>10, <1>11, <1>12,
     <1>13, NextCases

(* Whatever is enqueued, joined, cancelled or stopped, a blob is fetched   *)
(* by one worker at a time, and an active blob always has that worker.     *)
THEOREM SingleFetch == Spec => []OneWorkerPerBlob
<1>1. Init => OneWorkerPerBlob
  BY DEF Init, OneWorkerPerBlob, Procs, Processing, Validating
<1>2. QED BY <1>1, OwnershipStep, TypeCorrect, PTL DEF Spec

-----------------------------------------------------------------------------
(* No reader is stranded.                                                  *)

(* NoOrphanedRead made inductive: only blocked, unanswered readers of a    *)
(* blob are in its wait list, and a request has no answer before it blocks.*)
ReadersRegistered ==
  /\ NoOrphanedRead
  /\ \A b \in Blobs : \A r \in wait[b] :
       pc[r] \in Blocked /\ blob[r] = b /\ reply[r] = "none"
  /\ \A r \in Requests : pc[r] \notin Blocked \cup {"done"} => reply[r] = "none"

HasWork(b) == b \in active \/ queued[b] > 0

(* Steps that leave the wait lists alone and take no blob out of work.     *)
LEMMA ReadersFrame ==
  ASSUME TypeOK, ReadersRegistered, wait' = wait, reply' = reply,
         \A r \in Requests : /\ blob'[r] = blob[r]
                             /\ pc'[r] \in Blocked <=> pc[r] \in Blocked
                             /\ pc'[r] = "done" <=> pc[r] = "done",
         \A b \in Blobs : HasWork(b) => HasWork(b)'
  PROVE  ReadersRegistered'
<1>1. Readers \subseteq Requests
  BY DEF Requests
<1>2. \A b \in Blobs : wait[b] \subseteq Readers
  BY DEF TypeOK
<1>3. QED BY <1>1, <1>2 DEF ReadersRegistered, NoOrphanedRead, HasWork

(* A request moves to where it does not block, and leaves its wait list.   *)
LEMMA ReadersLeave ==
  ASSUME TypeOK, ReadersRegistered, NEW r \in Requests,
         pc'[r] \notin Blocked, pc'[r] # "done" => reply'[r] = "none",
         \A q \in Requests \ {r} :
           pc'[q] = pc[q] /\ blob'[q] = blob[q] /\ reply'[q] = reply[q],
         \A b \in Blobs : wait'[b] = wait[b] \ {r},
         \A b \in Blobs : HasWork(b) => HasWork(b)'
  PROVE  ReadersRegistered'
<1>1. \A b \in Blobs : wait[b] \subseteq Requests /\ Readers \subseteq Requests
  BY DEF TypeOK, Requests
<1>2. ASSUME NEW q \in Readers, pc'[q] \in Blocked, reply'[q] = "none"
      PROVE  q \in wait'[blob'[q]]
  <2>1. q # r /\ q \in Requests
    BY <1>2 DEF Requests
  <2>2. q \in wait[blob[q]] /\ pc[q] # "idle"
    BY <1>2, <2>1 DEF ReadersRegistered, NoOrphanedRead, Blocked
  <2>3. blob[q] \in Blobs
    BY <2>1, <2>2 DEF TypeOK, Engaged, Procs, Requests
  <2>4. QED BY <2>1, <2>2, <2>3
<1>3. \A b \in Blobs : wait'[b] # {} => b \in active' \/ queued'[b] > 0
  BY DEF ReadersRegistered, NoOrphanedRead, HasWork
<1>4. \A b \in Blobs : \A q \in wait'[b] :
        pc'[q] \in Blocked /\ blob'[q] = b /\ reply'[q] = "none"
  BY <1>1 DEF ReadersRegistered
<1>5. \A q \in Requests : pc'[q] \notin Blocked \cup {"done"} => reply'[q] = "none"
  BY DEF ReadersRegistered
<1>6. QED BY <1>2, <1>3, <1>4, <1>5 DEF ReadersRegistered, NoOrphanedRead

(* The steps of a worker do not move requests.                             *)
LEMMA GotoWorker ==
  ASSUME TypeOK, NEW w \in Workers, NEW from, NEW to, Goto(w, from, to)
  PROVE  \A r \in Requests : pc'[r] = pc[r]
BY DEF TypeOK, Goto, Procs, Requests

(* The step of one request does not move another.                          *)
LEMMA GotoOthers ==
  ASSUME TypeOK, NEW r \in Procs, NEW from, NEW to, Goto(r, from, to)
  PROVE  /\ pc[r] = from /\ pc'[r] = to
         /\ \A q \in Procs \ {r} : pc'[q] = pc[q]
BY DEF TypeOK, Goto

LEMMA ReadersStep ==
  TypeOK /\ OneWorkerPerBlob /\ ReadersRegistered /\ [Next]_vars => ReadersRegistered'
<1> SUFFICES ASSUME TypeOK, OneWorkerPerBlob, ReadersRegistered, [Next]_vars
             PROVE  ReadersRegistered'
  OBVIOUS
<1> USE DEF queueVars, verifyVars, procVars
<1>0. Readers \subseteq Requests /\ Peekers \subseteq Requests /\ Requests \subseteq Procs
  BY DEF Requests, Procs
<1>00. \A b \in Blobs : wait[b] \subseteq Readers
  BY DEF TypeOK
<1>1. ASSUME NEW e \in Prefetchers, NEW tasks \in [Blobs -> 0..(Explicit - 1)],
             EnqueueBatch(e, tasks)
      PROVE  ReadersRegistered'
  <2>1. \A b \in Blobs : HasWork(b) => HasWork(b)'
    BY <1>1 DEF EnqueueBatch, Accepts, HasWork, TypeOK
  <2>2. QED BY <1>1, <2>1, ReadersFrame DEF EnqueueBatch
<1>2. ASSUME NEW e \in Prefetchers, SignalBatch(e) PROVE ReadersRegistered'
  BY <1>2, ReadersFrame DEF SignalBatch, HasWork
<1>3. ASSUME NEW p \in Procs, Validate(p) \/ CacheDirError(p) PROVE ReadersRegistered'
  <2>1. PICK from, to \in Validating : Goto(p, from, to)
    BY <1>3 DEF Validate, CacheDirError, Stat, Verify, TakeVerdict, Remove,
                ClearVerified, Validating
  <2>2. /\ wait' = wait /\ reply' = reply /\ blob' = blob
        /\ active' = active /\ queued' = queued
    BY <1>3 DEF Validate, CacheDirError, Stat, Verify, TakeVerdict, Remove, ClearVerified
  <2>3. \A r \in Requests : /\ pc'[r] \in Blocked <=> pc[r] \in Blocked
                            /\ pc'[r] = "done" <=> pc[r] = "done"
    BY <1>0, <2>1, GotoOthers DEF Blocked, Validating
  <2>4. QED BY <2>2, <2>3, ReadersFrame DEF HasWork
<1>4. ASSUME NEW b \in Blobs, NEW v \in Verdicts, Hash(b, v) \/ Publish(b, v)
      PROVE  ReadersRegistered'
  BY <1>4, ReadersFrame DEF Hash, Publish, HasWork
<1>5. ASSUME NEW r \in Readers, NEW b \in Blobs, EnsureHydrated(r, b)
      PROVE  ReadersRegistered'
  <2>1. /\ pc[r] = "idle" /\ pc'[r] = (IF InFlight(b) THEN "await" ELSE "stat")
        /\ \A q \in Procs \ {r} : pc'[q] = pc[q]
    BY <1>0, <1>5, GotoOthers DEF EnsureHydrated
  <2>2. blob'[r] = b /\ \A q \in Procs \ {r} : blob'[q] = blob[q]
    BY <1>0, <1>5 DEF EnsureHydrated, TypeOK
  <2>3. reply' = reply /\ reply[r] = "none" /\ \A c \in Blobs : r \notin wait[c]
    BY <1>0, <1>5, <2>1 DEF EnsureHydrated, ReadersRegistered, Blocked
  <2>4. active' = active /\ queued' = queued
    BY <1>5 DEF EnsureHydrated
  <2>5. CASE InFlight(b)
    <3>1. wait' = [wait EXCEPT ![b] = @ \cup {r}]
      BY <1>5, <2>5 DEF EnsureHydrated
    <3>2. b \in active \/ queued[b] > 0
      BY <2>5 DEF InFlight, ReadersRegistered, NoOrphanedRead
    <3>3. QED
      BY <1>0, <1>00, <2>1, <2>2, <2>3, <2>4, <2>5, <3>1, <3>2
      DEF ReadersRegistered, NoOrphanedRead, Blocked, TypeOK
  <2>6. CASE ~InFlight(b)
    <3>1. wait' = wait
      BY <1>5, <2>6 DEF EnsureHydrated
    <3>2. \A q \in Requests \ {r} :
            pc'[q] = pc[q] /\ blob'[q] = blob[q] /\ reply'[q] = reply[q]
      BY <1>0, <2>1, <2>2, <2>3
    <3>3. QED
      BY <1>0, <2>1, <2>3, <2>4, <2>6, <3>1, <3>2, ReadersLeave DEF Blocked, HasWork
  <2>7. QED BY <2>5, <2>6
<1>6. ASSUME NEW r \in Peekers, NEW b \in Blobs, ReadBlob(r, b) PROVE ReadersRegistered'
  <2>1. /\ pc[r] = "idle" /\ pc'[r] \in {"stat", "done"}
        /\ \A q \in Procs \ {r} : pc'[q] = pc[q]
    BY <1>0, <1>6, GotoOthers DEF ReadBlob
  <2>2. r \notin Readers /\ \A q \in Procs \ {r} : blob'[q] = blob[q]
    BY <1>0, <1>6 DEF ReadBlob, TypeOK
  <2>3. \A q \in Requests \ {r} : reply'[q] = reply[q]
    BY <1>6 DEF ReadBlob, TypeOK
  <2>4. pc'[r] = "done" \/ reply'[r] = reply[r]
    BY <1>0, <1>6, <2>1 DEF ReadBlob, Goto, TypeOK
  <2>5. reply[r] = "none"
    BY <1>0, <2>1 DEF ReadersRegistered, Blocked
  <2>6. wait' = wait /\ active' = active /\ queued' = queued
    BY <1>6 DEF ReadBlob
  <2>7. \A c \in Blobs : r \notin wait[c]
    BY <1>00, <2>2
  <2>8. \A q \in Requests \ {r} :
          pc'[q] = pc[q] /\ blob'[q] = blob[q] /\ reply'[q] = reply[q]
    BY <1>0, <2>1, <2>2, <2>3
  <2>9. r \in Requests /\ pc'[r] \notin Blocked
    BY <1>0, <2>1 DEF Blocked
  <2>10. QED
    BY <2>4, <2>5, <2>6, <2>7, <2>8, <2>9, ReadersLeave DEF HasWork
<1>7. ASSUME NEW r \in Readers, Register(r) PROVE ReadersRegistered'
  <2> DEFINE b == blob[r]
  <2>1. /\ pc[r] = "miss" /\ pc'[r] \in Blocked
        /\ \A q \in Procs \ {r} : pc'[q] = pc[q]
    BY <1>0, <1>7, GotoOthers DEF Register, Blocked
  <2>2. b \in Blobs
    BY <1>0, <2>1 DEF TypeOK, Engaged
  <2>3. reply[r] = "none" /\ \A c \in Blobs : r \notin wait[c]
    BY <1>0, <2>1 DEF ReadersRegistered, Blocked
  <2>4. /\ wait' = [wait EXCEPT ![b] = @ \cup {r}]
        /\ blob' = blob /\ reply' = reply /\ active' = active
    BY <1>7 DEF Register
  <2>5. b \in active' \/ queued'[b] > 0
    <3>1. CASE InFlight(b)
      BY <1>7, <2>2, <3>1 DEF Register, InFlight, ReadersRegistered, NoOrphanedRead
    <3>2. CASE ~InFlight(b)
      BY <1>7, <2>2, <3>2 DEF Register, InFlight, Accepts, TypeOK
    <3>3. QED BY <3>1, <3>2
  <2>6. \A c \in Blobs \ {b} : queued'[c] = queued[c]
    BY <1>7, <2>2 DEF Register, TypeOK
  <2> HIDE DEF b
  <2>7. blob[r] = b
    BY DEF b
  <2>8. QED
    BY <1>0, <1>00, <2>1, <2>2, <2>3, <2>4, <2>5, <2>6, <2>7
    DEF ReadersRegistered, NoOrphanedRead, Blocked, TypeOK
<1>8. ASSUME NEW r \in Requests, SignalRead(r) \/ GiveUpVerifying(r) PROVE ReadersRegistered'
  <2>1. PICK from, to : Goto(r, from, to) /\ \/ from = "signal" /\ to = "await"
                                             \/ from = "vwait" /\ to = "verr"
    BY <1>8 DEF SignalRead, GiveUpVerifying
  <2>2. \A q \in Requests : /\ pc'[q] \in Blocked <=> pc[q] \in Blocked
                            /\ pc'[q] = "done" <=> pc[q] = "done"
    BY <1>0, <2>1, GotoOthers DEF Blocked
  <2>3. /\ wait' = wait /\ reply' = reply /\ blob' = blob
        /\ active' = active /\ queued' = queued
    BY <1>8 DEF SignalRead, GiveUpVerifying
  <2>4. QED BY <2>2, <2>3, ReadersFrame DEF HasWork
<1>9. ASSUME NEW r \in Readers, Receive(r) PROVE ReadersRegistered'
  <2>1. /\ pc[r] = "await" /\ pc'[r] = "done" /\ reply[r] # "none"
        /\ \A q \in Procs \ {r} : pc'[q] = pc[q]
    BY <1>0, <1>9, GotoOthers DEF Receive
  <2>2. \A b \in Blobs : r \notin wait[b]
    BY <2>1 DEF ReadersRegistered
  <2>3. UNCHANGED <<queued, active, wait, blob, reply>>
    BY <1>9 DEF Receive
  <2>4. QED
    BY <1>0, <1>00, <2>1, <2>2, <2>3
    DEF ReadersRegistered, NoOrphanedRead, Blocked, TypeOK
<1>10. ASSUME NEW r \in Readers, GiveUp(r) PROVE ReadersRegistered'
  <2>1. /\ pc[r] = "await" /\ pc'[r] = "done"
        /\ \A q \in Procs \ {r} : pc'[q] = pc[q]
    BY <1>0, <1>10, GotoOthers DEF GiveUp
  <2>2. \A q \in Requests \ {r} : reply'[q] = reply[q]
    BY <1>10 DEF GiveUp, TypeOK
  <2>3. \A b \in Blobs : wait'[b] = wait[b] \ {r}
    BY <1>10 DEF GiveUp, TypeOK, ReadersRegistered
  <2>4. UNCHANGED <<queued, active, blob>>
    BY <1>10 DEF GiveUp
  <2>5. QED BY <1>0, <2>1, <2>2, <2>3, <2>4, ReadersLeave DEF Blocked, HasWork
<1>11. ASSUME NEW r \in Requests, NEW at \in {"hit", "miss", "verr"}, NEW answer,
              Finish(r, at, answer)
       PROVE  ReadersRegistered'
  <2>1. /\ pc[r] = at /\ pc'[r] = "done"
        /\ \A q \in Procs \ {r} : pc'[q] = pc[q]
    BY <1>0, <1>11, GotoOthers DEF Finish
  <2>2. \A q \in Requests \ {r} : reply'[q] = reply[q]
    BY <1>11 DEF Finish, TypeOK
  <2>3. \A b \in Blobs : r \notin wait[b]
    BY <2>1 DEF ReadersRegistered, Blocked
  <2>4. UNCHANGED <<queued, active, wait, blob>>
    BY <1>11 DEF Finish
  <2>5. QED BY <1>0, <2>1, <2>2, <2>3, <2>4, ReadersLeave DEF Blocked, HasWork
<1>12. ASSUME NEW r \in Peekers, ReadCachedBlob(r) PROVE ReadersRegistered'
  BY <1>0, <1>11, <1>12 DEF ReadCachedBlob
<1>13. ASSUME NEW w \in Workers,
              TakeSignal(w) \/ Exit(w) \/ Drained(w) \/ Signal(w) \/ Fetch(w) \/ Hang(w)
       PROVE  ReadersRegistered'
  <2>1. \A r \in Requests : pc'[r] = pc[r]
    BY <1>13, GotoWorker DEF TakeSignal, Exit, Drained, Signal, Fetch, Hang
  <2>2. UNCHANGED <<queued, active, wait, blob, reply>>
    BY <1>13 DEF TakeSignal, Exit, Drained, Signal, Fetch, Hang
  <2>3. \A b \in Blobs : HasWork(b) => HasWork(b)'
    BY <2>2 DEF HasWork
  <2>4. QED BY <2>1, <2>2, <2>3, ReadersFrame
<1>14. ASSUME NEW w \in Workers, Pop(w) PROVE ReadersRegistered'
  <2>1. \A r \in Requests : pc'[r] = pc[r] /\ blob'[r] = blob[r]
    BY <1>14, GotoWorker DEF Pop, TypeOK, Procs, Requests
  <2>2. \A b \in Blobs : HasWork(b) => HasWork(b)'
    BY <1>14 DEF Pop, Pending, HasWork, TypeOK
  <2>3. wait' = wait /\ reply' = reply
    BY <1>14 DEF Pop
  <2>4. QED BY <2>1, <2>2, <2>3, ReadersFrame
<1>15. ASSUME NEW w \in Workers, NEW at \in {"hit", "fetched", "verr"},
              NEW answer \in {"ok", "err"}, Answer(w, at, answer)
       PROVE  ReadersRegistered'
  <2> DEFINE b == blob[w]
  <2>1. b \in Blobs
    BY <1>15 DEF Answer, Goto, TypeOK, Engaged, Procs, Processing, Validating
  <2>2. \A r \in Requests : pc'[r] = pc[r] /\ blob'[r] = blob[r]
    BY <1>15, GotoWorker DEF Answer, TypeOK, Procs, Requests
  <2>3. /\ active' = active \ {b} /\ queued' = queued
        /\ wait'[b] = {} /\ \A c \in Blobs \ {b} : wait'[c] = wait[c]
    BY <1>15, <2>1 DEF Answer, TypeOK
  <2>4. \A r \in Requests : reply'[r] = IF r \in wait[b] THEN answer ELSE reply[r]
    BY <1>15 DEF Answer
  <2> HIDE DEF b
  <2>5. ASSUME NEW q \in Readers, pc'[q] \in Blocked, reply'[q] = "none"
        PROVE  q \in wait'[blob'[q]]
    <3>1. q \in Requests /\ q \notin wait[b] /\ reply[q] = "none"
      BY <1>0, <2>4, <2>5
    <3>2. q \in wait[blob[q]] /\ pc[q] # "idle"
      BY <2>2, <2>5, <3>1 DEF ReadersRegistered, NoOrphanedRead, Blocked
    <3>3. blob[q] \in Blobs \ {b}
      BY <1>0, <3>1, <3>2 DEF TypeOK, Engaged, Procs, Requests
    <3>4. QED BY <2>2, <2>3, <3>1, <3>2, <3>3
  <2>6. \A c \in Blobs : wait'[c] # {} => c \in active' \/ queued'[c] > 0
    BY <2>3 DEF ReadersRegistered, NoOrphanedRead
  <2>7. ASSUME NEW c \in Blobs, NEW q \in wait'[c]
        PROVE  pc'[q] \in Blocked /\ blob'[q] = c /\ reply'[q] = "none"
    <3>1. c # b /\ q \in wait[c] /\ q \in Requests
      BY <1>0, <1>00, <2>3, <2>7
    <3>2. pc[q] \in Blocked /\ blob[q] = c /\ reply[q] = "none"
      BY <3>1 DEF ReadersRegistered
    <3>3. q \notin wait[b]
      BY <2>1, <3>1, <3>2 DEF ReadersRegistered
    <3>4. QED BY <2>2, <2>4, <3>1, <3>2, <3>3
  <2>8. ASSUME NEW q \in Requests, pc'[q] \notin Blocked \cup {"done"}
        PROVE  reply'[q] = "none"
    <3>1. reply[q] = "none" /\ pc[q] \notin Blocked
      BY <2>2, <2>8 DEF ReadersRegistered
    <3>2. q \notin wait[b]
      BY <2>1, <3>1 DEF ReadersRegistered
    <3>3. QED BY <2>4, <3>1, <3>2
  <2>9. QED BY <2>5, <2>6, <2>7, <2>8 DEF ReadersRegistered, NoOrphanedRead
<1>16. CASE CloseStopCh
  <2>1. UNCHANGED <<queued, active, wait, pc, blob, reply>>
    BY <1>16 DEF CloseStopCh
  <2>2. QED BY <2>1, ReadersFrame DEF HasWork
<1>17. CASE CloseAll
  <2>1. /\ pc' = pc /\ blob' = blob /\ \A b \in Blobs : wait'[b] = {}
        /\ \A q \in Requests :
             reply'[q] = IF \E b \in Blobs : q \in wait[b] THEN "err" ELSE reply[q]
    BY <1>17 DEF CloseAll
  <2>2. ASSUME NEW q \in Readers, pc[q] \in Blocked PROVE reply'[q] # "none"
    <3>1. q \in Requests /\ blob[q] \in Blobs
      BY <1>0, <2>2 DEF TypeOK, Engaged, Procs, Requests, Blocked
    <3>2. QED BY <2>1, <2>2, <3>1 DEF ReadersRegistered, NoOrphanedRead
  <2>3. ASSUME NEW q \in Requests, pc[q] \notin Blocked \cup {"done"}
        PROVE  reply'[q] = "none"
    BY <2>1, <2>3 DEF ReadersRegistered
  <2>4. QED BY <2>1, <2>2, <2>3 DEF ReadersRegistered, NoOrphanedRead
<1>18. CASE UNCHANGED vars
  BY <1>18, ReadersFrame DEF vars, HasWork
<1>19. QED
  BY <1>0, <1>1, <1>2, <1>3, <1>4, <1>5, <1>6, <1>7, <1>8, <1>9, <1>10, <1>11, <1>12,
     <1>13, <1>14, <1>15, <1>16, <1>17, <1>18, NextCases

LEMMA ReadersInvariant == Spec => []ReadersRegistered
<1>1. Init => ReadersRegistered
  BY DEF Init, ReadersRegistered, NoOrphanedRead, Blocked, Procs, Requests
<1>2. QED BY <1>1, ReadersStep, TypeCorrect, SingleFetch, PTL DEF Spec

(* A blocked read is answered by the worker that has or will pop its blob: *)
(* it is registered, and its blob has work.                                *)
THEOREM ReadersAreNotStranded == Spec => []NoOrphanedRead
<1>1. ReadersRegistered => NoOrphanedRead
  BY DEF ReadersRegistered
<1>2. QED BY <1>1, ReadersInvariant, PTL

-----------------------------------------------------------------------------
(* A prefetch somebody waits for is upgraded.                              *)

(* Steps after which nothing new is queued and nobody new waits.           *)
LEMMA PriorityFrame ==
  ASSUME NoPriorityInversion,
         \A b \in Blobs : queued'[b] = queued[b] \/ queued'[b] \in {0, Explicit},
         \A b \in Blobs : wait'[b] \subseteq wait[b]
  PROVE  NoPriorityInversion'
BY DEF NoPriorityInversion

(* Whoever waits for a blob that is not being processed waits for an       *)
(* explicit read.                                                          *)
LEMMA WaitedForIsExplicit ==
  ASSUME TypeOK, OneWorkerPerBlob, NoOrphanedRead, NoPriorityInversion,
         NEW b \in Blobs, InFlight(b)
  PROVE  queued[b] = IF b \in active THEN 0 ELSE Explicit
<1>1. CASE b \in active
  BY <1>1 DEF OneWorkerPerBlob
<1>2. CASE b \notin active
  <2>1. wait[b] # {} /\ queued[b] > 0
    BY <1>2 DEF InFlight, NoOrphanedRead
  <2>2. QED BY <1>2, <2>1 DEF NoPriorityInversion
<1>3. QED BY <1>1, <1>2

LEMMA PriorityStep ==
  TypeOK /\ OneWorkerPerBlob /\ NoOrphanedRead /\ NoPriorityInversion /\ [Next]_vars
    => NoPriorityInversion'
<1> SUFFICES ASSUME TypeOK, OneWorkerPerBlob, NoOrphanedRead, NoPriorityInversion,
                    [Next]_vars
             PROVE  NoPriorityInversion'
  OBVIOUS
<1> USE DEF queueVars, verifyVars, procVars
<1>1. ASSUME NEW e \in Prefetchers, NEW tasks \in [Blobs -> 0..(Explicit - 1)],
             EnqueueBatch(e, tasks)
      PROVE  NoPriorityInversion'
  <2>1. ASSUME NEW b \in Blobs, wait'[b] # {}, queued'[b] > 0
        PROVE  queued'[b] = Explicit
    <3>1. wait' = wait /\ InFlight(b)
      BY <1>1, <2>1 DEF EnqueueBatch, InFlight
    <3>2. ~Accepts(b, tasks[b])
      BY <3>1, WaitedForIsExplicit DEF Accepts
    <3>3. queued'[b] = queued[b]
      BY <1>1, <3>2 DEF EnqueueBatch
    <3>4. QED BY <2>1, <3>1, <3>3 DEF NoPriorityInversion
  <2>2. QED BY <2>1 DEF NoPriorityInversion
<1>2. ASSUME NEW r \in Readers, NEW b \in Blobs, EnsureHydrated(r, b)
      PROVE  NoPriorityInversion'
  <2>1. queued' = queued
    BY <1>2 DEF EnsureHydrated
  <2>2. CASE InFlight(b)
    <3>1. queued[b] \in {0, Explicit}
      BY <2>2, WaitedForIsExplicit
    <3>2. \A c \in Blobs \ {b} : wait'[c] = wait[c]
      BY <1>2, <2>2 DEF EnsureHydrated, TypeOK
    <3>3. QED BY <2>1, <3>1, <3>2 DEF NoPriorityInversion
  <2>3. CASE ~InFlight(b)
    BY <1>2, <2>1, <2>3, PriorityFrame DEF EnsureHydrated
  <2>4. QED BY <2>2, <2>3
<1>3. ASSUME NEW r \in Readers, Register(r) PROVE NoPriorityInversion'
  <2> DEFINE b == blob[r]
  <2>1. b \in Blobs
    BY <1>3 DEF Register, Goto, TypeOK, Engaged, Procs, Requests
  <2>2. \A c \in Blobs \ {b} : queued'[c] = queued[c] /\ wait'[c] = wait[c]
    BY <1>3, <2>1 DEF Register, TypeOK
  <2>3. queued'[b] \in {0, Explicit}
    <3>1. CASE InFlight(b)
      <4>1. queued' = queued
        BY <1>3, <3>1 DEF Register
      <4>2. QED BY <2>1, <3>1, <4>1, WaitedForIsExplicit
    <3>2. CASE ~InFlight(b) /\ Accepts(b, Explicit)
      BY <1>3, <2>1, <3>2 DEF Register, TypeOK
    <3>3. CASE ~InFlight(b) /\ ~Accepts(b, Explicit)
      <4>1. queued' = queued
        BY <1>3, <3>3 DEF Register
      <4>2. queued[b] \in 0..Explicit /\ ~(queued[b] < Explicit)
        BY <2>1, <3>3 DEF InFlight, Accepts, TypeOK
      <4>3. QED BY <4>1, <4>2
    <3>4. QED BY <3>1, <3>2, <3>3
  <2> HIDE DEF b
  <2>4. QED BY <2>1, <2>2, <2>3 DEF NoPriorityInversion
<1>4. ASSUME NEW r \in Readers, GiveUp(r) PROVE NoPriorityInversion'
  <2>1. queued' = queued /\ \A b \in Blobs : wait'[b] \subseteq wait[b]
    BY <1>4 DEF GiveUp, TypeOK
  <2>2. QED BY <2>1, PriorityFrame
<1>5. ASSUME NEW w \in Workers, Pop(w) PROVE NoPriorityInversion'
  <2>1. wait' = wait /\ \A b \in Blobs : queued'[b] = queued[b] \/ queued'[b] = 0
    BY <1>5 DEF Pop, Pending, TypeOK
  <2>2. QED BY <2>1, PriorityFrame
<1>6. ASSUME NEW w \in Workers, NEW at, NEW answer, Answer(w, at, answer)
      PROVE  NoPriorityInversion'
  <2>1. queued' = queued /\ \A b \in Blobs : wait'[b] \subseteq wait[b]
    BY <1>6 DEF Answer, TypeOK
  <2>2. QED BY <2>1, PriorityFrame
<1>7. CASE CloseAll
  BY <1>7, PriorityFrame DEF CloseAll
<1>8. CASE queued' = queued /\ wait' = wait
  BY <1>8, PriorityFrame
<1>9. ASSUME NEW p \in Procs, Validate(p) \/ CacheDirError(p)
      PROVE  queued' = queued /\ wait' = wait
  BY <1>9 DEF Validate, CacheDirError, Stat, Verify, TakeVerdict, Remove, ClearVerified
<1>10. ASSUME NEW b \in Blobs, NEW v \in Verdicts, Hash(b, v) \/ Publish(b, v)
       PROVE  queued' = queued /\ wait' = wait
  BY <1>10 DEF Hash, Publish
<1>11. ASSUME NEW r \in Requests,
              \/ \E b \in Blobs : ReadBlob(r, b)
              \/ SignalRead(r) \/ Receive(r) \/ GiveUpVerifying(r) \/ ReadCachedBlob(r)
              \/ \E at, answer : Finish(r, at, answer)
       PROVE  queued' = queued /\ wait' = wait
  BY <1>11 DEF ReadBlob, SignalRead, Receive, GiveUpVerifying, ReadCachedBlob, Finish
<1>12. ASSUME NEW w \in Workers,
              TakeSignal(w) \/ Exit(w) \/ Drained(w) \/ Signal(w) \/ Fetch(w) \/ Hang(w)
       PROVE  queued' = queued /\ wait' = wait
  BY <1>12 DEF TakeSignal, Exit, Drained, Signal, Fetch, Hang
<1>13. CASE UNCHANGED vars \/ CloseStopCh \/ \E e \in Prefetchers : SignalBatch(e)
  BY <1>8, <1>13 DEF vars, CloseStopCh, SignalBatch
<1>14. Readers \subseteq Requests /\ Peekers \subseteq Requests
  BY DEF Requests
<1>15. QED
  BY <1>1, <1>2, <1>3, <1>4, <1>5, <1>6, <1>7, <1>8, <1>9, <1>10, <1>11, <1>12, <1>13,
     <1>14, NextCases

(* Nobody waits behind prefetches: a queued blob with a reader on its wait *)
(* list has the priority of explicit reads, whoever queued it.             *)
THEOREM WaitedForFirst == Spec => []NoPriorityInversion
<1>1. Init => NoPriorityInversion
  BY DEF Init, NoPriorityInversion
<1>2. QED
  BY <1>1, PriorityStep, TypeCorrect, SingleFetch, ReadersAreNotStranded, PTL DEF Spec

-----------------------------------------------------------------------------
(* The wake-up channel.                                                    *)

(* Somebody will look at the queue, or tell a worker to.                   *)
Awake ==
  \/ token
  \/ \E w \in Workers : pc[w] \in {"pop", "more", "again"}
  \/ \E r \in Readers : pc[r] = "signal"
  \/ \E e \in Prefetchers : owed[e] # {}

(* Steps that queue nothing and leave whoever is awake awake.              *)
LEMMA WakeupFrame ==
  ASSUME TypeOK, NoLostWakeup, Pending' \subseteq Pending,
         token => token', owed' = owed,
         \A w \in Workers : pc[w] \in {"pop", "more", "again"}
                              => pc'[w] \in {"pop", "more", "again"},
         \A r \in Readers : pc[r] = "signal" => pc'[r] = "signal"
  PROVE  NoLostWakeup'
<1>1. Awake => Awake'
  BY DEF Awake
<1>2. QED BY <1>1 DEF NoLostWakeup, Awake

(* One process moves from where it is not expected to signal.              *)
LEMMA WakeupMove ==
  ASSUME TypeOK, NoLostWakeup, NEW p \in Procs, NEW from, NEW to, Goto(p, from, to),
         queued' = queued, owed' = owed, token => token',
         from \notin {"pop", "more", "again", "signal"}
  PROVE  NoLostWakeup'
<1>1. pc[p] = from /\ \A q \in Procs \ {p} : pc'[q] = pc[q]
  BY DEF Goto, TypeOK
<1>2. Readers \subseteq Procs /\ Workers \subseteq Procs
  BY DEF Procs, Requests
<1>3. Pending' = Pending
  BY DEF Pending
<1>4. QED BY <1>1, <1>2, <1>3, WakeupFrame

LEMMA WakeupStep == TypeOK /\ NoLostWakeup /\ [Next]_vars => NoLostWakeup'
<1> SUFFICES ASSUME TypeOK, NoLostWakeup, [Next]_vars PROVE NoLostWakeup'
  OBVIOUS
<1> USE DEF queueVars, verifyVars, procVars
<1>0. /\ Readers \subseteq Procs /\ Requests \subseteq Procs /\ Workers \subseteq Procs
      /\ Readers \subseteq Requests /\ Peekers \subseteq Requests
  BY DEF Procs, Requests
<1>1. ASSUME NEW e \in Prefetchers, NEW tasks \in [Blobs -> 0..(Explicit - 1)],
             EnqueueBatch(e, tasks)
      PROVE  NoLostWakeup'
  <2> DEFINE accepted == {b \in Blobs : Accepts(b, tasks[b])}
  <2>1. CASE accepted = {}
    <3>1. queued' = queued
      BY <1>1, <2>1 DEF EnqueueBatch, TypeOK
    <3>2. owed' = owed
      BY <1>1, <2>1 DEF EnqueueBatch, TypeOK
    <3>3. QED BY <1>1, <3>1, <3>2, WakeupFrame DEF EnqueueBatch, Pending
  <2>2. CASE accepted # {}
    <3>1. owed'[e] # {}
      BY <1>1, <2>2 DEF EnqueueBatch, TypeOK
    <3>2. QED BY <3>1 DEF NoLostWakeup
  <2>3. QED BY <2>1, <2>2
<1>2. CASE token' = TRUE
  BY <1>2 DEF NoLostWakeup
<1>3. ASSUME NEW p \in Procs, Validate(p) \/ CacheDirError(p) PROVE NoLostWakeup'
  <2>1. PICK from, to \in Validating : Goto(p, from, to)
    BY <1>3 DEF Validate, CacheDirError, Stat, Verify, TakeVerdict, Remove,
                ClearVerified, Validating
  <2>2. UNCHANGED <<queued, owed, token>>
    BY <1>3 DEF Validate, CacheDirError, Stat, Verify, TakeVerdict, Remove, ClearVerified
  <2>3. QED BY <2>1, <2>2, WakeupMove DEF Validating
<1>4. ASSUME NEW b \in Blobs, NEW v \in Verdicts, Hash(b, v) \/ Publish(b, v)
      PROVE  NoLostWakeup'
  BY <1>4, WakeupFrame DEF Hash, Publish, Pending
<1>5. ASSUME NEW r \in Requests,
             \/ \E b \in Blobs : EnsureHydrated(r, b) \/ ReadBlob(r, b)
             \/ Receive(r) \/ GiveUp(r) \/ GiveUpVerifying(r) \/ ReadCachedBlob(r)
             \/ \E at \in {"hit", "miss", "verr"}, answer \in {"ok", "err", "direct"} :
                  Finish(r, at, answer)
      PROVE  NoLostWakeup'
  <2>1. PICK from \in {"idle", "await", "vwait", "hit", "miss", "verr"} : \E to :
         Goto(r, from, to)
    BY <1>5 DEF EnsureHydrated, ReadBlob, Receive, GiveUp, GiveUpVerifying,
                ReadCachedBlob, Finish
  <2>2. UNCHANGED <<queued, owed, token>>
    BY <1>5 DEF EnsureHydrated, ReadBlob, Receive, GiveUp, GiveUpVerifying,
                ReadCachedBlob, Finish
  <2>3. QED BY <1>0, <2>1, <2>2, WakeupMove
<1>6. ASSUME NEW r \in Readers, Register(r) PROVE NoLostWakeup'
  <2>1. \E to : Goto(r, "miss", to)
    BY <1>6 DEF Register
  <2>2. owed' = owed /\ token' = token
    BY <1>6 DEF Register
  <2>3. CASE queued' = queued
    BY <1>0, <2>1, <2>2, <2>3, WakeupMove
  <2>4. CASE queued' # queued
    <3>1. Goto(r, "miss", "signal")
      BY <1>6, <2>4 DEF Register
    <3>2. pc'[r] = "signal"
      BY <1>0, <3>1 DEF Goto, TypeOK
    <3>3. QED BY <3>2 DEF NoLostWakeup
  <2>5. QED BY <2>3, <2>4
<1>7. ASSUME NEW w \in Workers, TakeSignal(w) \/ \E at, answer : Answer(w, at, answer)
      PROVE  NoLostWakeup'
  <2>1. PICK to \in {"pop", "again"} : \E from : Goto(w, from, to)
    BY <1>7 DEF TakeSignal, Answer
  <2>2. pc'[w] \in {"pop", "again"}
    BY <1>0, <2>1 DEF Goto, TypeOK
  <2>3. QED BY <2>2 DEF NoLostWakeup
<1>8. ASSUME NEW w \in Workers, Exit(w) \/ Fetch(w) \/ Hang(w) PROVE NoLostWakeup'
  <2>1. PICK from \in {"select", "miss"} : \E to : Goto(w, from, to)
    BY <1>8 DEF Exit, Fetch, Hang
  <2>2. UNCHANGED <<queued, owed, token>>
    BY <1>8 DEF Exit, Fetch, Hang
  <2>3. QED BY <1>0, <2>1, <2>2, WakeupMove
<1>9. ASSUME NEW w \in Workers, Drained(w) PROVE NoLostWakeup'
  BY <1>9 DEF Drained, Pending, NoLostWakeup
<1>10. ASSUME NEW w \in Workers, Pop(w) PROVE NoLostWakeup'
  <2>1. PICK b \in Pending :
          /\ queued' = [queued EXCEPT ![b] = 0]
          /\ IF b \in active THEN Goto(w, "pop", "again")
             ELSE Goto(w, "pop", IF Pending = {b} THEN "stat" ELSE "more")
    BY <1>10 DEF Pop
  <2>2. CASE b \notin active /\ Pending = {b}
    <3>1. Pending' = {}
      BY <2>1, <2>2 DEF Pending, TypeOK
    <3>2. QED BY <3>1 DEF NoLostWakeup
  <2>3. CASE ~(b \notin active /\ Pending = {b})
    <3>1. \E to \in {"again", "more"} : Goto(w, "pop", to)
      BY <2>1, <2>3
    <3>2. pc'[w] \in {"again", "more"}
      BY <1>0, <3>1 DEF Goto, TypeOK
    <3>3. QED BY <3>2 DEF NoLostWakeup
  <2>4. QED BY <2>2, <2>3
<1>11. CASE UNCHANGED <<queued, owed, token, pc>>
  BY <1>11, WakeupFrame DEF Pending
<1>12. CASE UNCHANGED vars \/ CloseStopCh \/ CloseAll
  BY <1>11, <1>12 DEF vars, CloseStopCh, CloseAll
<1>13. ASSUME \/ \E e \in Prefetchers : SignalBatch(e)
              \/ \E r \in Readers : SignalRead(r)
              \/ \E w \in Workers : Signal(w)
       PROVE  token' = TRUE
  BY <1>13 DEF SignalBatch, SignalRead, Signal
<1>14. QED
  BY <1>0, <1>1, <1>2, <1>3, <1>4, <1>5, <1>6, <1>7, <1>8, <1>9, <1>10, <1>12, <1>13,
     NextCases

(* The one-place wake-up channel loses nothing although it is sent to      *)
(* outside the lock and a full channel drops the signal.                   *)
LEMMA WakeupInvariant == Spec => []NoLostWakeup
<1>1. Init => NoLostWakeup
  BY DEF Init, NoLostWakeup, Pending
<1>2. QED BY <1>1, WakeupStep, TypeCorrect, PTL DEF Spec

-----------------------------------------------------------------------------
(* No verification is orphaned.                                            *)

SomeVerifier(b) == \E s \in Verdicts \cup {"running"} : verifiers[b][s] > 0

(* NoOrphanedVerification made inductive: a blob with processes registered *)
(* has a verification goroutine, only processes in vwait without a verdict *)
(* are registered, and a verdict is only held in vwait.                    *)
VerificationRegistered ==
  /\ \A p \in Procs : (pc[p] = "vwait" /\ verdict[p] = "none") => p \in verifying[blob[p]]
  /\ \A b \in Blobs : verifying[b] # {} => SomeVerifier(b)
  /\ \A b \in Blobs : \A p \in verifying[b] :
       pc[p] = "vwait" /\ blob[p] = b /\ verdict[p] = "none"
  /\ \A p \in Procs : pc[p] # "vwait" => verdict[p] = "none"

(* Steps of processes that neither start nor end a wait for a verdict.     *)
LEMMA VerificationFrame ==
  ASSUME TypeOK, VerificationRegistered,
         verifying' = verifying, verifiers' = verifiers, verdict' = verdict,
         \A p \in Procs : /\ pc'[p] = "vwait" <=> pc[p] = "vwait"
                          /\ pc[p] = "vwait" => blob'[p] = blob[p]
  PROVE  VerificationRegistered'
<1>1. \A b \in Blobs : SomeVerifier(b) => SomeVerifier(b)'
  BY DEF SomeVerifier
<1>2. \A b \in Blobs : verifying[b] \subseteq Procs
  BY DEF TypeOK
<1>3. QED BY <1>1, <1>2 DEF VerificationRegistered

(* A process that waits for a verdict works on a blob.                     *)
LEMMA WaitingHasBlob ==
  ASSUME TypeOK, NEW p \in Procs, pc[p] \in Validating \cup Blocked
  PROVE  blob[p] \in Blobs
BY DEF TypeOK, Engaged, Processing, Validating, Blocked, Procs, Requests, WorkerPC

(* Hash only passes a goroutine on to its next stage.                      *)
LEMMA HashKeepsVerifier ==
  ASSUME TypeOK, NEW b \in Blobs, NEW v \in Verdicts, Hash(b, v)
  PROVE  /\ SomeVerifier(b)'
         /\ \A c \in Blobs \ {b} : verifiers'[c] = verifiers[c]
         /\ \A s \in Verdicts \ {v} : verifiers'[b][s] = verifiers[b][s]
<1> DEFINE count == [verifiers[b] EXCEPT !["running"] = @ - 1, ![v] = @ + 1]
<1>1. verifiers[b] \in [Verdicts \cup {"running"} -> Nat] /\ v # "running"
  BY DEF TypeOK, Verdicts
<1>2. verifiers' = [verifiers EXCEPT ![b] = count]
  BY <1>1 DEF Hash, TypeOK
<1>3. count[v] > 0 /\ \A s \in Verdicts \ {v} : count[s] = verifiers[b][s]
  BY <1>1 DEF Verdicts
<1> HIDE DEF count
<1>4. verifiers'[b] = count /\ \A c \in Blobs \ {b} : verifiers'[c] = verifiers[c]
  BY <1>2 DEF TypeOK
<1>5. QED BY <1>3, <1>4 DEF SomeVerifier

(* Publish lets one goroutine of its blob go.                              *)
LEMMA PublishCounts ==
  ASSUME TypeOK, NEW b \in Blobs, NEW v \in Verdicts, Publish(b, v)
  PROVE  /\ \A c \in Blobs \ {b} : verifiers'[c] = verifiers[c]
         /\ \A s \in Verdicts : verifiers'[b][s] > 0 => verifiers[b][s] > 0
<1> DEFINE count == [verifiers[b] EXCEPT ![v] = @ - 1]
<1>1. verifiers[b] \in [Verdicts \cup {"running"} -> Nat] /\ verifiers[b][v] > 0
  BY DEF TypeOK, Publish
<1>2. verifiers' = [verifiers EXCEPT ![b] = count]
  BY DEF Publish, TypeOK
<1>3. \A s \in Verdicts : count[s] > 0 => verifiers[b][s] > 0
  BY <1>1
<1> HIDE DEF count
<1>4. verifiers'[b] = count /\ \A c \in Blobs \ {b} : verifiers'[c] = verifiers[c]
  BY <1>2 DEF TypeOK
<1>5. QED BY <1>3, <1>4

(* Verify joins a verification that runs or launches one.                  *)
LEMMA VerifyCounts ==
  ASSUME TypeOK, NEW p \in Procs, Verify(p)
  PROVE  /\ \A b \in Blobs : SomeVerifier(b) => SomeVerifier(b)'
         /\ \A b \in Blobs : (b = blob[p] /\ b \notin verified /\ verifying[b] = {})
                             => SomeVerifier(b)'
         /\ \A b \in Blobs : verifiers'[b]["ok"] = verifiers[b]["ok"]
<1>1. PICK b \in Blobs : b = blob[p]
  BY WaitingHasBlob DEF Verify, Goto, Validating
<1> DEFINE more == [verifiers[b] EXCEPT !["running"] = @ + 1]
<1>2. verifiers[b] \in [Verdicts \cup {"running"} -> Nat]
  BY <1>1 DEF TypeOK
<1>3. more["running"] > 0 /\ more["ok"] = verifiers[b]["ok"]
  BY <1>2 DEF Verdicts
<1>4. CASE b \notin verified /\ verifying[b] = {}
  <2>1. verifiers' = [verifiers EXCEPT ![b] = more]
    BY <1>1, <1>4 DEF Verify
  <2> HIDE DEF more
  <2>2. verifiers'[b] = more /\ \A c \in Blobs \ {b} : verifiers'[c] = verifiers[c]
    BY <1>1, <2>1 DEF TypeOK
  <2>3. SomeVerifier(b)'
    BY <1>3, <2>2 DEF SomeVerifier
  <2>4. \A c \in Blobs \ {b} : SomeVerifier(c) => SomeVerifier(c)'
    BY <2>2 DEF SomeVerifier
  <2>5. \A c \in Blobs : verifiers'[c]["ok"] = verifiers[c]["ok"]
    BY <1>3, <2>2
  <2>6. QED BY <1>1, <2>3, <2>4, <2>5
<1>5. CASE ~(b \notin verified /\ verifying[b] = {})
  <2>1. verifiers' = verifiers
    BY <1>1, <1>5 DEF Verify, verifyVars
  <2>2. QED BY <1>1, <1>5, <2>1 DEF SomeVerifier
<1>6. QED BY <1>4, <1>5

LEMMA VerificationStep ==
  TypeOK /\ VerificationRegistered /\ [Next]_vars => VerificationRegistered'
<1> SUFFICES ASSUME TypeOK, VerificationRegistered, [Next]_vars
             PROVE  VerificationRegistered'
  OBVIOUS
<1> USE DEF queueVars, verifyVars, procVars
<1>0. /\ Readers \subseteq Procs /\ Requests \subseteq Procs /\ Workers \subseteq Procs
      /\ Readers \subseteq Requests /\ Peekers \subseteq Requests
  BY DEF Procs, Requests
<1>00. \A b \in Blobs : verifying[b] \subseteq Procs
  BY DEF TypeOK
<1>1. ASSUME NEW p \in Procs, Verify(p) PROVE VerificationRegistered'
  <2>1. PICK b \in Blobs : b = blob[p]
    BY <1>1, WaitingHasBlob DEF Verify, Goto, Validating
  <2>2. blob' = blob /\ verdict' = verdict
    BY <1>1 DEF Verify
  <2>3. pc[p] = "verify" /\ \A q \in Procs \ {p} : pc'[q] = pc[q]
    BY <1>1, GotoOthers DEF Verify
  <2>4. CASE b \in verified
    <3>1. UNCHANGED verifyVars /\ pc'[p] = "hit"
      BY <1>1, <2>1, <2>4, GotoOthers DEF Verify
    <3>2. QED BY <2>2, <2>3, <3>1, VerificationFrame
  <2>5. CASE b \notin verified
    <3>1. pc'[p] = "vwait" /\ verifying' = [verifying EXCEPT ![b] = @ \cup {p}]
      BY <1>1, <2>1, <2>5, GotoOthers DEF Verify
    <3>2. verdict[p] = "none"
      BY <2>3 DEF VerificationRegistered
    <3>3. verifying'[b] = verifying[b] \cup {p}
          /\ \A c \in Blobs \ {b} : verifying'[c] = verifying[c]
      BY <2>1, <3>1 DEF TypeOK
    <3>4. \A c \in Blobs : verifying'[c] # {} => SomeVerifier(c)'
      BY <1>1, <2>1, <2>5, <3>3, VerifyCounts DEF VerificationRegistered
    <3>5. ASSUME NEW q \in Procs, pc'[q] = "vwait", verdict'[q] = "none"
          PROVE  q \in verifying'[blob'[q]]
      <4>1. CASE q = p
        BY <2>1, <2>2, <3>3, <4>1
      <4>2. CASE q # p
        <5>1. pc[q] = "vwait" /\ verdict[q] = "none"
          BY <2>2, <2>3, <3>5, <4>2
        <5>2. q \in verifying[blob[q]] /\ blob[q] \in Blobs
          BY <5>1, WaitingHasBlob DEF VerificationRegistered, Validating
        <5>3. QED BY <2>2, <3>3, <5>2
      <4>3. QED BY <4>1, <4>2
    <3>6. ASSUME NEW c \in Blobs, NEW q \in verifying'[c]
          PROVE  pc'[q] = "vwait" /\ blob'[q] = c /\ verdict'[q] = "none"
      <4>1. CASE q = p /\ c = b
        BY <2>1, <2>2, <3>1, <3>2, <4>1
      <4>2. CASE ~(q = p /\ c = b)
        <5>1. q \in verifying[c]
          BY <3>3, <4>2
        <5>2. q \in Procs /\ pc[q] = "vwait" /\ blob[q] = c /\ verdict[q] = "none"
          BY <1>00, <5>1 DEF VerificationRegistered
        <5>3. QED BY <2>2, <2>3, <5>2
      <4>3. QED BY <4>1, <4>2
    <3>7. \A q \in Procs : pc'[q] # "vwait" => verdict'[q] = "none"
      BY <2>2, <2>3, <3>2 DEF VerificationRegistered
    <3>8. QED BY <3>4, <3>5, <3>6, <3>7 DEF VerificationRegistered
  <2>6. QED BY <2>4, <2>5
<1>2. ASSUME NEW p \in Procs, TakeVerdict(p) \/ (p \in Requests /\ GiveUpVerifying(p))
      PROVE  VerificationRegistered'
  <2>1. PICK to \in {"hit", "remove", "miss", "verr"} : Goto(p, "vwait", to)
    BY <1>2 DEF TakeVerdict, GiveUpVerifying
  <2>2. /\ pc[p] = "vwait" /\ pc'[p] # "vwait"
        /\ \A q \in Procs \ {p} : pc'[q] = pc[q]
    BY <2>1, GotoOthers
  <2>3. blob' = blob /\ verifiers' = verifiers
    BY <1>2 DEF TakeVerdict, GiveUpVerifying
  <2>4. verdict'[p] = "none" /\ \A q \in Procs \ {p} : verdict'[q] = verdict[q]
    BY <1>2 DEF TakeVerdict, GiveUpVerifying, TypeOK
  <2>5. \A b \in Blobs : verifying'[b] = verifying[b] \ {p}
    <3>1. CASE TakeVerdict(p)
      BY <3>1 DEF TakeVerdict, VerificationRegistered
    <3>2. CASE p \in Requests /\ GiveUpVerifying(p)
      BY <3>2 DEF GiveUpVerifying, TypeOK, VerificationRegistered
    <3>3. QED BY <1>2, <3>1, <3>2
  <2>6. \A b \in Blobs : SomeVerifier(b) => SomeVerifier(b)'
    BY <2>3 DEF SomeVerifier
  <2>7. ASSUME NEW q \in Procs, pc'[q] = "vwait", verdict'[q] = "none"
        PROVE  q \in verifying'[blob'[q]]
    <3>1. q # p /\ pc[q] = "vwait" /\ verdict[q] = "none"
      BY <2>2, <2>4, <2>7
    <3>2. blob[q] \in Blobs
      BY <3>1, WaitingHasBlob DEF Validating
    <3>3. QED BY <2>3, <2>5, <3>1, <3>2 DEF VerificationRegistered
  <2>8. \A b \in Blobs : \A q \in verifying'[b] :
          pc'[q] = "vwait" /\ blob'[q] = b /\ verdict'[q] = "none"
    BY <1>00, <2>2, <2>3, <2>4, <2>5 DEF VerificationRegistered
  <2>9. \A q \in Procs : pc'[q] # "vwait" => verdict'[q] = "none"
    BY <2>2, <2>4 DEF VerificationRegistered
  <2>10. \A b \in Blobs : verifying'[b] # {} => SomeVerifier(b)'
    BY <2>5, <2>6 DEF VerificationRegistered
  <2>11. QED BY <2>7, <2>8, <2>9, <2>10 DEF VerificationRegistered
<1>3. ASSUME NEW b \in Blobs, NEW v \in Verdicts, Hash(b, v)
      PROVE  VerificationRegistered'
  <2>1. \A c \in Blobs : SomeVerifier(c) => SomeVerifier(c)'
    BY <1>3, HashKeepsVerifier DEF SomeVerifier
  <2>2. UNCHANGED <<verifying, verdict, pc, blob>>
    BY <1>3 DEF Hash
  <2>3. QED BY <2>1, <2>2 DEF VerificationRegistered
<1>4. ASSUME NEW b \in Blobs, NEW v \in Verdicts, Publish(b, v)
      PROVE  VerificationRegistered'
  <2>1. /\ pc' = pc /\ blob' = blob
        /\ \A q \in Procs : verdict'[q] = IF q \in verifying[b] THEN v ELSE verdict[q]
    BY <1>4 DEF Publish
  <2>2. verifying'[b] = {} /\ \A c \in Blobs \ {b} : verifying'[c] = verifying[c]
    BY <1>4 DEF Publish, TypeOK
  <2>3. \A c \in Blobs \ {b} : SomeVerifier(c) => SomeVerifier(c)'
    BY <1>4, PublishCounts DEF SomeVerifier
  <2>4. v # "none"
    BY DEF Verdicts
  <2>5. ASSUME NEW q \in Procs, pc'[q] = "vwait", verdict'[q] = "none"
        PROVE  q \in verifying'[blob'[q]]
    <3>1. q \notin verifying[b] /\ pc[q] = "vwait" /\ verdict[q] = "none"
      BY <2>1, <2>4, <2>5
    <3>2. q \in verifying[blob[q]] /\ blob[q] \in Blobs
      BY <3>1, WaitingHasBlob DEF VerificationRegistered, Validating
    <3>3. QED BY <2>1, <2>2, <3>1, <3>2
  <2>6. ASSUME NEW c \in Blobs, NEW q \in verifying'[c]
        PROVE  pc'[q] = "vwait" /\ blob'[q] = c /\ verdict'[q] = "none"
    <3>1. c # b /\ q \in verifying[c] /\ q \in Procs
      BY <1>00, <2>2, <2>6
    <3>2. pc[q] = "vwait" /\ blob[q] = c /\ verdict[q] = "none"
      BY <3>1 DEF VerificationRegistered
    <3>3. q \notin verifying[b]
      BY <3>1, <3>2 DEF VerificationRegistered
    <3>4. QED BY <2>1, <3>1, <3>2, <3>3
  <2>7. ASSUME NEW q \in Procs, pc'[q] # "vwait" PROVE verdict'[q] = "none"
    <3>1. verdict[q] = "none" /\ q \notin verifying[b]
      BY <2>1, <2>7 DEF VerificationRegistered
    <3>2. QED BY <2>1, <3>1
  <2>8. \A c \in Blobs : verifying'[c] # {} => SomeVerifier(c)'
    BY <2>2, <2>3 DEF VerificationRegistered
  <2>9. QED BY <2>5, <2>6, <2>7, <2>8 DEF VerificationRegistered
<1>5. CASE CloseAll
  <2>1. /\ pc' = pc /\ blob' = blob /\ \A b \in Blobs : verifying'[b] = {}
        /\ \A q \in Procs : verdict'[q] = IF \E b \in Blobs : q \in verifying[b]
                                          THEN "fail" ELSE verdict[q]
    BY <1>5 DEF CloseAll
  <2>2. ASSUME NEW q \in Procs, pc[q] = "vwait" PROVE verdict'[q] # "none"
    <3>1. blob[q] \in Blobs
      BY <2>2, WaitingHasBlob DEF Validating
    <3>2. QED BY <2>1, <2>2, <3>1 DEF VerificationRegistered
  <2>3. ASSUME NEW q \in Procs, pc[q] # "vwait" PROVE verdict'[q] = "none"
    BY <2>1, <2>3 DEF VerificationRegistered
  <2>4. QED BY <2>1, <2>2, <2>3 DEF VerificationRegistered
<1>6. ASSUME NEW p \in Procs, NEW from, NEW to, Goto(p, from, to),
             from # "vwait", to # "vwait", UNCHANGED verifyVars,
             \A q \in Procs \ {p} : blob'[q] = blob[q]
      PROVE  VerificationRegistered'
  BY <1>6, GotoOthers, VerificationFrame
<1>7. ASSUME NEW p \in Procs, Stat(p) \/ Remove(p) \/ ClearVerified(p) \/ CacheDirError(p)
      PROVE  VerificationRegistered'
  <2>1. \E from \in {"stat", "remove", "clear"},
           to \in {"miss", "remove", "verify", "clear", "verr"} : Goto(p, from, to)
    BY <1>7 DEF Stat, Remove, ClearVerified, CacheDirError
  <2>2. UNCHANGED <<verifying, verifiers, verdict, blob>>
    BY <1>7 DEF Stat, Remove, ClearVerified, CacheDirError
  <2>3. QED BY <1>6, <2>1, <2>2
<1>8. ASSUME NEW r \in Requests,
             \/ \E b \in Blobs : EnsureHydrated(r, b) \/ ReadBlob(r, b)
             \/ Register(r) \/ SignalRead(r) \/ Receive(r) \/ GiveUp(r) \/ ReadCachedBlob(r)
             \/ \E at \in {"hit", "miss", "verr"}, answer \in {"ok", "err", "direct"} :
                  Finish(r, at, answer)
      PROVE  VerificationRegistered'
  <2>1. \E from \in {"idle", "miss", "signal", "await", "hit", "verr"},
           to \in {"await", "stat", "done", "signal"} : Goto(r, from, to)
    BY <1>8 DEF EnsureHydrated, ReadBlob, Register, SignalRead, Receive, GiveUp,
                ReadCachedBlob, Finish
  <2>2. UNCHANGED verifyVars /\ \A q \in Procs \ {r} : blob'[q] = blob[q]
    BY <1>8 DEF EnsureHydrated, ReadBlob, Register, SignalRead, Receive, GiveUp,
                ReadCachedBlob, Finish, TypeOK
  <2>3. QED BY <1>0, <1>6, <2>1, <2>2
<1>9. ASSUME NEW w \in Workers,
             \/ TakeSignal(w) \/ Exit(w) \/ Drained(w) \/ Pop(w) \/ Signal(w) \/ Fetch(w) \/ Hang(w)
             \/ \E at \in {"hit", "fetched", "verr"}, answer \in {"ok", "err"} :
                  Answer(w, at, answer)
      PROVE  VerificationRegistered'
  <2>1. \E from \in {"select", "pop", "more", "again", "miss", "hit", "fetched", "verr"},
           to \in {"pop", "exited", "select", "again", "stat", "more", "fetched", "hung", "verr"} :
          Goto(w, from, to)
    BY <1>9 DEF TakeSignal, Exit, Drained, Pop, Signal, Fetch, Hang, Answer
  <2>2. UNCHANGED verifyVars /\ \A q \in Procs \ {w} : blob'[q] = blob[q]
    BY <1>9 DEF TakeSignal, Exit, Drained, Pop, Signal, Fetch, Hang, Answer, TypeOK
  <2>3. QED BY <1>0, <1>6, <2>1, <2>2
<1>10. CASE \/ \E e \in Prefetchers, tasks \in [Blobs -> 0..(Explicit - 1)] :
                 EnqueueBatch(e, tasks)
            \/ \E e \in Prefetchers : SignalBatch(e)
            \/ CloseStopCh \/ UNCHANGED vars
  <2>1. UNCHANGED <<verifying, verifiers, verdict, pc, blob>>
    BY <1>10 DEF EnqueueBatch, SignalBatch, CloseStopCh, vars
  <2>2. QED BY <2>1, VerificationFrame
<1>11. ASSUME NEW p \in Procs, Validate(p) \/ CacheDirError(p)
       PROVE  VerificationRegistered'
  BY <1>1, <1>2, <1>7, <1>11 DEF Validate
<1>12. QED
  BY <1>0, <1>2, <1>3, <1>4, <1>5, <1>8, <1>9, <1>10, <1>11, NextCases

LEMMA VerificationInvariant == Spec => []VerificationRegistered
<1>1. Init => VerificationRegistered
  BY DEF Init, VerificationRegistered, Procs
<1>2. QED BY <1>1, VerificationStep, TypeCorrect, PTL DEF Spec

(* The two ways of being forgotten by the hydrator are excluded: while     *)
(* something is queued somebody is about to look, and while a process      *)
(* waits for a verification some goroutine will publish to it.             *)
THEOREM NobodyForgotten == Spec => []NobodyWaitsInVain
<1>1. TypeOK /\ VerificationRegistered => NoOrphanedVerification
  <2> SUFFICES ASSUME TypeOK, VerificationRegistered,
                      NEW p \in Procs, pc[p] = "vwait", verdict[p] = "none"
               PROVE  p \in verifying[blob[p]] /\ SomeVerifier(blob[p])
    BY DEF NoOrphanedVerification, SomeVerifier
  <2>1. blob[p] \in Blobs
    BY WaitingHasBlob DEF Validating
  <2>2. QED BY <2>1 DEF VerificationRegistered
<1>2. NoLostWakeup /\ NoOrphanedVerification => NobodyWaitsInVain
  BY DEF NobodyWaitsInVain
<1>3. QED BY <1>1, <1>2, WakeupInvariant, VerificationInvariant, TypeCorrect, PTL

-----------------------------------------------------------------------------
(* What is served is intact.                                               *)

Intact(b) == file[b] \notin Damaged

(* NoDamagedBlobServed made inductive: a blob is intact as soon as anybody *)
(* believes it is, from the goroutine that hashed it to the process that   *)
(* takes the verdict and the reader that is answered.                      *)
OnlyIntact ==
  /\ NoDamagedBlobServed
  /\ \A b \in Blobs : verifiers[b]["ok"] > 0 => Intact(b)
  /\ \A p \in Procs : verdict[p] = "ok" => Intact(blob[p])
  /\ \A p \in Procs : pc[p] \in {"hit", "fetched"} => Intact(blob[p])

(* No step damages a file: fetches are renamed into place whole.           *)
LEMMA FilesStayIntact ==
  ASSUME TypeOK, [Next]_vars
  PROVE  \A b \in Blobs : Intact(b) => Intact(b)'
<1> USE DEF queueVars, verifyVars, procVars
<1>1. CASE file' = file
  BY <1>1 DEF Intact
<1>2. ASSUME NEW p \in Procs, Remove(p) \/ Fetch(p)
      PROVE  \A b \in Blobs : Intact(b) => Intact(b)'
  <2>1. \/ file' = file
        \/ \E s \in {"absent", "good"} : file' = [file EXCEPT ![blob[p]] = s]
    BY <1>2 DEF Remove, Fetch
  <2>2. QED BY <1>1, <2>1 DEF Intact, Damaged, TypeOK
<1>3. ASSUME NEW p \in Procs, Validate(p) \/ CacheDirError(p)
      PROVE  \A b \in Blobs : Intact(b) => Intact(b)'
  BY <1>1, <1>2, <1>3 DEF Validate, CacheDirError, Stat, Verify, TakeVerdict, ClearVerified
<1>4. ASSUME NEW r \in Requests,
             \/ \E b \in Blobs : EnsureHydrated(r, b) \/ ReadBlob(r, b)
             \/ Register(r) \/ SignalRead(r) \/ Receive(r) \/ GiveUp(r) \/ ReadCachedBlob(r)
             \/ GiveUpVerifying(r)
             \/ \E at, answer : Finish(r, at, answer)
      PROVE  file' = file
  BY <1>4 DEF EnsureHydrated, ReadBlob, Register, SignalRead, Receive, GiveUp,
              ReadCachedBlob, GiveUpVerifying, Finish
<1>5. ASSUME NEW w \in Workers,
             \/ TakeSignal(w) \/ Exit(w) \/ Drained(w) \/ Pop(w) \/ Signal(w) \/ Hang(w)
             \/ \E at, answer : Answer(w, at, answer)
      PROVE  file' = file
  BY <1>5 DEF TakeSignal, Exit, Drained, Pop, Signal, Hang, Answer
<1>6. ASSUME \/ \E e \in Prefetchers, tasks \in [Blobs -> 0..(Explicit - 1)] :
                  EnqueueBatch(e, tasks)
             \/ \E e \in Prefetchers : SignalBatch(e)
             \/ \E b \in Blobs, v \in Verdicts : Hash(b, v) \/ Publish(b, v)
             \/ CloseStopCh \/ CloseAll \/ UNCHANGED vars
      PROVE  file' = file
  BY <1>6 DEF EnqueueBatch, SignalBatch, Hash, Publish, CloseStopCh, CloseAll, vars
<1>7. Readers \subseteq Requests /\ Peekers \subseteq Requests /\ Workers \subseteq Procs
  BY DEF Requests, Procs
<1>8. QED BY <1>1, <1>2, <1>3, <1>4, <1>5, <1>6, <1>7, NextCases

(* A step after which everything newly believed intact is intact.          *)
LEMMA IntactFrame ==
  ASSUME TypeOK, ReadersRegistered, VerificationRegistered, OnlyIntact, [Next]_vars,
         \A b \in Blobs : verifiers'[b]["ok"] > 0
                            => verifiers[b]["ok"] > 0 \/ file'[b] \notin Damaged,
         \A b \in verified' : b \in verified \/ file'[b] \notin Damaged,
         \A p \in Procs : verdict'[p] = "ok" =>
           \/ verdict[p] = "ok" /\ blob'[p] = blob[p]
           \/ file'[blob'[p]] \notin Damaged,
         \A p \in Procs : pc'[p] \in {"hit", "fetched"} =>
           \/ pc[p] \in {"hit", "fetched"} /\ blob'[p] = blob[p]
           \/ file'[blob'[p]] \notin Damaged,
         \A r \in Requests : reply'[r] = "ok" =>
           \/ reply[r] = "ok" /\ blob'[r] = blob[r]
           \/ file'[blob'[r]] \notin Damaged
  PROVE  OnlyIntact'
<1>1. \A b \in Blobs : file[b] \notin Damaged => file'[b] \notin Damaged
  BY FilesStayIntact DEF Intact
<1>2. verified \subseteq Blobs
  BY DEF TypeOK
<1>3. ASSUME NEW p \in Procs, verdict[p] = "ok" \/ pc[p] \in {"hit", "fetched"}
      PROVE  blob[p] \in Blobs
  <2>1. pc[p] \in {"vwait", "hit", "fetched"}
    BY <1>3 DEF VerificationRegistered
  <2>2. QED BY <2>1 DEF TypeOK, Engaged, Processing, Validating
<1>4. ASSUME NEW r \in Requests, reply[r] = "ok" PROVE blob[r] \in Blobs
  <2>1. pc[r] # "idle" /\ r \in Procs /\ r \notin Workers
    BY <1>4 DEF ReadersRegistered, Blocked, Procs, Requests
  <2>2. QED BY <2>1 DEF TypeOK, Engaged
<1>5. \A r \in Requests : reply'[r] = "ok" => file'[blob'[r]] \notin Damaged
  BY <1>1, <1>4 DEF OnlyIntact, NoDamagedBlobServed
<1>6. \A b \in verified' : file'[b] \notin Damaged
  BY <1>1, <1>2 DEF OnlyIntact, NoDamagedBlobServed
<1>7. \A b \in Blobs : verifiers'[b]["ok"] > 0 => file'[b] \notin Damaged
  BY <1>1 DEF OnlyIntact, Intact
<1>8. \A p \in Procs : (verdict'[p] = "ok" \/ pc'[p] \in {"hit", "fetched"})
                         => file'[blob'[p]] \notin Damaged
  BY <1>1, <1>3 DEF OnlyIntact, Intact
<1>9. QED BY <1>5, <1>6, <1>7, <1>8 DEF OnlyIntact, NoDamagedBlobServed, Intact

LEMMA IntactStep ==
  TypeOK /\ ReadersRegistered /\ VerificationRegistered /\ OnlyIntact /\ [Next]_vars
    => OnlyIntact'
<1> SUFFICES ASSUME TypeOK, ReadersRegistered, VerificationRegistered, OnlyIntact,
                    [Next]_vars
             PROVE  OnlyIntact'
  OBVIOUS
<1> USE DEF queueVars, verifyVars, procVars
<1>0. /\ Readers \subseteq Procs /\ Requests \subseteq Procs /\ Workers \subseteq Procs
      /\ Readers \subseteq Requests /\ Peekers \subseteq Requests
  BY DEF Procs, Requests
<1>1. ASSUME NEW p \in Procs, NEW from, NEW to, Goto(p, from, to),
             to \in {"hit", "fetched"} => file'[blob'[p]] \notin Damaged,
             from # "vwait",
             UNCHANGED <<verifiers, verified, verdict, reply>>,
             \A q \in Procs \ {p} : blob'[q] = blob[q],
             p \in Requests => (blob'[p] = blob[p] \/ reply[p] # "ok")
      PROVE  OnlyIntact'
  <2>1. /\ pc[p] = from /\ pc'[p] = to
        /\ \A q \in Procs \ {p} : pc'[q] = pc[q]
    BY <1>1, GotoOthers
  <2>2. verdict[p] = "none"
    BY <1>1, <2>1 DEF VerificationRegistered
  <2>3. QED BY <1>0, <1>1, <2>1, <2>2, IntactFrame
<1>2. ASSUME NEW p \in Procs, Verify(p) PROVE OnlyIntact'
  <2>1. PICK b \in Blobs : b = blob[p] /\ blob' = blob /\ file' = file
    BY <1>2, WaitingHasBlob DEF Verify, Goto, Validating
  <2>2. /\ pc'[p] \in {"hit", "vwait"} /\ (pc'[p] = "hit" => b \in verified)
        /\ \A q \in Procs \ {p} : pc'[q] = pc[q]
    BY <1>2, <2>1, GotoOthers DEF Verify
  <2>3. b \in verified => file'[blob'[p]] \notin Damaged
    BY <2>1 DEF OnlyIntact, NoDamagedBlobServed
  <2>4. UNCHANGED <<verified, verdict, reply>>
    BY <1>2 DEF Verify
  <2>5. \A c \in Blobs : verifiers'[c]["ok"] = verifiers[c]["ok"]
    BY <1>2, VerifyCounts
  <2>6. QED BY <2>1, <2>2, <2>3, <2>4, <2>5, IntactFrame
<1>3. ASSUME NEW p \in Procs, TakeVerdict(p) \/ (p \in Requests /\ GiveUpVerifying(p))
      PROVE  OnlyIntact'
  <2>1. PICK to \in {"hit", "remove", "miss", "verr"} :
          Goto(p, "vwait", to) /\ (to = "hit" => verdict[p] = "ok")
    BY <1>3 DEF TakeVerdict, GiveUpVerifying
  <2>2. pc'[p] = to /\ \A q \in Procs \ {p} : pc'[q] = pc[q]
    BY <2>1, GotoOthers
  <2>3. UNCHANGED <<verified, verifiers, reply, blob, file>>
    BY <1>3 DEF TakeVerdict, GiveUpVerifying
  <2>4. verdict'[p] = "none" /\ \A q \in Procs \ {p} : verdict'[q] = verdict[q]
    BY <1>3 DEF TakeVerdict, GiveUpVerifying, TypeOK
  <2>5. to = "hit" => file'[blob'[p]] \notin Damaged
    BY <2>1, <2>3 DEF OnlyIntact, Intact
  <2>6. QED BY <2>2, <2>3, <2>4, <2>5, IntactFrame
<1>4. ASSUME NEW b \in Blobs, NEW v \in Verdicts, Hash(b, v) PROVE OnlyIntact'
  <2>1. UNCHANGED <<verified, verdict, reply, blob, pc, file>>
    BY <1>4 DEF Hash
  <2>2. \A c \in Blobs \ {b} : verifiers'[c]["ok"] = verifiers[c]["ok"]
    BY <1>4, HashKeepsVerifier
  <2>3. CASE v = "ok"
    <3>1. file[b] \notin Damaged
      <4>1. "ok" \in HashOutcomes(b) /\ file[b] \in FileState
        BY <1>4, <2>3 DEF Hash, TypeOK
      <4>2. QED BY <4>1 DEF HashOutcomes, FileState, Damaged
    <3>2. QED BY <2>1, <2>2, <3>1, IntactFrame
  <2>4. CASE v # "ok"
    <3>1. verifiers'[b]["ok"] = verifiers[b]["ok"]
      BY <1>4, <2>4, HashKeepsVerifier DEF Verdicts
    <3>2. QED BY <2>1, <2>2, <3>1, IntactFrame
  <2>5. QED BY <2>3, <2>4
<1>5. ASSUME NEW b \in Blobs, NEW v \in Verdicts, Publish(b, v) PROVE OnlyIntact'
  <2>1. UNCHANGED <<reply, blob, pc, file>>
    BY <1>5 DEF Publish
  <2>2. \A c \in Blobs : verifiers'[c]["ok"] > 0 => verifiers[c]["ok"] > 0
    BY <1>5, PublishCounts DEF Verdicts
  <2>3. v = "ok" => file'[b] \notin Damaged
    BY <1>5, <2>1 DEF Publish, OnlyIntact, Intact
  <2>4. \A c \in verified' : c \in verified \/ (c = b /\ v = "ok")
    BY <1>5 DEF Publish
  <2>5. \A q \in Procs : verdict'[q] = IF q \in verifying[b] THEN v ELSE verdict[q]
    BY <1>5 DEF Publish
  <2>6. \A q \in verifying[b] : blob'[q] = b
    BY <2>1 DEF VerificationRegistered
  <2>7. QED BY <2>1, <2>2, <2>3, <2>4, <2>5, <2>6, IntactFrame
<1>6. ASSUME NEW p \in Procs, Stat(p) \/ Remove(p) \/ CacheDirError(p) PROVE OnlyIntact'
  <2>1. \E from \in {"stat", "remove"}, to \in {"miss", "remove", "verify", "clear", "verr"} :
          Goto(p, from, to)
    BY <1>6 DEF Stat, Remove, CacheDirError
  <2>2. UNCHANGED <<verifiers, verified, verdict, reply, blob>>
    BY <1>6 DEF Stat, Remove, CacheDirError
  <2>3. QED BY <1>1, <2>1, <2>2
<1>7. ASSUME NEW p \in Procs, ClearVerified(p) PROVE OnlyIntact'
  <2>1. /\ pc'[p] = "miss" /\ \A q \in Procs \ {p} : pc'[q] = pc[q]
        /\ verified' \subseteq verified
        /\ UNCHANGED <<verifiers, verdict, reply, blob>>
    BY <1>7, GotoOthers DEF ClearVerified
  <2>2. QED BY <2>1, IntactFrame
<1>8. ASSUME NEW r \in Requests, NEW b \in Blobs, EnsureHydrated(r, b) PROVE OnlyIntact'
  <2>1. \E to \in {"await", "stat"} : Goto(r, "idle", to)
    BY <1>8 DEF EnsureHydrated
  <2>2. reply[r] # "ok"
    BY <1>0, <2>1, GotoOthers DEF ReadersRegistered, Blocked
  <2>3. UNCHANGED <<verifiers, verified, verdict, reply>>
    BY <1>8 DEF EnsureHydrated
  <2>4. \A q \in Procs \ {r} : blob'[q] = blob[q]
    BY <1>8 DEF EnsureHydrated, TypeOK
  <2>5. QED BY <1>0, <1>1, <2>1, <2>2, <2>3, <2>4
<1>9. ASSUME NEW r \in Requests, NEW b \in Blobs, ReadBlob(r, b) PROVE OnlyIntact'
  <2>1. /\ pc[r] = "idle" /\ pc'[r] \in {"done", "stat"}
        /\ \A q \in Procs \ {r} : pc'[q] = pc[q]
    BY <1>0, <1>9, GotoOthers DEF ReadBlob
  <2>2. reply[r] = "none" /\ verdict[r] = "none"
    BY <1>0, <2>1 DEF ReadersRegistered, VerificationRegistered, Blocked
  <2>3. UNCHANGED <<verifiers, verified, verdict>>
    BY <1>9 DEF ReadBlob
  <2>4. \A q \in Procs \ {r} : blob'[q] = blob[q]
    BY <1>9 DEF ReadBlob, TypeOK
  <2>5. reply'[r] # "ok" /\ \A q \in Requests \ {r} : reply'[q] = reply[q]
    BY <1>9, <2>2 DEF ReadBlob, TypeOK
  <2>6. QED BY <1>0, <2>1, <2>2, <2>3, <2>4, <2>5, IntactFrame
<1>10. ASSUME NEW r \in Requests, Register(r) \/ SignalRead(r) \/ Receive(r)
       PROVE  OnlyIntact'
  <2>1. \E from \in {"miss", "signal", "await"}, to \in {"await", "signal", "done"} :
          Goto(r, from, to)
    BY <1>10 DEF Register, SignalRead, Receive
  <2>2. UNCHANGED <<verifiers, verified, verdict, reply, blob>>
    BY <1>10 DEF Register, SignalRead, Receive
  <2>3. QED BY <1>0, <1>1, <2>1, <2>2
<1>11. ASSUME NEW r \in Requests, NEW at \in {"hit", "miss", "verr", "await"}, NEW answer,
              Goto(r, at, "done"), reply' = [reply EXCEPT ![r] = answer],
              answer = "ok" => at = "hit",
              UNCHANGED <<verifiers, verified, verdict, blob, file>>
       PROVE  OnlyIntact'
  <2>1. /\ pc[r] = at /\ pc'[r] = "done"
        /\ \A q \in Procs \ {r} : pc'[q] = pc[q]
    BY <1>0, <1>11, GotoOthers
  <2>2. answer = "ok" => file'[blob'[r]] \notin Damaged
    BY <1>0, <1>11, <2>1 DEF OnlyIntact, Intact
  <2>3. reply'[r] = answer /\ \A q \in Requests \ {r} : reply'[q] = reply[q]
    BY <1>11 DEF TypeOK
  <2>4. QED BY <1>0, <1>11, <2>1, <2>2, <2>3, IntactFrame
<1>12. ASSUME NEW r \in Requests,
              \/ GiveUp(r) \/ ReadCachedBlob(r)
              \/ Finish(r, "hit", "ok") \/ Finish(r, "verr", "err")
              \/ Finish(r, "miss", "direct")
       PROVE  OnlyIntact'
  BY <1>11, <1>12 DEF GiveUp, ReadCachedBlob, Finish
<1>13. ASSUME NEW w \in Workers, TakeSignal(w) \/ Exit(w) \/ Drained(w) \/ Signal(w)
       PROVE  OnlyIntact'
  <2>1. \E from \in {"select", "pop", "more", "again"},
           to \in {"pop", "exited", "select", "stat"} : Goto(w, from, to)
    BY <1>13 DEF TakeSignal, Exit, Drained, Signal
  <2>2. UNCHANGED <<verifiers, verified, verdict, reply, blob>>
    BY <1>13 DEF TakeSignal, Exit, Drained, Signal
  <2>3. QED BY <1>0, <1>1, <2>1, <2>2
<1>14. ASSUME NEW w \in Workers, Pop(w) PROVE OnlyIntact'
  <2>1. \E to \in {"again", "stat", "more"} : Goto(w, "pop", to)
    BY <1>14 DEF Pop
  <2>2. UNCHANGED <<verifiers, verified, verdict, reply>>
    BY <1>14 DEF Pop
  <2>3. w \notin Requests /\ \A q \in Procs \ {w} : blob'[q] = blob[q]
    BY <1>14 DEF Pop, TypeOK, Requests
  <2>4. QED BY <1>0, <1>1, <2>1, <2>2, <2>3
<1>15. ASSUME NEW w \in Workers, Fetch(w) \/ Hang(w) PROVE OnlyIntact'
  <2>1. blob[w] \in Blobs
    BY <1>0, <1>15, WaitingHasBlob DEF Fetch, Hang, Goto, Validating
  <2>2. \/ Goto(w, "miss", "fetched") /\ file'[blob[w]] = "good"
        \/ \E to \in {"verr", "hung"} : Goto(w, "miss", to)
    BY <1>15, <2>1 DEF Fetch, Hang, TypeOK
  <2>3. UNCHANGED <<verifiers, verified, verdict, reply, blob>>
    BY <1>15 DEF Fetch, Hang
  <2>4. QED BY <1>0, <1>1, <2>2, <2>3 DEF Damaged
<1>16. ASSUME NEW w \in Workers, NEW at \in {"hit", "fetched", "verr"},
              NEW answer \in {"ok", "err"}, Answer(w, at, answer),
              answer = "ok" => at # "verr"
       PROVE  OnlyIntact'
  <2>1. PICK b \in Blobs : b = blob[w]
    BY <1>0, <1>16 DEF Answer, Goto, TypeOK, Engaged, Processing, Validating
  <2>2. /\ pc[w] = at /\ pc'[w] = "again"
        /\ \A q \in Procs \ {w} : pc'[q] = pc[q]
    BY <1>0, <1>16, GotoOthers DEF Answer
  <2>3. UNCHANGED <<verifiers, verdict, file>>
    BY <1>16 DEF Answer
  <2>4. at \in {"hit", "fetched"} => file'[b] \notin Damaged
    BY <1>0, <2>1, <2>2, <2>3 DEF OnlyIntact, Intact
  <2>5. \A c \in verified' : c \in verified \/ (c = b /\ at = "fetched")
    BY <1>16, <2>1 DEF Answer
  <2>6. verdict[w] = "none"
    BY <1>0, <2>2 DEF VerificationRegistered
  <2>7. w \notin Requests /\ \A q \in Procs \ {w} : blob'[q] = blob[q]
    BY <1>16 DEF Answer, TypeOK, Requests
  <2>8. \A r \in Requests : reply'[r] = IF r \in wait[b] THEN answer ELSE reply[r]
    BY <1>16, <2>1 DEF Answer
  <2>9. \A r \in Requests : r \in wait[b] => blob'[r] = b
    BY <1>0, <2>7 DEF ReadersRegistered
  <2>10. \A r \in Requests : reply'[r] = "ok" =>
           \/ reply[r] = "ok" /\ blob'[r] = blob[r]
           \/ file'[blob'[r]] \notin Damaged
    BY <1>0, <1>16, <2>4, <2>7, <2>8, <2>9
  <2>11. QED BY <1>0, <2>2, <2>3, <2>4, <2>5, <2>6, <2>7, <2>10, IntactFrame
<1>17. CASE CloseAll
  <2>1. UNCHANGED <<verifiers, verified, pc, blob>>
    BY <1>17 DEF CloseAll
  <2>2. /\ \A r \in Requests : reply'[r] \in {"err", reply[r]}
        /\ \A p \in Procs : verdict'[p] \in {"fail", verdict[p]}
    BY <1>17 DEF CloseAll
  <2>3. QED BY <2>1, <2>2, IntactFrame
<1>18. CASE \/ \E e \in Prefetchers, tasks \in [Blobs -> 0..(Explicit - 1)] :
                 EnqueueBatch(e, tasks)
            \/ \E e \in Prefetchers : SignalBatch(e)
            \/ CloseStopCh \/ UNCHANGED vars
  <2>1. UNCHANGED <<verifiers, verified, verdict, pc, blob, reply>>
    BY <1>18 DEF EnqueueBatch, SignalBatch, CloseStopCh, vars
  <2>2. QED BY <2>1, IntactFrame
<1>19. ASSUME NEW p \in Procs, Validate(p) \/ CacheDirError(p) PROVE OnlyIntact'
  BY <1>2, <1>3, <1>6, <1>7, <1>19 DEF Validate
<1>20. QED
  BY <1>0, <1>3, <1>4, <1>5, <1>8, <1>9, <1>10, <1>12, <1>13, <1>14, <1>15, <1>16, <1>17,
     <1>18, <1>19, NextCases

LEMMA IntactInvariant == Spec => []OnlyIntact
<1>1. Init => OnlyIntact
  BY DEF Init, OnlyIntact, NoDamagedBlobServed, Procs, Verdicts
<1>2. QED
  BY <1>1, IntactStep, TypeCorrect, ReadersInvariant, VerificationInvariant, PTL DEF Spec

(* Whatever an earlier daemon left in the cache directory, no read is      *)
(* answered with a damaged file and no blob is recorded as verified while  *)
(* its file is damaged.                                                    *)
THEOREM ServedIntact == Spec => []NoDamagedBlobServed
<1>1. OnlyIntact => NoDamagedBlobServed
  BY DEF OnlyIntact
<1>2. QED BY <1>1, IntactInvariant, PTL

-----------------------------------------------------------------------------
(* The hydrator keeps HydrationPromise.                                    *)

(* A reader is never answered with the direct stream of ReadBlob.          *)
ReadersGetPaths == \A r \in Readers : reply[r] # "direct"

LEMMA PathsStep == TypeOK /\ ReadersGetPaths /\ [Next]_vars => ReadersGetPaths'
<1> SUFFICES ASSUME TypeOK, ReadersGetPaths, [Next]_vars PROVE ReadersGetPaths'
  OBVIOUS
<1> USE DEF queueVars, verifyVars, procVars
<1>0. Readers \subseteq Requests /\ Readers \cap Peekers = {}
  BY DEF Requests
<1>1. CASE reply' = reply
  BY <1>1 DEF ReadersGetPaths
<1>2. ASSUME NEW r \in Peekers,
             \/ \E b \in Blobs : ReadBlob(r, b)
             \/ ReadCachedBlob(r)
             \/ Finish(r, "miss", "direct") \/ Finish(r, "verr", "err")
      PROVE  ReadersGetPaths'
  <2>1. \A q \in Readers : reply'[q] = reply[q]
    BY <1>0, <1>2 DEF ReadBlob, ReadCachedBlob, Finish, TypeOK
  <2>2. QED BY <2>1 DEF ReadersGetPaths
<1>3. ASSUME NEW r \in Readers, Finish(r, "hit", "ok") \/ Finish(r, "verr", "err") \/ GiveUp(r)
      PROVE  ReadersGetPaths'
  BY <1>0, <1>3 DEF Finish, GiveUp, TypeOK, ReadersGetPaths
<1>4. ASSUME NEW w \in Workers, NEW at, NEW answer \in {"ok", "err"}, Answer(w, at, answer)
      PROVE  ReadersGetPaths'
  BY <1>0, <1>4 DEF Answer, ReadersGetPaths
<1>5. CASE CloseAll
  BY <1>0, <1>5 DEF CloseAll, ReadersGetPaths
<1>6. ASSUME NEW p \in Procs, Validate(p) \/ CacheDirError(p) PROVE reply' = reply
  BY <1>6 DEF Validate, CacheDirError, Stat, Verify, TakeVerdict, Remove, ClearVerified
<1>7. ASSUME NEW r \in Requests,
             \/ \E b \in Blobs : EnsureHydrated(r, b)
             \/ Register(r) \/ SignalRead(r) \/ Receive(r) \/ GiveUpVerifying(r)
      PROVE  reply' = reply
  BY <1>7 DEF EnsureHydrated, Register, SignalRead, Receive, GiveUpVerifying
<1>8. ASSUME NEW w \in Workers,
             TakeSignal(w) \/ Exit(w) \/ Drained(w) \/ Pop(w) \/ Signal(w) \/ Fetch(w) \/ Hang(w)
      PROVE  reply' = reply
  BY <1>8 DEF TakeSignal, Exit, Drained, Pop, Signal, Fetch, Hang
<1>9. ASSUME \/ \E e \in Prefetchers, tasks \in [Blobs -> 0..(Explicit - 1)] :
                  EnqueueBatch(e, tasks)
             \/ \E e \in Prefetchers : SignalBatch(e)
             \/ \E b \in Blobs, v \in Verdicts : Hash(b, v) \/ Publish(b, v)
             \/ CloseStopCh \/ UNCHANGED vars
      PROVE  reply' = reply
  BY <1>9 DEF EnqueueBatch, SignalBatch, Hash, Publish, CloseStopCh, vars
<1>10. QED
  BY <1>0, <1>1, <1>2, <1>3, <1>4, <1>5, <1>6, <1>7, <1>8, <1>9, NextCases

(* Steps that no reader above the hydrator and no fetch notices.           *)
LEMMA CallFrame ==
  ASSUME \A r \in Readers :
           /\ pc'[r] = "idle" <=> pc[r] = "idle"
           /\ pc'[r] = "done" <=> pc[r] = "done"
           /\ pc[r] = "done" => reply'[r] = reply[r]
  PROVE  Call' = Call
BY DEF Call

LEMMA FetchingFrame ==
  ASSUME \A w \in Workers : /\ pc'[w] \in InFetch <=> pc[w] \in InFetch
                            /\ pc[w] \in InFetch => blob'[w] = blob[w]
  PROVE  Fetching' = Fetching
BY DEF Fetching

LEMMA Unnoticed ==
  ASSUME file' = file,
         \A r \in Readers : /\ pc'[r] = "idle" <=> pc[r] = "idle"
                            /\ pc'[r] = "done" <=> pc[r] = "done"
                            /\ pc[r] = "done" => reply'[r] = reply[r]
                            /\ blob'[r] = blob[r],
         \A w \in Workers : /\ pc'[w] \in InFetch <=> pc[w] \in InFetch
                            /\ pc[w] \in InFetch => blob'[w] = blob[w]
  PROVE  UNCHANGED Promise!vars
<1>1. Call' = Call /\ Fetching' = Fetching
  BY CallFrame, FetchingFrame
<1>2. Want' = Want /\ Cache' = Cache
  BY DEF Want, Cache
<1>3. QED BY <1>1, <1>2 DEF Promise!vars

(* A process moves and keeps its blob and its answer: this is a fetch that *)
(* begins when a worker arrives at a miss, and nothing otherwise.          *)
LEMMA MoveRefines ==
  ASSUME TypeOK, OneWorkerPerBlob, NEW p \in Procs, NEW from, NEW to, Goto(p, from, to),
         from \notin {"idle", "done"}, to \notin {"idle", "done"},
         p \in Workers => from \notin InFetch /\ to # "hung",
         to = "miss" => from \in Validating,
         UNCHANGED <<file, blob, reply>>
  PROVE  Promise!Next \/ UNCHANGED Promise!vars
<1>1. /\ pc[p] = from /\ pc'[p] = to
      /\ \A q \in Procs \ {p} : pc'[q] = pc[q]
  BY GotoOthers
<1>2. Readers \subseteq Procs /\ Workers \subseteq Procs
  BY DEF Procs, Requests
<1>3. CASE p \in Workers /\ to = "miss"
  <2>1. PICK b \in Blobs : b = blob[p]
    BY <1>1, <1>3, WaitingHasBlob
  <2>2. \A r \in Readers : pc'[r] = pc[r]
    BY <1>1, <1>2, <1>3 DEF Requests
  <2>3. Call' = Call
    BY <2>2, CallFrame
  <2>4. Want' = Want /\ Cache' = Cache
    BY DEF Want, Cache
  <2>5. b \notin Fetching
    <3>1. ASSUME NEW w \in Workers, pc[w] \in InFetch PROVE blob[w] # b
      BY <1>1, <1>3, <2>1, <3>1 DEF OneWorkerPerBlob, Processing, Validating, InFetch
    <3>2. QED BY <3>1 DEF Fetching
  <2>6. Fetching' = Fetching \cup {b}
    BY <1>1, <1>2, <1>3, <2>1 DEF Fetching, InFetch
  <2>7. Promise!BeginFetch(b)
    BY <2>3, <2>4, <2>5, <2>6 DEF Promise!BeginFetch
  <2>8. QED BY <2>7 DEF Promise!Next
<1>4. CASE ~(p \in Workers /\ to = "miss")
  <2>1. \A r \in Readers : /\ pc'[r] = "idle" <=> pc[r] = "idle"
                           /\ pc'[r] = "done" <=> pc[r] = "done"
    BY <1>1, <1>2
  <2>2. \A w \in Workers : pc'[w] \in InFetch <=> pc[w] \in InFetch
    BY <1>1, <1>2, <1>4 DEF InFetch
  <2>3. QED BY <2>1, <2>2, Unnoticed
<1>5. QED BY <1>3, <1>4

(* A reader returns.                                                       *)
LEMMA ReturnRefines ==
  ASSUME TypeOK, NEW r \in Readers, NEW from \in Validating \cup Blocked,
         Goto(r, from, "done"), NEW answer \in {"ok", "err"}, reply'[r] = answer,
         \A q \in Requests \ {r} : reply'[q] = reply[q],
         answer = "ok" => file[blob[r]] \notin Damaged,
         UNCHANGED <<file, blob>>
  PROVE  Promise!Next
<1>1. /\ pc[r] = from /\ pc'[r] = "done" /\ from \notin {"idle", "done"}
      /\ \A q \in Procs \ {r} : pc'[q] = pc[q]
  BY GotoOthers DEF Validating, Blocked, Procs, Requests
<1>2. /\ r \notin Workers /\ r \in Procs
      /\ Readers \subseteq Procs /\ Workers \subseteq Procs /\ Readers \subseteq Requests
  BY DEF Procs, Requests
<1>3. blob[r] \in Blobs
  BY <1>1, <1>2, WaitingHasBlob
<1>4. Call[r] = "pending" /\ Call' = [Call EXCEPT ![r] = answer]
  <2>1. \A q \in Readers \ {r} : pc'[q] = pc[q] /\ reply'[q] = reply[q]
    BY <1>1, <1>2
  <2>2. QED BY <1>1, <2>1 DEF Call
<1>5. Want' = Want /\ Cache' = Cache
  BY DEF Want, Cache
<1>6. Fetching' = Fetching
  BY <1>1, <1>2, FetchingFrame
<1>7. answer = "ok" => Cache[Want[r]] # "damaged"
  <2>1. Want[r] = blob[r] /\ file[blob[r]] \in FileState
    BY <1>3 DEF Want, TypeOK
  <2>2. file[blob[r]] \notin Damaged => Cache[blob[r]] # "damaged"
    BY <1>3, <2>1 DEF Cache, FileState
  <2>3. QED BY <2>1, <2>2
<1>8. Promise!Return(r, answer)
  BY <1>4, <1>5, <1>6, <1>7 DEF Promise!Return
<1>9. QED BY <1>8 DEF Promise!Next

(* A file goes.                                                            *)
LEMMA RemoveRefines ==
  ASSUME TypeOK, NEW p \in Procs, Remove(p)
  PROVE  Promise!Next
<1>1. PICK b \in Blobs : b = blob[p]
  BY WaitingHasBlob DEF Remove, Goto, Validating
<1>2. /\ pc[p] = "remove" /\ pc'[p] = "clear"
      /\ \A q \in Procs \ {p} : pc'[q] = pc[q]
  BY GotoOthers DEF Remove
<1>3. Readers \subseteq Procs /\ Workers \subseteq Procs
  BY DEF Procs, Requests
<1>4. reply' = reply /\ blob' = blob /\ file' = [file EXCEPT ![b] = "absent"]
  BY <1>1 DEF Remove
<1>5. Call' = Call /\ Fetching' = Fetching
  BY <1>2, <1>3, <1>4, CallFrame, FetchingFrame DEF InFetch
<1>6. Want' = Want
  BY <1>4 DEF Want
<1>7. Cache' = [Cache EXCEPT ![b] = "absent"]
  BY <1>4 DEF Cache, Damaged, TypeOK
<1>8. Promise!Discard(b)
  BY <1>5, <1>6, <1>7 DEF Promise!Discard
<1>9. QED BY <1>8 DEF Promise!Next

(* A fetch ends, with the file or without.                                 *)
LEMMA FetchRefines ==
  ASSUME TypeOK, OneWorkerPerBlob, NEW w \in Workers, Fetch(w)
  PROVE  Promise!Next
<1>1. w \in Procs /\ Workers \subseteq Procs /\ Readers \subseteq Procs /\ w \notin Readers
  BY DEF Procs, Requests
<1>2. PICK b \in Blobs : b = blob[w]
  BY <1>1, WaitingHasBlob DEF Fetch, Goto, Validating
<1>3. PICK to \in {"fetched", "verr"} : Goto(w, "miss", to)
  BY DEF Fetch
<1>4. /\ pc[w] = "miss" /\ pc'[w] \notin InFetch
      /\ \A q \in Procs \ {w} : pc'[q] = pc[q]
  BY <1>1, <1>3, GotoOthers DEF InFetch
<1>5. reply' = reply /\ blob' = blob
  BY DEF Fetch
<1>6. Call' = Call
  BY <1>1, <1>4, <1>5, CallFrame
<1>7. Want' = Want
  BY <1>5 DEF Want
<1>8. Cache' = [Cache EXCEPT ![b] = "good"] \/ Cache' = Cache
  BY <1>2 DEF Fetch, Cache, Damaged, TypeOK
<1>9. ASSUME NEW v \in Workers, v # w, pc[v] \in InFetch PROVE blob[v] # b
  BY <1>2, <1>4, <1>9 DEF OneWorkerPerBlob, Processing, Validating, InFetch
<1>10. b \in Fetching /\ Fetching' = Fetching \ {b}
  BY <1>1, <1>2, <1>4, <1>5, <1>9 DEF Fetching, InFetch
<1>11. Promise!EndFetch(b)
  BY <1>6, <1>7, <1>8, <1>10 DEF Promise!EndFetch
<1>12. QED BY <1>11 DEF Promise!Next

(* A reader calls.                                                         *)
LEMMA CallRefines ==
  ASSUME TypeOK, NEW r \in Readers, NEW b \in Blobs, EnsureHydrated(r, b)
  PROVE  Promise!Next
<1>1. /\ r \in Procs /\ r \notin Workers
      /\ Workers \subseteq Procs /\ Readers \subseteq Procs
  BY DEF Procs, Requests
<1>2. /\ pc[r] = "idle" /\ pc'[r] \in {"await", "stat"}
      /\ \A q \in Procs \ {r} : pc'[q] = pc[q]
  BY <1>1, GotoOthers DEF EnsureHydrated
<1>3. reply' = reply /\ file' = file /\ blob' = [blob EXCEPT ![r] = b]
  BY DEF EnsureHydrated
<1>4. blob'[r] = b /\ \A q \in Procs \ {r} : blob'[q] = blob[q]
  BY <1>1, <1>3 DEF TypeOK
<1>5. Call[r] = "idle" /\ Call' = [Call EXCEPT ![r] = "pending"]
  BY <1>1, <1>2, <1>3 DEF Call
<1>6. Want' = [Want EXCEPT ![r] = b]
  BY <1>1, <1>4 DEF Want
<1>7. Cache' = Cache
  BY <1>3 DEF Cache
<1>8. Fetching' = Fetching
  BY <1>1, <1>2, <1>4, FetchingFrame
<1>9. Promise!Call(r, b)
  BY <1>5, <1>6, <1>7, <1>8 DEF Promise!Call
<1>10. QED BY <1>9 DEF Promise!Next

LEMMA PromiseStep ==
  ASSUME TypeOK, OneWorkerPerBlob, ReadersRegistered, NoDamagedBlobServed, OnlyIntact,
         ReadersGetPaths, [Next]_vars
  PROVE  Promise!Next \/ UNCHANGED Promise!vars
<1> USE DEF queueVars, verifyVars, procVars
<1>0. /\ Readers \subseteq Procs /\ Requests \subseteq Procs /\ Workers \subseteq Procs
      /\ Readers \subseteq Requests /\ Peekers \subseteq Requests
      /\ Readers \cap Workers = {} /\ Readers \cap Peekers = {} /\ Requests \cap Workers = {}
  BY DEF Procs, Requests
<1>1. ASSUME NEW p \in Procs, Validate(p) \/ CacheDirError(p)
      PROVE  Promise!Next \/ UNCHANGED Promise!vars
  <2>1. CASE Remove(p)
    BY <2>1, RemoveRefines
  <2>2. CASE Stat(p) \/ Verify(p) \/ TakeVerdict(p) \/ ClearVerified(p) \/ CacheDirError(p)
    <3>1. \E from \in Validating \ {"miss"}, to \in Validating : Goto(p, from, to)
      BY <2>2 DEF Stat, Verify, TakeVerdict, ClearVerified, CacheDirError, Validating
    <3>2. UNCHANGED <<file, blob, reply>>
      BY <2>2 DEF Stat, Verify, TakeVerdict, ClearVerified, CacheDirError
    <3>3. /\ {"idle", "done", "hung"} \cap Validating = {}
          /\ InFetch \cap (Validating \ {"miss"}) = {}
      BY DEF Validating, InFetch
    <3>4. QED BY <3>1, <3>2, <3>3, MoveRefines
  <2>3. QED BY <1>1, <2>1, <2>2 DEF Validate
<1>2. ASSUME NEW r \in Requests, Register(r) \/ SignalRead(r) \/ GiveUpVerifying(r)
      PROVE  Promise!Next \/ UNCHANGED Promise!vars
  <2>1. \E from \in {"miss", "signal", "vwait"}, to \in {"signal", "await", "verr"} :
          Goto(r, from, to)
    BY <1>2 DEF Register, SignalRead, GiveUpVerifying
  <2>2. UNCHANGED <<file, blob, reply>>
    BY <1>2 DEF Register, SignalRead, GiveUpVerifying
  <2>3. QED BY <1>0, <2>1, <2>2, MoveRefines DEF InFetch
<1>3. ASSUME NEW w \in Workers, TakeSignal(w) \/ Exit(w) \/ Drained(w) \/ Signal(w)
      PROVE  Promise!Next \/ UNCHANGED Promise!vars
  <2>1. \E from \in {"select", "pop", "more", "again"},
           to \in {"pop", "exited", "select", "stat"} : Goto(w, from, to)
    BY <1>3 DEF TakeSignal, Exit, Drained, Signal
  <2>2. UNCHANGED <<file, blob, reply>>
    BY <1>3 DEF TakeSignal, Exit, Drained, Signal
  <2>3. QED BY <1>0, <2>1, <2>2, MoveRefines DEF InFetch
<1>4. ASSUME NEW r \in Readers, Receive(r) PROVE Promise!Next
  <2>1. reply[r] \in {"ok", "err"} /\ Goto(r, "await", "done")
    BY <1>0, <1>4 DEF Receive, ReadersGetPaths, TypeOK
  <2>2. UNCHANGED <<file, blob, reply>>
    BY <1>4 DEF Receive
  <2>3. reply[r] = "ok" => file[blob[r]] \notin Damaged
    BY <1>0 DEF NoDamagedBlobServed
  <2>4. "await" \in Validating \cup Blocked
    BY DEF Blocked
  <2>5. QED BY <2>1, <2>2, <2>3, <2>4, ReturnRefines
<1>5. ASSUME NEW r \in Readers, NEW at \in {"hit", "verr", "await"},
             NEW answer \in {"ok", "err"}, Goto(r, at, "done"),
             reply' = [reply EXCEPT ![r] = answer], answer = "ok" => at = "hit",
             UNCHANGED <<file, blob>>
      PROVE  Promise!Next
  <2>1. at \in Validating \cup Blocked /\ pc[r] = at
    BY <1>0, <1>5, GotoOthers DEF Validating, Blocked
  <2>2. reply'[r] = answer /\ \A q \in Requests \ {r} : reply'[q] = reply[q]
    BY <1>0, <1>5 DEF TypeOK
  <2>3. answer = "ok" => file[blob[r]] \notin Damaged
    BY <1>0, <1>5, <2>1 DEF OnlyIntact, Intact
  <2>4. QED BY <1>5, <2>1, <2>2, <2>3, ReturnRefines
<1>6. ASSUME NEW r \in Readers, GiveUp(r) \/ Finish(r, "hit", "ok") \/ Finish(r, "verr", "err")
      PROVE  Promise!Next
  BY <1>5, <1>6 DEF GiveUp, Finish
<1>7. ASSUME NEW r \in Peekers,
             \/ \E b \in Blobs : ReadBlob(r, b)
             \/ ReadCachedBlob(r) \/ Finish(r, "miss", "direct") \/ Finish(r, "verr", "err")
      PROVE  UNCHANGED Promise!vars
  <2>1. \E from, to : Goto(r, from, to)
    BY <1>7 DEF ReadBlob, ReadCachedBlob, Finish
  <2>2. \A q \in Procs \ {r} : pc'[q] = pc[q]
    BY <1>0, <2>1, GotoOthers
  <2>3. \A q \in Procs \ {r} : blob'[q] = blob[q]
    BY <1>7 DEF ReadBlob, ReadCachedBlob, Finish, TypeOK
  <2>4. \A q \in Requests \ {r} : reply'[q] = reply[q]
    BY <1>7 DEF ReadBlob, ReadCachedBlob, Finish, TypeOK
  <2>5. file' = file
    BY <1>7 DEF ReadBlob, ReadCachedBlob, Finish
  <2>6. QED BY <1>0, <2>2, <2>3, <2>4, <2>5, Unnoticed
<1>8. ASSUME NEW w \in Workers, Pop(w) PROVE UNCHANGED Promise!vars
  <2>1. \E to \in {"again", "stat", "more"} : Goto(w, "pop", to)
    BY <1>8 DEF Pop
  <2>2. /\ pc[w] \notin InFetch /\ pc'[w] \notin InFetch
        /\ \A q \in Procs \ {w} : pc'[q] = pc[q]
    BY <1>0, <2>1, GotoOthers DEF InFetch
  <2>3. \A q \in Procs \ {w} : blob'[q] = blob[q]
    BY <1>8 DEF Pop, TypeOK
  <2>4. file' = file /\ reply' = reply
    BY <1>8 DEF Pop
  <2>5. QED BY <1>0, <2>2, <2>3, <2>4, Unnoticed
<1>9. ASSUME NEW w \in Workers, NEW at \in {"hit", "fetched", "verr"}, NEW answer,
             Answer(w, at, answer)
      PROVE  UNCHANGED Promise!vars
  <2>1. /\ pc[w] = at /\ pc'[w] = "again"
        /\ \A q \in Procs \ {w} : pc'[q] = pc[q]
    BY <1>0, <1>9, GotoOthers DEF Answer
  <2>2. blob[w] \in Blobs
    BY <1>0, <2>1 DEF TypeOK, Engaged, Processing, Validating
  <2>3. \A q \in Procs \ {w} : blob'[q] = blob[q]
    BY <1>9 DEF Answer, TypeOK
  <2>4. \A r \in Readers : pc[r] = "done" => reply'[r] = reply[r]
    BY <1>0, <1>9, <2>2 DEF Answer, ReadersRegistered, Blocked
  <2>5. file' = file
    BY <1>9 DEF Answer
  <2>6. QED BY <1>0, <2>1, <2>3, <2>4, <2>5, Unnoticed DEF InFetch
<1>10. CASE CloseAll
  <2>1. UNCHANGED <<pc, blob, file>>
    BY <1>10 DEF CloseAll
  <2>2. \A r \in Readers : pc[r] = "done" => reply'[r] = reply[r]
    BY <1>0, <1>10 DEF CloseAll, ReadersRegistered, Blocked
  <2>3. QED BY <2>1, <2>2, Unnoticed
<1>11. CASE \/ \E e \in Prefetchers, tasks \in [Blobs -> 0..(Explicit - 1)] :
                 EnqueueBatch(e, tasks)
            \/ \E e \in Prefetchers : SignalBatch(e)
            \/ \E b \in Blobs, v \in Verdicts : Hash(b, v) \/ Publish(b, v)
            \/ CloseStopCh \/ UNCHANGED vars
  <2>1. UNCHANGED <<pc, blob, file, reply>>
    BY <1>11 DEF EnqueueBatch, SignalBatch, Hash, Publish, CloseStopCh, vars
  <2>2. QED BY <2>1, Unnoticed
<1>12. ASSUME NEW w \in Workers, Hang(w) PROVE UNCHANGED Promise!vars
  <2>1. /\ pc[w] \in InFetch /\ pc'[w] \in InFetch
        /\ \A q \in Procs \ {w} : pc'[q] = pc[q]
    BY <1>0, <1>12, GotoOthers DEF Hang, InFetch
  <2>2. UNCHANGED <<file, blob, reply>>
    BY <1>12 DEF Hang
  <2>3. QED BY <1>0, <2>1, <2>2, Unnoticed
<1>13. QED
  BY <1>0, <1>1, <1>2, <1>3, <1>4, <1>6, <1>7, <1>8, <1>9, <1>10, <1>11,
     <1>12, FetchRefines, CallRefines, NextCases

(* The queue, the workers and the verifications together do what callers   *)
(* are promised: a read returns an intact cached blob or an error, one     *)
(* fetch of a blob runs at a time, and only a fetch fills the cache.       *)
THEOREM HydratorKeepsPromise == Spec => KeepsPromise
<1>1. Init => Promise!Init
  <2> SUFFICES ASSUME Init PROVE Promise!Init
    OBVIOUS
  <2>1. Readers \subseteq Procs /\ Readers \cap Workers = {} /\ Workers \subseteq Procs
    BY DEF Procs, Requests
  <2>2. Call = [r \in Readers |-> "idle"] /\ Want = [r \in Readers |-> NoBlob]
    BY <2>1 DEF Init, Call, Want
  <2>3. Fetching = {}
    BY <2>1 DEF Init, Fetching, InFetch
  <2>4. Cache \in [Blobs -> {"absent", "good", "damaged"}]
    BY DEF Init, Cache, Damaged, FileState
  <2>5. QED BY <2>2, <2>3, <2>4 DEF Promise!Init
<1>2. Init => ReadersGetPaths
  BY DEF Init, ReadersGetPaths, Requests
<1>3. Spec => []ReadersGetPaths
  BY <1>2, PathsStep, TypeCorrect, PTL DEF Spec
<1>4. TypeOK /\ OneWorkerPerBlob /\ ReadersRegistered /\ NoDamagedBlobServed /\ OnlyIntact
        /\ ReadersGetPaths /\ [Next]_vars => [Promise!Next]_Promise!vars
  BY PromiseStep
<1>5. QED
  BY <1>1, <1>3, <1>4, TypeCorrect, SingleFetch, ReadersInvariant, ServedIntact,
     IntactInvariant, PTL DEF Spec, KeepsPromise, Promise!Spec
=============================================================================
