----------------------------- MODULE BatchPool -----------------------------
(***************************************************************************)
(* How the git store reads blobs: a pool of `git cat-file --batch`         *)
(* processes, each used by one call at a time; BlobToCache, which streams  *)
(* a blob into a temporary file of the cache and renames it; ReadBlob,     *)
(* which reads a small blob into memory; SetBatchPoolSize and Close.       *)
(*                                                                         *)
(* An answer of git is a header and Chunks pieces of content, the last with*)
(* the line feed after it; or the line "missing".  What nobody has read is *)
(* in out: PipeCap tokens of it fit into the pipe, and git is blocked while*)
(* there are more.  The reader tells a header, a missing line and content  *)
(* apart but does not check which object they are of.                      *)
(***************************************************************************)
EXTENDS Naturals, Sequences, FiniteSets

CONSTANTS
  Fetchers,   \* calls of BlobToCache: workers of the runtimes' hydrators
  Peekers,    \* calls of ReadBlob: readlink operations
  Blobs, None,
  Large,      \* the blobs that are longer than ReadBlob's maxBytes
  Procs,      \* slots for processes, one for each call
  PoolSizes,  \* arguments of SetBatchPoolSize
  Chunks, PipeCap,
  MaxFaults   \* bound on what goes wrong outside the store

ASSUME BatchPoolAssumption ==
  /\ Fetchers \cap Peekers = {}
  /\ None \notin Blobs \cup Procs
  /\ Large \subseteq Blobs
  /\ PoolSizes \subseteq Nat \ {0}
  /\ Chunks \in Nat \ {0} /\ PipeCap \in Nat /\ MaxFaults \in Nat
  /\ IsFiniteSet(Fetchers) /\ IsFiniteSet(Peekers) /\ IsFiniteSet(Procs)
  /\ Cardinality(Fetchers \cup Peekers) <= Cardinality(Procs)

Calls == Fetchers \cup Peekers

VARIABLES
  free,     \* batchPool.free
  maxSize,  \* batchPool.maxSize
  closed,   \* Close has dropped the pool from Store.pools
  proc,     \* the processes
  call,     \* the calls
  tmp, dst, \* per blob, the content under the temporary and the final name
  crossed,  \* history: blobs whose temporary file was truncated under a fetch
  faults    \* how many of the outside failures have happened

pool  == <<free, maxSize, closed>>
files == <<tmp, dst, crossed>>
vars  == <<pool, proc, call, files, faults>>

Tokens == {"head", "missing", "data"} \X Blobs

NoFile == <<None>>
NoProc == [life |-> "none", ask |-> None, out |-> <<>>]
NoCall == [pc |-> "idle", blob |-> None, proc |-> None, try |-> 1, ctx |-> "live",
           file |-> "none", pos |-> 0, got |-> {}]

(* A goroutine talks to the process; the caller waits for it or for ctx.   *)
Talking == {"header", "create", "copy", "rename", "remove", "tooLarge", "ok", "failed"}

(* Types of the state.  An open file has the temporary name, the final one *)
(* or none any more.                                                       *)
TypeOK ==
  /\ free \in Seq(Procs) /\ maxSize \in PoolSizes /\ closed \in BOOLEAN
  /\ proc \in [Procs -> [life : {"none", "up", "dead"},
                         ask : Blobs \cup {None}, out : Seq(Tokens)]]
  /\ call \in [Calls -> [pc : Talking \cup {"idle", "acquire", "wait"},
                         blob : Blobs \cup {None}, proc : Procs \cup {None},
                         try : {1, 2}, ctx : {"live", "done", "killed"},
                         file : {"none", "tmp", "dst", "unlinked"},
                         pos : 0..Chunks, got : SUBSET Blobs]]
  /\ tmp \in [Blobs -> Seq(Blobs \cup {None})] /\ dst \in [Blobs -> Seq(Blobs \cup {None})]
  /\ crossed \subseteq Blobs /\ faults \in 0..MaxFaults

(* The cache may hold the temporary file of a fetch that a crash cut short. *)
Init ==
  /\ free = <<>> /\ maxSize \in PoolSizes /\ closed = FALSE
  /\ proc = [p \in Procs |-> NoProc]
  /\ call = [c \in Calls |-> NoCall]
  /\ \E cut \in SUBSET Blobs : tmp = [b \in Blobs |-> IF b \in cut THEN <<b>> ELSE NoFile]
  /\ dst = [b \in Blobs |-> NoFile]
  /\ crossed = {} /\ faults = 0

Fault == faults < MaxFaults /\ faults' = faults + 1
At(c, l) == call[c].pc = l
Goto(c, l) == call' = [call EXCEPT ![c].pc = l]

-----------------------------------------------------------------------------
(* The processes.                                                          *)

Answer(b) == <<<<"head", b>>>> \o [i \in 1..Chunks |-> <<"data", b>>]

GitAnswer(p) ==
  /\ proc[p].life = "up" /\ proc[p].ask # None
  /\ \/ /\ proc' = [proc EXCEPT ![p].ask = None, ![p].out = @ \o Answer(proc[p].ask)]
        /\ UNCHANGED faults
     \/ /\ proc' = [proc EXCEPT ![p].ask = None, ![p].out = Append(@, <<"missing", proc[p].ask>>)]
        /\ Fault
  /\ UNCHANGED <<pool, call, files>>

(* Some of the output has reached the reader when a process ends.          *)
Ended(p) ==
  {[proc EXCEPT ![p] = [life |-> "dead", ask |-> None, out |-> SubSeq(@.out, 1, n)]] :
     n \in 0..Len(proc[p].out)}

GitDies(p) ==
  /\ proc[p].life = "up"
  /\ Fault
  /\ proc' \in Ended(p)
  /\ UNCHANGED <<pool, call, files>>

(* At the end of its input a process exits, unless it is blocked.          *)
Exits(p) ==
  proc[p].life = "dead" \/ (proc[p].ask = None /\ Len(proc[p].out) <= PipeCap)

-----------------------------------------------------------------------------
(* BlobToCache and ReadBlob.                                               *)

(* Within a hydrator one worker fetches a blob; a second hydrator of the   *)
(* same repository is started when the first has cancelled its fetches, and*)
(* the store is closed after all of them.                                  *)
Begin(c, b) ==
  /\ At(c, "idle") /\ ~closed
  /\ c \in Fetchers => \A d \in Fetchers : call[d].blob = b => call[d].ctx # "live"
  /\ call' = [call EXCEPT ![c] = [NoCall EXCEPT !.pc = "acquire", !.blob = b]]
  /\ UNCHANGED <<pool, proc, files, faults>>

(* acquire, and the request: a process that died in the pool looks alive   *)
(* until the request cannot be written.                                    *)
Acquire(c) ==
  LET p == free[Len(free)] IN
  /\ At(c, "acquire") /\ free # <<>>
  /\ free' = SubSeq(free, 1, Len(free) - 1)
  /\ call' = [call EXCEPT ![c].proc = p,
                          ![c].pc = IF proc[p].life = "up" THEN "header" ELSE "failed"]
  /\ proc' = IF proc[p].life = "up" THEN [proc EXCEPT ![p].ask = call[c].blob] ELSE proc
  /\ UNCHANGED <<maxSize, closed, files, faults>>

Spawn(c) ==
  /\ At(c, "acquire") /\ free = <<>>
  /\ \/ LET p == CHOOSE p \in Procs : proc[p] = NoProc IN
        /\ proc' = [proc EXCEPT ![p] = [life |-> "up", ask |-> call[c].blob, out |-> <<>>]]
        /\ call' = [call EXCEPT ![c].proc = p, ![c].pc = "header"]
        /\ UNCHANGED faults
     \/ /\ Fault
        /\ call' = [call EXCEPT ![c] = NoCall]
        /\ UNCHANGED proc
  /\ UNCHANGED <<pool, files>>

(* What is read next: a token, or the end of the output.                   *)
Unread(c)  == proc[call[c].proc].out
AtEOF(c)   == Unread(c) = <<>> /\ proc[call[c].proc].life = "dead"
Consume(c) == proc' = [proc EXCEPT ![call[c].proc].out = Tail(@)]

ReadHeader(c) ==
  /\ At(c, "header")
  /\ \/ /\ Unread(c) # <<>>
        /\ Consume(c)
        /\ Goto(c, IF Head(Unread(c))[1] # "head" THEN "failed"
                   ELSE IF c \in Fetchers THEN "create"
                   ELSE IF Head(Unread(c))[2] \in Large THEN "tooLarge" ELSE "copy")
     \/ AtEOF(c) /\ Goto(c, "failed") /\ UNCHANGED proc
  /\ UNCHANGED <<pool, files, faults>>

(* os.Create truncates the file that has the name.  When it fails, the     *)
(* content is read and thrown away.                                        *)
Create(c) ==
  LET b == call[c].blob IN
  /\ At(c, "create")
  /\ \/ /\ tmp' = [tmp EXCEPT ![b] = <<>>]
        /\ call' = [call EXCEPT ![c].pc = "copy", ![c].file = "tmp"]
        /\ crossed' = IF \E d \in Calls : call[d].blob = b /\ call[d].file = "tmp"
                         THEN crossed \cup {b} ELSE crossed
        /\ UNCHANGED <<proc, faults>>
     \/ /\ Fault
        /\ Goto(c, "failed")
        /\ proc' = [proc EXCEPT ![call[c].proc].out = <<>>]
        /\ UNCHANGED <<tmp, crossed>>
  /\ UNCHANGED <<pool, dst>>

(* Writing beyond the end of a file leaves a hole.                         *)
WriteAt(s, n, b) == [i \in 1..(IF Len(s) > n THEN Len(s) ELSE n) |->
                       IF i = n THEN b ELSE IF i <= Len(s) THEN s[i] ELSE None]

(* Mutant of ShortRead: the end of the output is the end of the blob.      *)
ShortReadUnnoticed(c) == Goto(c, IF c \in Fetchers THEN "rename" ELSE "failed")

ShortRead(c) == Goto(c, IF c \in Fetchers THEN "remove" ELSE "failed")

(* A piece of content is read, and by BlobToCache written; either may fail.*)
Copy(c) ==
  LET n == call[c].pos + 1
      b == Head(Unread(c))[2]
      WriteIf(f, file) == IF call[c].file = f
                            THEN [file EXCEPT ![call[c].blob] = WriteAt(@, n, b)] ELSE file
  IN
  /\ At(c, "copy")
  /\ \/ /\ Unread(c) # <<>>
        /\ Consume(c)
        /\ \/ /\ call' = [call EXCEPT ![c].pos = n, ![c].got = @ \cup {b},
                            ![c].pc = IF n < Chunks THEN "copy"
                                      ELSE IF c \in Fetchers THEN "rename" ELSE "ok"]
              /\ tmp' = WriteIf("tmp", tmp) /\ dst' = WriteIf("dst", dst)
              /\ UNCHANGED faults
           \/ /\ c \in Fetchers
              /\ Fault
              /\ Goto(c, "remove")
              /\ UNCHANGED <<tmp, dst>>
     \/ /\ AtEOF(c)
        /\ ShortRead(c)
        /\ UNCHANGED <<proc, tmp, dst, faults>>
  /\ UNCHANGED <<pool, crossed>>

(* The calls after c's temporary name, and what it names, was moved or     *)
(* removed: the files that others have open keep their content.            *)
Relinked(c, to, pc) ==
  [d \in Calls |->
     CASE d = c -> [call[c] EXCEPT !.pc = pc, !.file = "none"]
       [] d # c /\ call[d].blob = call[c].blob /\ call[d].file = "tmp" -> [call[d] EXCEPT !.file = to]
       [] d # c /\ call[d].blob = call[c].blob /\ call[d].file = "dst" /\ to = "dst"
            -> [call[d] EXCEPT !.file = "unlinked"]
       [] OTHER -> call[d]]

Rename(c) ==
  LET b == call[c].blob IN
  /\ At(c, "rename")
  /\ IF tmp[b] # NoFile
       THEN /\ dst' = [dst EXCEPT ![b] = tmp[b]] /\ tmp' = [tmp EXCEPT ![b] = NoFile]
            /\ call' = Relinked(c, "dst", "ok")
       ELSE Goto(c, "remove") /\ UNCHANGED <<tmp, dst>>
  /\ UNCHANGED <<pool, proc, crossed, faults>>

Remove(c) ==
  /\ At(c, "remove")
  /\ tmp' = [tmp EXCEPT ![call[c].blob] = NoFile]
  /\ call' = Relinked(c, "unlinked", "failed")
  /\ UNCHANGED <<pool, proc, dst, crossed, faults>>

-----------------------------------------------------------------------------
(* The end of a try.                                                       *)

(* Mutant of Release: the pool keeps every process.                        *)
ReleaseAll(c) ==
  /\ At(c, "ok") /\ call[c].ctx # "killed"
  /\ call' = [call EXCEPT ![c] = NoCall]
  /\ free' = Append(free, call[c].proc)
  /\ UNCHANGED <<maxSize, closed, proc, files, faults>>

(* release: a process beyond the pool's size is closed.                    *)
Release(c) ==
  /\ At(c, "ok") /\ call[c].ctx # "killed"
  /\ call' = [call EXCEPT ![c] = NoCall]
  /\ IF Len(free) < maxSize
       THEN free' = Append(free, call[c].proc) /\ UNCHANGED proc
       ELSE proc' = [proc EXCEPT ![call[c].proc] = NoProc] /\ UNCHANGED free
  /\ UNCHANGED <<maxSize, closed, files, faults>>

(* close ends the input of the process and waits for its exit.             *)
Close(c) ==
  /\ At(c, "failed") /\ call[c].ctx # "killed"
  /\ Goto(c, "wait")
  /\ UNCHANGED <<pool, proc, files, faults>>

(* Mutant of AfterTry: it tries again until it succeeds.                   *)
TryForever(c) ==
  [NoCall EXCEPT !.pc = "acquire", !.blob = call[c].blob, !.try = call[c].try + 1, !.ctx = call[c].ctx]

(* What BlobToCache and ReadBlob do when a try has failed.                 *)
AfterTry(c) ==
  IF call[c].try = 1
    THEN [NoCall EXCEPT !.pc = "acquire", !.blob = call[c].blob, !.try = 2, !.ctx = call[c].ctx]
    ELSE NoCall

Reap(c) ==
  /\ At(c, "wait") /\ Exits(call[c].proc)
  /\ proc' = [proc EXCEPT ![call[c].proc] = NoProc]
  /\ call' = [call EXCEPT ![c] = AfterTry(c)]
  /\ UNCHANGED <<pool, files, faults>>

(* ReadBlob kills a process with a long answer it will not read.           *)
TooLarge(c) ==
  /\ At(c, "tooLarge")
  /\ proc' = [proc EXCEPT ![call[c].proc] = NoProc]
  /\ call' = [call EXCEPT ![c] = NoCall]
  /\ UNCHANGED <<pool, files, faults>>

(* The context ends: a stopped hydrator, two minutes, an interrupted read. *)
Cancel(c) ==
  /\ call[c].pc # "idle" /\ call[c].ctx = "live"
  /\ call' = [call EXCEPT ![c].ctx = "done"]
  /\ UNCHANGED <<pool, proc, files, faults>>

(* Mutant of Kill: a cancelled ReadBlob gives its process back.            *)
GiveBack(c) ==
  /\ call[c].pc \in Talking /\ call[c].ctx = "done"
  /\ IF c \in Fetchers
       THEN /\ call' = [call EXCEPT ![c].ctx = "killed"]
            /\ proc' \in Ended(call[c].proc)
            /\ UNCHANGED free
       ELSE /\ Len(free) < maxSize
            /\ call' = [call EXCEPT ![c] = NoCall]
            /\ free' = Append(free, call[c].proc)
            /\ UNCHANGED proc
  /\ UNCHANGED <<maxSize, closed, files, faults>>

(* Mutant of Kill: the goroutine is waited for, and its process not killed.*)
AwaitOnly(c) ==
  /\ call[c].pc \in Talking /\ call[c].ctx = "done"
  /\ call' = [call EXCEPT ![c].ctx = "killed"]
  /\ UNCHANGED <<pool, proc, files, faults>>

(* fetchBatchToFile kills the process and waits for its goroutine, which   *)
(* may still find some output in its buffer; readBatchBlob does not wait,  *)
(* and ReadBlob tries again.                                               *)
Kill(c) ==
  /\ call[c].pc \in Talking /\ call[c].ctx = "done"
  /\ IF c \in Fetchers
       THEN /\ call' = [call EXCEPT ![c].ctx = "killed"]
            /\ proc' \in Ended(call[c].proc)
       ELSE /\ call' = [call EXCEPT ![c] = AfterTry(c)]
            /\ proc' = [proc EXCEPT ![call[c].proc] = NoProc]
  /\ UNCHANGED <<pool, files, faults>>

Return(c) ==
  /\ call[c].pc \in {"ok", "failed"} /\ call[c].ctx = "killed"
  /\ proc' = [proc EXCEPT ![call[c].proc] = NoProc]
  /\ call' = [call EXCEPT ![c] = NoCall]
  /\ UNCHANGED <<pool, files, faults>>

-----------------------------------------------------------------------------
(* The store.  Processes in the pool are idle and exit when told to.       *)

Reaped(S) == [p \in Procs |-> IF p \in S THEN NoProc ELSE proc[p]]
Listed(s) == {s[i] : i \in DOMAIN s}

SetBatchPoolSize(n) ==
  /\ n # maxSize /\ ~closed
  /\ maxSize' = n
  /\ free' = SubSeq(free, 1, IF Len(free) > n THEN n ELSE Len(free))
  /\ proc' = Reaped(Listed(free) \ Listed(free'))
  /\ UNCHANGED <<closed, call, files, faults>>

CloseStore ==
  /\ ~closed
  /\ closed' = TRUE
  /\ proc' = Reaped(Listed(free))
  /\ free' = <<>>
  /\ UNCHANGED <<maxSize, call, files, faults>>

-----------------------------------------------------------------------------
Step(c) ==
  \/ Acquire(c) \/ Spawn(c) \/ ReadHeader(c) \/ Create(c) \/ Copy(c)
  \/ Rename(c) \/ Remove(c) \/ Release(c) \/ Close(c) \/ Reap(c) \/ TooLarge(c)
  \/ Kill(c) \/ Return(c)

Git(p) == GitAnswer(p) \/ GitDies(p)

Next ==
  \/ \E c \in Calls : Step(c) \/ Cancel(c) \/ \E b \in Blobs : Begin(c, b)
  \/ \E p \in Procs : Git(p)
  \/ \E n \in PoolSizes : SetBatchPoolSize(n)
  \/ CloseStore

Spec == Init /\ [][Next]_vars

(* Goroutines run, and a fetch has two minutes.  git need not answer: the  *)
(* remote it asks may hang.                                                *)
Fairness ==
  /\ \A c \in Calls : WF_vars(Step(c))
  /\ \A c \in Fetchers : WF_vars(Cancel(c))

FairSpec == Spec /\ Fairness

-----------------------------------------------------------------------------
(* Properties.                                                             *)

Holders(p) == {c \in Calls : call[c].proc = p}
Slots(p)   == {i \in DOMAIN free : free[i] = p}

(* "Callers must ensure exclusive access (the batchPool handles this)": a  *)
(* process that exists is in the pool once or with one call, so that no two*)
(* calls read one pipe and no process is lost; and the pool keeps no more  *)
(* than its size, whatever SetBatchPoolSize does to it between a call's    *)
(* acquire and its release.                                                *)
PoolSound ==
  /\ \A p \in Procs : Cardinality(Holders(p)) + Cardinality(Slots(p)) =
                        IF proc[p].life = "none" THEN 0 ELSE 1
  /\ Len(free) <= maxSize

(* A call reads the content of its own object.  The reader does not compare*)
(* the header's object with the one it asked for: this rests on every      *)
(* process that is given back having nothing left to say (fetchToFile reads*)
(* on to the line feed; what failed or was cancelled is not given back).   *)
AnswersMatch == \A c \in Calls : call[c].got \subseteq {call[c].blob}

Whole(b) == [i \in 1..Chunks |-> b]

(* The file BlobToCache renames into the cache is the whole blob, whatever *)
(* dies or is cancelled on the way and whatever a crash left behind, unless*)
(* another runtime's fetch truncated it while it was written.              *)
CacheFileWhole == \A b \in Blobs : dst[b] = NoFile \/ dst[b] = Whole(b) \/ b \in crossed

(* close waits for a process that is blocked on a pipe nobody reads.       *)
Clogged(c) == At(c, "wait") /\ Len(proc[call[c].proc].out) > PipeCap

(* A fetch ends, even when git never answers: its context kills the process*)
(* and the goroutine that talks to it sees the end of the output.  The one *)
(* exception is a fetch that could not write the file and closes a process *)
(* that is still sending.                                                  *)
EveryFetchReturns == \A c \in Fetchers : call[c].pc # "idle" ~> call[c].pc = "idle" \/ Clogged(c)
=============================================================================
