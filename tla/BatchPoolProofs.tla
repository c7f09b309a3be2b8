-------------------------- MODULE BatchPoolProofs --------------------------
(***************************************************************************)
(* The pool of git processes, for any number of calls, blobs and pool      *)
(* sizes, any length of a blob and any faults: every process has one user, *)
(* a call reads the content of its own object, and what is renamed into the*)
(* cache is whole.                                                         *)
(*                                                                         *)
(* What makes it true is that a process is given back only after the last  *)
(* token of its answer was read.  The invariant counts: a call that has yet*)
(* to read n tokens finds at most n in the pipe, all of its own object, and*)
(* so none when it is done.                                                *)
(***************************************************************************)
EXTENDS BatchPool, FiniteSetTheorems, SequenceTheorems, TLAPS

ProcType == [life : {"none", "up", "dead"}, ask : Blobs \cup {None}, out : Seq(Tokens)]
CallType == [pc : Talking \cup {"idle", "acquire", "wait"},
             blob : Blobs \cup {None}, proc : Procs \cup {None},
             try : {1, 2}, ctx : {"live", "done", "killed"},
             file : {"none", "tmp", "dst", "unlinked"},
             pos : 0..Chunks, got : SUBSET Blobs]

(* A process is used by one call, or in the pool once, or gone.            *)
Owned ==
  /\ \A c \in Calls : call[c].proc = None <=> call[c].pc \in {"idle", "acquire"}
  /\ \A c, d \in Calls : c # d /\ call[c].proc # None => call[c].proc # call[d].proc
  /\ \A c \in Calls, i \in 1..Len(free) : call[c].proc # free[i]
  /\ \A i, j \in 1..Len(free) : i # j => free[i] # free[j]
  /\ \A p \in Procs : proc[p].life # "none" <=> \/ \E c \in Calls : call[c].proc = p
                                                \/ \E i \in 1..Len(free) : free[i] = p
  /\ \A p \in Procs : proc[p].life = "none" => proc[p] = NoProc
  /\ Len(free) <= maxSize

(* How many tokens a call k has still to read before it is done.           *)
Room(k) == IF k.pc = "header" THEN Chunks + 1
           ELSE IF k.pc = "create" THEN Chunks
           ELSE IF k.pc = "copy" THEN Chunks - k.pos ELSE 0

(* Process q is where call k thinks it is; what a call that has failed     *)
(* leaves unread does not matter.                                          *)
InStep(k, q) ==
  /\ q.ask # None => q.ask = k.blob /\ k.pc = "header" /\ q.out = <<>>
  /\ \A i \in 1..Len(q.out) : q.out[i][2] = k.blob
  /\ k.pc \in {"header", "create", "copy", "rename", "ok"} => Len(q.out) <= Room(k)

Streams ==
  /\ \A i \in 1..Len(free) : proc[free[i]].ask = None /\ proc[free[i]].out = <<>>
  /\ \A p \in Procs : proc[p].life = "dead" => proc[p].ask = None
  /\ \A c \in Calls : call[c].proc # None => InStep(call[c], proc[call[c].proc])

(* What a call has done so far, by the place where it is.                  *)
Progress(k) ==
  /\ k.pc # "idle" => k.blob \in Blobs
  /\ k.got \subseteq {k.blob}
  /\ k.pc \in {"idle", "acquire", "header", "create", "tooLarge"} =>
       k.pos = 0 /\ k.got = {}
  /\ k.pc \notin {"copy", "rename", "remove"} => k.file = "none"

Calling ==
  /\ \A c \in Calls : Progress(call[c])
  /\ \A c \in Peekers : call[c].file = "none" /\ call[c].pc \notin {"create", "rename", "remove"}

Part(b, n) == [i \in 1..n |-> b]

(* A call that has the temporary file open has written what it has read,   *)
(* and is alone; what is in the cache is whole.                            *)
Writing ==
  \A b \in Blobs \ crossed :
    /\ dst[b] \in {NoFile, Whole(b)}
    /\ \A c \in Fetchers : call[c].blob = b =>
         /\ call[c].file # "none" <=> call[c].pc \in {"copy", "rename", "remove"}
         /\ call[c].file \in {"none", "tmp"}
         /\ call[c].pc \in {"copy", "rename"} => tmp[b] = Part(b, call[c].pos)
         /\ call[c].pc = "rename" => call[c].pos = Chunks
    /\ \A c, d \in Fetchers : call[c].blob = b /\ call[d].blob = b /\ c # d =>
         call[c].file = "none" \/ call[d].file = "none"

IInv == TypeOK /\ Owned /\ Streams /\ Calling /\ Writing

-----------------------------------------------------------------------------
(* Sequences of tokens.                                                    *)

LEMMA TailFacts ==
  ASSUME NEW s \in Seq(Tokens), s # <<>>
  PROVE  /\ Head(s) = s[1] /\ Head(s) \in Tokens
         /\ Tail(s) \in Seq(Tokens) /\ Len(s) \in Nat \ {0}
         /\ Len(Tail(s)) = Len(s) - 1
         /\ \A i \in 1..Len(Tail(s)) : Tail(s)[i] = s[i + 1]
  BY HeadTailProperties, LenProperties, EmptySeq

LEMMA PrefixFacts ==
  ASSUME NEW S, NEW s \in Seq(S), NEW n \in 0..Len(s)
  PROVE  /\ SubSeq(s, 1, n) \in Seq(S) /\ Len(SubSeq(s, 1, n)) = n
         /\ \A i \in 1..n : SubSeq(s, 1, n)[i] = s[i]
<1>1. Len(s) \in Nat /\ \A i \in 1..n : s[i] \in S
  BY LenProperties, ElementOfSeq
<1> QED
  BY <1>1, SubSeqProperties

(* The answer of git for an object is a header and the object's content.   *)
LEMMA AnswerFacts ==
  ASSUME NEW b \in Blobs
  PROVE  /\ Answer(b) \in Seq(Tokens) /\ Len(Answer(b)) = Chunks + 1
         /\ \A i \in 1..Len(Answer(b)) : Answer(b)[i][2] = b
<1> DEFINE h == <<<<"head", b>>>>
           t == [i \in 1..Chunks |-> <<"data", b>>]
<1>1. h \in Seq(Tokens) /\ Len(h) = 1 /\ h[1] = <<"head", b>>
  BY DEF Tokens
<1>2. t \in Seq(Tokens) /\ Len(t) = Chunks /\ \A i \in 1..Chunks : t[i] = <<"data", b>>
  BY BatchPoolAssumption DEF Tokens
<1>3. Answer(b) = h \o t
  BY DEF Answer
<1> HIDE DEF h, t
<1>4. /\ h \o t \in Seq(Tokens) /\ Len(h \o t) = Chunks + 1
      /\ \A i \in 1..Chunks + 1 : (h \o t)[i] = IF i <= 1 THEN h[i] ELSE t[i - 1]
  <2>1. /\ h \o t \in Seq(Tokens) /\ Len(h \o t) = Len(h) + Len(t)
        /\ \A i \in 1..Len(h) + Len(t) :
             (h \o t)[i] = IF i <= Len(h) THEN h[i] ELSE t[i - Len(h)]
    BY <1>1, <1>2, ConcatProperties
  <2>2. Len(h) + Len(t) = Chunks + 1
    BY <1>1, <1>2, BatchPoolAssumption
  <2> QED
    BY <1>1, <2>1, <2>2
<1>5. ASSUME NEW i \in 1..Chunks + 1 PROVE (h \o t)[i][2] = b
  <2>1. CASE i = 1
    BY <1>1, <1>4, <2>1
  <2>2. CASE i # 1
    <3>1. i - 1 \in 1..Chunks /\ ~(i <= 1)
      BY <2>2, BatchPoolAssumption
    <3>2. (h \o t)[i] = t[i - 1]
      BY <1>4, <3>1
    <3> QED
      BY <1>2, <3>1, <3>2
  <2> QED
    BY <2>1, <2>2
<1> QED
  BY <1>3, <1>4, <1>5

-----------------------------------------------------------------------------
(* Steps of a call that has a process.                                     *)

(* What a call does to another one: it may move the file under it.         *)
Kept(d) ==
  /\ call'[d].pc = call[d].pc /\ call'[d].blob = call[d].blob /\ call'[d].proc = call[d].proc
  /\ call'[d].pos = call[d].pos /\ call'[d].got = call[d].got
  /\ call[d].file = "none" => call'[d].file = "none"

(* A call goes on with its process.                                        *)
LEMMA Advance ==
  ASSUME IInv, NEW c \in Calls, NEW p \in Procs, call[c].proc = p,
         call' \in [Calls -> CallType], proc' \in [Procs -> ProcType], UNCHANGED pool,
         \A d \in Calls \ {c} : Kept(d), \A s \in Procs \ {p} : proc'[s] = proc[s],
         call'[c].proc = p, call'[c].pc \notin {"idle", "acquire"},
         proc'[p].life # "none", proc'[p].life = "dead" => proc'[p].ask = None,
         InStep(call'[c], proc'[p]), Progress(call'[c]),
         c \in Peekers => call'[c].file = "none" /\ call'[c].pc \notin {"create", "rename", "remove"}
  PROVE  Owned' /\ Streams' /\ Calling'
<1>1. Owned /\ Streams /\ Calling /\ free' = free /\ maxSize' = maxSize
  BY DEF IInv, pool
<1>2. p # None
  BY BatchPoolAssumption
<1>3. \A d \in Calls : call'[d].proc = call[d].proc
  BY DEF Kept
<1>4. \A d \in Calls : call'[d].pc \in {"idle", "acquire"} <=> call[d].pc \in {"idle", "acquire"}
  <2>1. call[c].pc \notin {"idle", "acquire"}
    BY <1>1, <1>2 DEF Owned
  <2> QED
    BY <2>1 DEF Kept
<1>5. \A i \in 1..Len(free) : free[i] \in Procs /\ proc'[free[i]] = proc[free[i]]
  BY <1>1, ElementOfSeq DEF Owned, IInv, TypeOK
<1>6. Owned'
  <2>1. ASSUME NEW s \in Procs
        PROVE  /\ proc'[s].life # "none" <=> proc[s].life # "none"
               /\ proc'[s].life = "none" => proc'[s] = NoProc
    <3>1. CASE s = p
      <4>1. proc[p].life # "none"
        BY <1>1 DEF Owned
      <4> QED
        BY <3>1, <4>1
    <3>2. CASE s # p
      BY <1>1, <3>2 DEF Owned
    <3> QED
      BY <3>1, <3>2
  <2>2. \A d \in Calls : call'[d].proc = None <=> call'[d].pc \in {"idle", "acquire"}
    BY <1>1, <1>3, <1>4 DEF Owned
  <2> QED
    BY <1>1, <1>3, <2>1, <2>2 DEF Owned
<1>7. Streams'
  <2>1. ASSUME NEW d \in Calls, call[d].proc # None, d # c
        PROVE  InStep(call'[d], proc'[call'[d].proc])
    <3>1. call[d].proc \in Procs \ {p}
      BY <1>1, <2>1 DEF Owned, IInv, TypeOK
    <3>2. InStep(call[d], proc[call[d].proc])
      BY <1>1, <2>1 DEF Streams
    <3> QED
      BY <1>3, <2>1, <3>1, <3>2 DEF InStep, Room, Kept
  <2> QED
    BY <1>1, <1>3, <1>5, <2>1 DEF Streams
<1>8. Calling'
  <2>1. ASSUME NEW d \in Calls PROVE Progress(call'[d])
    <3>1. Progress(call[d])
      BY <1>1 DEF Calling
    <3>2. CASE d # c
      BY <3>1, <3>2 DEF Progress, Kept
    <3> QED
      BY <3>2
  <2>2. ASSUME NEW d \in Peekers
        PROVE  call'[d].file = "none" /\ call'[d].pc \notin {"create", "rename", "remove"}
    BY <1>1 DEF Calling, Kept, Calls
  <2> QED
    BY <2>1, <2>2 DEF Calling
<1> QED
  BY <1>6, <1>7, <1>8

(* A call ends, or tries again, and its process is closed.                 *)
LEMMA Finish ==
  ASSUME IInv, NEW c \in Calls, NEW p \in Procs, call[c].proc = p,
         call' \in [Calls -> CallType], UNCHANGED pool,
         \A d \in Calls \ {c} : call'[d] = call[d], proc' = [proc EXCEPT ![p] = NoProc],
         call'[c].proc = None, call'[c].pc \in {"idle", "acquire"},
         call'[c].file = "none", Progress(call'[c])
  PROVE  Owned' /\ Streams' /\ Calling'
<1>1. Owned /\ Streams /\ Calling /\ free' = free /\ maxSize' = maxSize
  BY DEF IInv, pool
<1>2. p # None
  BY BatchPoolAssumption
<1>3. proc'[p] = NoProc /\ \A s \in Procs \ {p} : proc'[s] = proc[s]
  BY DEF IInv, TypeOK
<1>4. \A i \in 1..Len(free) : free[i] \in Procs /\ proc'[free[i]] = proc[free[i]]
  BY <1>1, <1>3, ElementOfSeq DEF Owned, IInv, TypeOK
<1>5. \A d \in Calls \ {c} : call[d].proc # p
  BY <1>1, <1>2 DEF Owned
<1>6. Owned'
  <2>1. \A d \in Calls : call'[d].proc = None <=> call'[d].pc \in {"idle", "acquire"}
    BY <1>1 DEF Owned
  <2>2. ASSUME NEW s \in Procs
        PROVE  /\ proc'[s].life = "none" => proc'[s] = NoProc
               /\ proc'[s].life # "none" <=> \/ \E d \in Calls : call'[d].proc = s
                                             \/ \E i \in 1..Len(free) : free[i] = s
    <3>1. CASE s = p
      <4>1. proc'[s].life = "none"
        BY <1>3, <3>1 DEF NoProc
      <4>2. \A d \in Calls : call'[d].proc # s
        BY <1>2, <1>5, <3>1
      <4>3. \A i \in 1..Len(free) : free[i] # s
        BY <1>1, <3>1 DEF Owned
      <4> QED
        BY <1>3, <3>1, <4>1, <4>2, <4>3
    <3>2. CASE s # p
      <4>1. (\E d \in Calls : call'[d].proc = s) <=> \E d \in Calls : call[d].proc = s
        BY <1>2, <3>2, BatchPoolAssumption
      <4> QED
        BY <1>1, <1>3, <3>2, <4>1 DEF Owned
    <3> QED
      BY <3>1, <3>2
  <2>3. \A d, e \in Calls : d # e /\ call'[d].proc # None => call'[d].proc # call'[e].proc
    BY <1>1 DEF Owned
  <2>4. \A d \in Calls, i \in 1..Len(free) : call'[d].proc # free[i]
    BY <1>1, <1>4, BatchPoolAssumption DEF Owned
  <2> QED
    BY <1>1, <2>1, <2>2, <2>3, <2>4 DEF Owned
<1>7. Streams'
  <2>1. ASSUME NEW d \in Calls, call'[d].proc # None
        PROVE  InStep(call'[d], proc'[call'[d].proc])
    <3>1. d # c /\ call'[d] = call[d] /\ call[d].proc \in Procs \ {p}
      BY <1>5, <2>1 DEF IInv, TypeOK
    <3>2. proc'[call[d].proc] = proc[call[d].proc]
      BY <1>3, <3>1
    <3> QED
      BY <1>1, <2>1, <3>1, <3>2 DEF Streams
  <2> QED
    BY <1>1, <1>3, <1>4, <2>1 DEF Streams, NoProc
<1>8. Calling'
  BY <1>1 DEF Calling, Calls
<1> QED
  BY <1>6, <1>7, <1>8

(* Files are as they were, and no call opens or leaves one.                *)
LEMMA FilesKept ==
  ASSUME IInv, UNCHANGED files, call' \in [Calls -> CallType],
         \A c \in Fetchers :
           /\ call'[c].file = call[c].file
           /\ \/ call'[c].blob = call[c].blob /\ call'[c].pos = call[c].pos /\ call'[c].pc = call[c].pc
              \/ call[c].file = "none" /\ call'[c].pc \notin {"copy", "rename", "remove"}
              \/ /\ call'[c].blob = call[c].blob /\ call'[c].pos = call[c].pos
                 /\ call[c].pc \in {"copy", "rename", "remove"} /\ call'[c].pc = "remove"
  PROVE  Writing'
  BY DEF IInv, Writing, files, NoFile, Whole, Part, Calls

-----------------------------------------------------------------------------
(* What the invariant says of one call and its process.                    *)
LEMMA CallFacts ==
  ASSUME IInv, NEW c \in Calls
  PROVE  /\ call \in [Calls -> CallType] /\ proc \in [Procs -> ProcType]
         /\ Progress(call[c])
         /\ c \in Peekers => call[c].file = "none" /\ call[c].pc \notin {"create", "rename", "remove"}
         /\ call[c].pc \notin {"idle", "acquire"} =>
              /\ call[c].proc \in Procs /\ call[c].blob \in Blobs
              /\ proc[call[c].proc].life \in {"up", "dead"}
              /\ proc[call[c].proc].life = "dead" => proc[call[c].proc].ask = None
              /\ InStep(call[c], proc[call[c].proc])
<1>1. call \in [Calls -> CallType] /\ proc \in [Procs -> ProcType]
  BY DEF IInv, TypeOK, CallType, ProcType
<1>2. Progress(call[c])
      /\ (c \in Peekers => call[c].file = "none" /\ call[c].pc \notin {"create", "rename", "remove"})
  BY DEF IInv, Calling
<1>3. ASSUME call[c].pc \notin {"idle", "acquire"}
      PROVE  /\ call[c].proc \in Procs /\ call[c].blob \in Blobs
             /\ proc[call[c].proc].life \in {"up", "dead"}
             /\ proc[call[c].proc].life = "dead" => proc[call[c].proc].ask = None
             /\ InStep(call[c], proc[call[c].proc])
  <2>1. call[c].proc # None
    BY <1>3 DEF IInv, Owned
  <2>2. call[c].proc \in Procs
    BY <1>1, <2>1 DEF CallType
  <2>3. proc[call[c].proc].life # "none"
    BY <2>2 DEF IInv, Owned
  <2>4. proc[call[c].proc].life \in {"none", "up", "dead"}
    BY <1>1, <2>2 DEF ProcType
  <2> QED
    BY <1>2, <1>3, <2>1, <2>2, <2>3, <2>4 DEF Progress, IInv, Streams
<1> QED
  BY <1>1, <1>2, <1>3

(* A call reads a token: it is of the call's own object.                   *)
LEMMA ConsumeFacts ==
  ASSUME IInv, NEW c \in Calls, call[c].pc \in {"header", "copy"}, Unread(c) # <<>>, Consume(c)
  PROVE  LET p == call[c].proc IN
         /\ proc' \in [Procs -> ProcType] /\ \A s \in Procs \ {p} : proc'[s] = proc[s]
         /\ proc'[p].life = proc[p].life /\ proc'[p].ask = None
         /\ Head(Unread(c)) \in Tokens /\ Head(Unread(c))[2] = call[c].blob
         /\ \A i \in 1..Len(proc'[p].out) : proc'[p].out[i][2] = call[c].blob
         /\ Len(Unread(c)) \in Nat \ {0} /\ Len(Unread(c)) <= Room(call[c])
         /\ Len(proc'[p].out) = Len(Unread(c)) - 1
<1> DEFINE p == call[c].proc
           s == proc[p].out
<1>1. /\ p \in Procs /\ proc \in [Procs -> ProcType] /\ InStep(call[c], proc[p])
  BY CallFacts
<1>2. s \in Seq(Tokens) /\ s # <<>> /\ s = Unread(c)
  BY <1>1 DEF ProcType, Unread
<1>3. proc' = [proc EXCEPT ![p] = [proc[p] EXCEPT !.out = Tail(s)]]
  BY <1>1 DEF Consume
<1>4. /\ Head(s) = s[1] /\ Head(s) \in Tokens /\ Tail(s) \in Seq(Tokens)
      /\ Len(s) \in Nat \ {0} /\ Len(Tail(s)) = Len(s) - 1
      /\ \A i \in 1..Len(Tail(s)) : Tail(s)[i] = s[i + 1]
  BY <1>2, TailFacts
<1>5. [proc[p] EXCEPT !.out = Tail(s)] \in ProcType
  BY <1>1, <1>4, ZenonT(40) DEF ProcType
<1>6. /\ proc' \in [Procs -> ProcType] /\ \A q \in Procs \ {p} : proc'[q] = proc[q]
      /\ proc'[p] = [proc[p] EXCEPT !.out = Tail(s)]
  BY <1>1, <1>3, <1>5
<1>7. proc'[p].life = proc[p].life /\ proc'[p].ask = proc[p].ask /\ proc'[p].out = Tail(s)
  BY <1>1, <1>6 DEF ProcType
<1>8. proc[p].ask = None /\ Len(s) <= Room(call[c])
  BY <1>1, <1>2 DEF InStep
<1>9. \A i \in 1..Len(s) : s[i][2] = call[c].blob
  BY <1>1 DEF InStep
<1> HIDE DEF s, p
<1>10. Head(s)[2] = call[c].blob /\ \A i \in 1..Len(Tail(s)) : Tail(s)[i][2] = call[c].blob
  BY <1>4, <1>9
<1> QED
  BY <1>2, <1>4, <1>6, <1>7, <1>8, <1>10 DEF s, p

(* The parts of TypeOK other than the calls and processes.                 *)
OtherTypes ==
  /\ free \in Seq(Procs) /\ maxSize \in PoolSizes /\ closed \in BOOLEAN
  /\ tmp \in [Blobs -> Seq(Blobs \cup {None})] /\ dst \in [Blobs -> Seq(Blobs \cup {None})]
  /\ crossed \subseteq Blobs /\ faults \in 0..MaxFaults

LEMMA Types ==
  /\ IInv => OtherTypes
  /\ OtherTypes' /\ call' \in [Calls -> CallType] /\ proc' \in [Procs -> ProcType] => TypeOK'
  BY DEF IInv, TypeOK, OtherTypes, CallType, ProcType

LEMMA FaultType == IInv /\ (Fault \/ UNCHANGED faults) => faults' \in 0..MaxFaults
  BY BatchPoolAssumption DEF IInv, TypeOK, Fault

(* One call changes.                                                       *)
LEMMA OneCall ==
  ASSUME IInv, NEW c \in Calls, NEW r \in CallType, call' = [call EXCEPT ![c] = r]
  PROVE  /\ call' \in [Calls -> CallType] /\ call'[c] = r
         /\ \A d \in Calls \ {c} : call'[d] = call[d] /\ Kept(d)
  BY DEF IInv, TypeOK, CallType, Kept

-----------------------------------------------------------------------------
(* BlobToCache and ReadBlob while they use a process.                      *)

LEMMA ReadHeaderStep == ASSUME IInv, NEW c \in Calls, ReadHeader(c) PROVE IInv'
<1> DEFINE p == call[c].proc
<1>0. call[c].pc = "header" /\ UNCHANGED <<pool, files, faults>>
  BY DEF ReadHeader, At
<1>1. /\ call \in [Calls -> CallType] /\ proc \in [Procs -> ProcType]
      /\ p \in Procs /\ call[c].blob \in Blobs /\ proc[p].life \in {"up", "dead"}
      /\ proc[p].life = "dead" => proc[p].ask = None
      /\ InStep(call[c], proc[p]) /\ Progress(call[c])
  BY <1>0, CallFacts
<1>2. PICK x \in {"failed", "create", "tooLarge", "copy"} :
        /\ call' = [call EXCEPT ![c] = [call[c] EXCEPT !.pc = x]]
        /\ x = "create" => c \in Fetchers
        /\ x = "copy" => c \notin Fetchers
        /\ \/ Unread(c) # <<>> /\ Consume(c)
           \/ AtEOF(c) /\ x = "failed" /\ UNCHANGED proc
  <2>1. CASE Unread(c) # <<>> /\ Consume(c)
    BY <1>1, <2>1, Zenon DEF ReadHeader, Goto, AtEOF
  <2>2. CASE AtEOF(c) /\ Goto(c, "failed") /\ UNCHANGED proc
    BY <2>2 DEF Goto
  <2> QED
    BY <2>1, <2>2 DEF ReadHeader
<1>3. [call[c] EXCEPT !.pc = x] \in CallType
  BY <1>1 DEF CallType, Talking
<1>4. /\ call' \in [Calls -> CallType] /\ call'[c] = [call[c] EXCEPT !.pc = x]
      /\ \A d \in Calls \ {c} : call'[d] = call[d] /\ Kept(d)
  BY <1>2, <1>3, OneCall
<1>5. /\ proc' \in [Procs -> ProcType] /\ \A s \in Procs \ {p} : proc'[s] = proc[s]
      /\ proc'[p].life = proc[p].life /\ proc'[p].ask = None
      /\ \A i \in 1..Len(proc'[p].out) : proc'[p].out[i][2] = call[c].blob
      /\ x = "failed" \/ Len(proc'[p].out) <= Chunks
  <2>1. CASE Unread(c) # <<>> /\ Consume(c)
    <3>1. Room(call[c]) = Chunks + 1
      BY <1>0 DEF Room
    <3> QED
      BY <1>0, <2>1, <3>1, ConsumeFacts, BatchPoolAssumption
  <2>2. CASE AtEOF(c) /\ x = "failed" /\ UNCHANGED proc
    BY <1>1, <2>2 DEF AtEOF, InStep
  <2> QED
    BY <1>2, <2>1, <2>2
<1>6. /\ call'[c].proc = p /\ call'[c].pc = x /\ call'[c].blob = call[c].blob
      /\ call'[c].pos = 0 /\ call'[c].got = {} /\ call'[c].file = "none"
  BY <1>0, <1>1, <1>4 DEF CallType, Progress
<1>7. InStep(call'[c], proc'[p])
  BY <1>2, <1>5, <1>6, BatchPoolAssumption DEF InStep, Room
<1>8. Progress(call'[c])
  BY <1>1, <1>6 DEF Progress
<1>9. Owned' /\ Streams' /\ Calling'
  BY <1>0, <1>1, <1>2, <1>4, <1>5, <1>6, <1>7, <1>8, Advance, BatchPoolAssumption
<1>10. Writing'
  BY <1>0, <1>1, <1>2, <1>4, <1>6, FilesKept DEF Progress, Kept, Calls
<1> QED
  BY <1>0, <1>4, <1>5, <1>9, <1>10, Types DEF IInv, OtherTypes, pool, files

LEMMA CreateStep == ASSUME IInv, NEW c \in Calls, Create(c) PROVE IInv'
<1> DEFINE p == call[c].proc
           b == call[c].blob
<1>0. call[c].pc = "create" /\ UNCHANGED <<pool, dst>>
  BY DEF Create, At
<1>1. /\ call \in [Calls -> CallType] /\ proc \in [Procs -> ProcType]
      /\ p \in Procs /\ b \in Blobs /\ proc[p].life \in {"up", "dead"}
      /\ proc[p].life = "dead" => proc[p].ask = None
      /\ InStep(call[c], proc[p]) /\ Progress(call[c])
  BY <1>0, CallFacts
<1>2. c \in Fetchers /\ proc[p].ask = None
  BY <1>0, <1>1, CallFacts DEF Calls, InStep
<1>3. call[c].pos = 0 /\ call[c].got = {} /\ call[c].file = "none"
  BY <1>0, <1>1 DEF Progress
<1>4. OtherTypes
  BY Types
<1>5. CASE /\ tmp' = [tmp EXCEPT ![b] = <<>>]
           /\ call' = [call EXCEPT ![c].pc = "copy", ![c].file = "tmp"]
           /\ crossed' = IF \E d \in Calls : call[d].blob = b /\ call[d].file = "tmp"
                            THEN crossed \cup {b} ELSE crossed
           /\ UNCHANGED <<proc, faults>>
  <2> DEFINE r == [call[c] EXCEPT !.pc = "copy", !.file = "tmp"]
  <2>1. r \in CallType
    BY <1>1, ZenonT(40) DEF CallType, Talking
  <2>2. call' = [call EXCEPT ![c] = r]
    BY <1>5
  <2>3. /\ call' \in [Calls -> CallType] /\ call'[c] = r
        /\ \A d \in Calls \ {c} : call'[d] = call[d] /\ Kept(d)
    BY <2>1, <2>2, OneCall
  <2>4. /\ call'[c].proc = p /\ call'[c].pc = "copy" /\ call'[c].blob = b
        /\ call'[c].pos = 0 /\ call'[c].got = {} /\ call'[c].file = "tmp"
    BY <1>1, <1>3, <2>3 DEF CallType
  <2>5. InStep(call'[c], proc'[p])
    BY <1>0, <1>1, <1>2, <1>5, <2>4, BatchPoolAssumption DEF InStep, Room
  <2>6. Progress(call'[c])
    BY <1>1, <2>4 DEF Progress
  <2>7. Owned' /\ Streams' /\ Calling'
    BY <1>0, <1>1, <1>2, <1>5, <2>3, <2>4, <2>5, <2>6, Advance, BatchPoolAssumption
  <2>8. Writing'
    <3>1. Writing /\ crossed \subseteq crossed' /\ dst' = dst
      BY <1>0, <1>5 DEF IInv
    <3>2. ASSUME NEW e \in Blobs \ crossed', e # b
          PROVE  /\ tmp'[e] = tmp[e] /\ e \in Blobs \ crossed
                 /\ \A d \in Fetchers : call'[d].blob = e => d # c /\ call'[d] = call[d]
      BY <1>4, <1>5, <2>3, <2>4, <3>1, <3>2 DEF OtherTypes, Calls
    <3>3. ASSUME b \notin crossed'
          PROVE  \A d \in Fetchers \ {c} : call'[d] = call[d] /\ (call[d].blob = b =>
                   call[d].file = "none" /\ call[d].pc \notin {"copy", "rename", "remove"})
      <4>1. b \in Blobs \ crossed /\ \A d \in Calls : call[d].blob = b => call[d].file # "tmp"
        BY <1>1, <1>5, <3>1, <3>3
      <4> QED
        BY <2>3, <3>1, <4>1 DEF Writing, Calls
    <3>4. tmp'[b] = <<>> /\ <<>> = Part(b, 0)
      BY <1>1, <1>4, <1>5 DEF OtherTypes, Part
    <3>5. ASSUME NEW e \in Blobs \ crossed'
          PROVE  /\ dst'[e] \in {NoFile, Whole(e)}
                 /\ \A d \in Fetchers : call'[d].blob = e =>
                      /\ call'[d].file # "none" <=> call'[d].pc \in {"copy", "rename", "remove"}
                      /\ call'[d].file \in {"none", "tmp"}
                      /\ call'[d].pc \in {"copy", "rename"} => tmp'[e] = Part(e, call'[d].pos)
                      /\ call'[d].pc = "rename" => call'[d].pos = Chunks
                 /\ \A d, g \in Fetchers : call'[d].blob = e /\ call'[g].blob = e /\ d # g =>
                      call'[d].file = "none" \/ call'[g].file = "none"
      <4>1. CASE e # b
        BY <3>1, <3>2, <3>5, <4>1 DEF Writing
      <4>2. CASE e = b
        <5>1. dst'[e] \in {NoFile, Whole(e)}
          BY <3>1, <3>5 DEF Writing
        <5>2. \A d \in Fetchers : call'[d].blob = e =>
                      /\ call'[d].file # "none" <=> call'[d].pc \in {"copy", "rename", "remove"}
                      /\ call'[d].file \in {"none", "tmp"}
                      /\ call'[d].pc \in {"copy", "rename"} => tmp'[e] = Part(e, call'[d].pos)
                      /\ call'[d].pc = "rename" => call'[d].pos = Chunks
          BY <2>4, <3>3, <3>4, <3>5, <4>2
        <5>3. \A d \in Fetchers \ {c} : call'[d].blob = e => call'[d].file = "none"
          BY <3>3, <3>5, <4>2
        <5> QED
          BY <5>1, <5>2, <5>3
      <4> QED
        BY <4>1, <4>2
    <3> QED
      BY <3>5 DEF Writing, NoFile, Whole, Part
  <2>9. OtherTypes'
    BY <1>0, <1>1, <1>4, <1>5, EmptySeq DEF OtherTypes, pool
  <2> QED
    BY <1>1, <1>5, <2>3, <2>7, <2>8, <2>9, Types DEF IInv
<1>6. CASE /\ Fault
           /\ Goto(c, "failed")
           /\ proc' = [proc EXCEPT ![p].out = <<>>]
           /\ UNCHANGED <<tmp, crossed>>
  <2> DEFINE r == [call[c] EXCEPT !.pc = "failed"]
             q == [proc[p] EXCEPT !.out = <<>>]
  <2>1. r \in CallType /\ q \in ProcType
    <3>1. r \in CallType
      BY <1>1 DEF CallType, Talking
    <3>2. q \in ProcType
      BY <1>1, EmptySeq DEF ProcType
    <3> QED
      BY <3>1, <3>2
  <2>2. call' = [call EXCEPT ![c] = r]
    BY <1>6 DEF Goto
  <2>3. /\ call' \in [Calls -> CallType] /\ call'[c] = r
        /\ \A d \in Calls \ {c} : call'[d] = call[d] /\ Kept(d)
    BY <2>1, <2>2, OneCall
  <2>4. /\ call'[c].proc = p /\ call'[c].pc = "failed" /\ call'[c].blob = b
        /\ call'[c].got = {} /\ call'[c].file = "none" /\ call'[c].pos = call[c].pos
    BY <1>1, <1>3, <2>3 DEF CallType
  <2>5. /\ proc' \in [Procs -> ProcType] /\ \A s \in Procs \ {p} : proc'[s] = proc[s]
        /\ proc'[p].life = proc[p].life /\ proc'[p].ask = proc[p].ask /\ proc'[p].out = <<>>
    BY <1>1, <1>6, <2>1 DEF ProcType
  <2>6. InStep(call'[c], proc'[p])
    BY <1>2, <2>4, <2>5, EmptySeq DEF InStep
  <2>7. Progress(call'[c])
    BY <1>1, <2>4 DEF Progress
  <2>8. Owned' /\ Streams' /\ Calling'
    BY <1>0, <1>1, <1>2, <2>3, <2>4, <2>5, <2>6, <2>7, Advance, BatchPoolAssumption
  <2>9. Writing'
    BY <1>0, <1>3, <1>6, <2>3, <2>4, FilesKept DEF Kept, Calls, files
  <2>10. OtherTypes'
    BY <1>0, <1>4, <1>6, FaultType DEF OtherTypes, pool
  <2> QED
    BY <2>3, <2>5, <2>8, <2>9, <2>10, Types DEF IInv
<1> QED
  BY <1>5, <1>6 DEF Create

(* A piece is appended to what was written so far.                         *)
LEMMA WriteFacts ==
  ASSUME NEW n \in Nat, NEW b \in Blobs
  PROVE  /\ \A s \in Seq(Blobs \cup {None}) : WriteAt(s, n + 1, b) \in Seq(Blobs \cup {None})
         /\ WriteAt(Part(b, n), n + 1, b) = Part(b, n + 1)
<1>1. ASSUME NEW s \in Seq(Blobs \cup {None})
      PROVE  WriteAt(s, n + 1, b) \in Seq(Blobs \cup {None})
  <2> DEFINE m == IF Len(s) > n + 1 THEN Len(s) ELSE n + 1
             e(i) == IF i = n + 1 THEN b ELSE IF i <= Len(s) THEN s[i] ELSE None
  <2>1. m \in Nat
    BY LenProperties
  <2>2. \A i \in 1..m : e(i) \in Blobs \cup {None}
    BY <2>1, ElementOfSeq, LenProperties
  <2>3. WriteAt(s, n + 1, b) = [i \in 1..m |-> e(i)]
    BY DEF WriteAt
  <2> HIDE DEF m, e
  <2> QED
    BY <2>1, <2>2, <2>3
<1>2. Len(Part(b, n)) = n /\ \A i \in 1..n : Part(b, n)[i] = b
  BY DEF Part
<1>3. WriteAt(Part(b, n), n + 1, b) = Part(b, n + 1)
  <2>1. WriteAt(Part(b, n), n + 1, b) =
          [i \in 1..n + 1 |-> IF i = n + 1 THEN b ELSE IF i <= n THEN Part(b, n)[i] ELSE None]
    BY <1>2 DEF WriteAt
  <2>2. \A i \in 1..n + 1 :
          (IF i = n + 1 THEN b ELSE IF i <= n THEN Part(b, n)[i] ELSE None) = b
    BY <1>2
  <2> QED
    BY <2>1, <2>2 DEF Part
<1> QED
  BY <1>1, <1>3

LEMMA CopyStep == ASSUME IInv, NEW c \in Calls, Copy(c) PROVE IInv'
<1> DEFINE p == call[c].proc
           b == call[c].blob
           n == call[c].pos + 1
<1>0. call[c].pc = "copy" /\ UNCHANGED <<pool, crossed>>
  BY DEF Copy, At
<1>1. /\ call \in [Calls -> CallType] /\ proc \in [Procs -> ProcType]
      /\ p \in Procs /\ b \in Blobs /\ proc[p].life \in {"up", "dead"}
      /\ proc[p].life = "dead" => proc[p].ask = None
      /\ InStep(call[c], proc[p]) /\ Progress(call[c])
      /\ c \in Peekers => call[c].file = "none"
  BY <1>0, CallFacts
<1>2. OtherTypes /\ call[c].pos \in 0..Chunks /\ Chunks \in Nat
  BY <1>1, Types, BatchPoolAssumption DEF CallType
<1>3. ASSUME NEW x \in Talking, call' = [call EXCEPT ![c] = [call[c] EXCEPT !.pc = x]],
             x = (IF c \in Fetchers THEN "remove" ELSE "failed"),
             UNCHANGED <<tmp, dst>>, Fault \/ UNCHANGED faults,
             (Unread(c) # <<>> /\ Consume(c)) \/ UNCHANGED proc
      PROVE  IInv'
  <2>1. [call[c] EXCEPT !.pc = x] \in CallType
    BY <1>1 DEF CallType
  <2>2. /\ call' \in [Calls -> CallType] /\ call'[c] = [call[c] EXCEPT !.pc = x]
        /\ \A d \in Calls \ {c} : call'[d] = call[d] /\ Kept(d)
    BY <1>3, <2>1, OneCall
  <2>3. /\ call'[c].proc = p /\ call'[c].pc = x /\ call'[c].blob = b
        /\ call'[c].got = call[c].got /\ call'[c].file = call[c].file /\ call'[c].pos = call[c].pos
    BY <1>1, <2>2 DEF CallType
  <2>4. /\ proc' \in [Procs -> ProcType] /\ \A s \in Procs \ {p} : proc'[s] = proc[s]
        /\ proc'[p].life = proc[p].life /\ proc'[p].ask = None
        /\ \A i \in 1..Len(proc'[p].out) : proc'[p].out[i][2] = b
    <3>1. CASE Unread(c) # <<>> /\ Consume(c)
      BY <1>0, <3>1, ConsumeFacts
    <3>2. CASE UNCHANGED proc
      BY <1>0, <1>1, <3>2 DEF InStep
    <3> QED
      BY <1>3, <3>1, <3>2
  <2>5. InStep(call'[c], proc'[p])
    BY <1>3, <2>3, <2>4 DEF InStep
  <2>6. Progress(call'[c])
    BY <1>1, <1>3, <2>3 DEF Progress, Calls
  <2>7. c \in Peekers => x = "failed"
    BY <1>3, BatchPoolAssumption
  <2>8. Owned' /\ Streams' /\ Calling'
    BY <1>0, <1>1, <1>3, <2>2, <2>3, <2>4, <2>5, <2>6, <2>7, Advance
  <2>9. Writing'
    BY <1>0, <1>3, <2>2, <2>3, FilesKept DEF Kept, Calls, files
  <2>10. OtherTypes'
    BY <1>0, <1>2, <1>3, FaultType DEF OtherTypes, pool
  <2> QED
    BY <2>2, <2>4, <2>8, <2>9, <2>10, Types DEF IInv
<1>4. CASE AtEOF(c) /\ ShortRead(c) /\ UNCHANGED <<proc, tmp, dst, faults>>
  <2> DEFINE x == IF c \in Fetchers THEN "remove" ELSE "failed"
  <2>1. x \in Talking
    BY DEF Talking
  <2>2. call' = [call EXCEPT ![c] = [call[c] EXCEPT !.pc = x]]
    BY <1>4 DEF ShortRead, Goto
  <2>3. UNCHANGED <<tmp, dst>> /\ UNCHANGED faults /\ UNCHANGED proc
    BY <1>4
  <2> HIDE DEF x
  <2>4. x = IF c \in Fetchers THEN "remove" ELSE "failed"
    BY DEF x
  <2> QED
    BY <1>3, <2>1, <2>2, <2>3, <2>4
<1>5. CASE Unread(c) # <<>> /\ Consume(c) /\ c \in Fetchers /\ Fault /\ Goto(c, "remove") /\ UNCHANGED <<tmp, dst>>
  <2>1. call' = [call EXCEPT ![c] = [call[c] EXCEPT !.pc = "remove"]]
    BY <1>5 DEF Goto
  <2>2. "remove" \in Talking /\ "remove" = IF c \in Fetchers THEN "remove" ELSE "failed"
    BY <1>5 DEF Talking
  <2> QED
    BY <1>3, <1>5, <2>1, <2>2
<1>6. ASSUME Unread(c) # <<>>, Consume(c), UNCHANGED faults,
             NEW x \in {"copy", "rename", "ok"},
             x = "copy" <=> n < Chunks, x = "rename" => c \in Fetchers, x = "ok" => c \notin Fetchers,
             call' = [call EXCEPT ![c] = [call[c] EXCEPT !.pos = n, !.got = @ \cup {b}, !.pc = x]],
             tmp' = IF call[c].file = "tmp" THEN [tmp EXCEPT ![b] = WriteAt(@, n, b)] ELSE tmp,
             dst' = IF call[c].file = "dst" THEN [dst EXCEPT ![b] = WriteAt(@, n, b)] ELSE dst
      PROVE  IInv'
  <2>1. /\ proc' \in [Procs -> ProcType] /\ \A s \in Procs \ {p} : proc'[s] = proc[s]
        /\ proc'[p].life = proc[p].life /\ proc'[p].ask = None
        /\ \A i \in 1..Len(proc'[p].out) : proc'[p].out[i][2] = b
        /\ Len(Unread(c)) \in Nat \ {0} /\ Len(Unread(c)) <= Chunks - call[c].pos
        /\ Len(proc'[p].out) = Len(Unread(c)) - 1
    BY <1>0, <1>6, ConsumeFacts DEF Room
  <2>2. n \in 1..Chunks /\ Len(proc'[p].out) <= Chunks - n /\ (x # "copy" => n = Chunks)
    BY <1>2, <1>6, <2>1
  <2> DEFINE r == [call[c] EXCEPT !.pos = n, !.got = @ \cup {b}, !.pc = x]
  <2>3. r \in CallType
    <3>1. n \in 0..Chunks
      BY <1>2, <2>2
    <3>2. call[c].got \cup {b} \in SUBSET Blobs /\ x \in Talking
      BY <1>1, <1>6 DEF CallType, Talking
    <3> HIDE DEF n
    <3> QED
      BY <1>1, <3>1, <3>2, ZenonT(40) DEF CallType
  <2>4. /\ call' \in [Calls -> CallType] /\ call'[c] = r
        /\ \A d \in Calls \ {c} : call'[d] = call[d] /\ Kept(d)
    BY <1>6, <2>3, OneCall
  <2>5. /\ call'[c].proc = p /\ call'[c].pc = x /\ call'[c].blob = b
        /\ call'[c].got = call[c].got \cup {b} /\ call'[c].file = call[c].file /\ call'[c].pos = n
    BY <1>1, <2>4 DEF CallType
  <2>6. InStep(call'[c], proc'[p])
    BY <1>6, <2>1, <2>2, <2>5 DEF InStep, Room
  <2>7. Progress(call'[c])
    BY <1>1, <1>6, <2>5 DEF Progress, Calls
  <2>8. Owned' /\ Streams' /\ Calling'
    <3>1. c \in Peekers => x # "rename"
      BY <1>6, BatchPoolAssumption
    <3> QED
      BY <1>0, <1>1, <1>6, <2>1, <2>4, <2>5, <2>6, <2>7, <3>1, Advance
  <2>9. OtherTypes'
    <3>1. tmp[b] \in Seq(Blobs \cup {None}) /\ dst[b] \in Seq(Blobs \cup {None})
      BY <1>1, <1>2 DEF OtherTypes
    <3>2. \A s \in Seq(Blobs \cup {None}) : WriteAt(s, n, b) \in Seq(Blobs \cup {None})
      <4>1. call[c].pos \in Nat
        BY <1>2
      <4> QED
        BY <1>1, <4>1, WriteFacts
    <3> QED
      BY <1>0, <1>2, <1>6, <3>1, <3>2 DEF OtherTypes, pool
  <2>10. Writing'
    <3>1. Writing /\ crossed' = crossed
      BY <1>0 DEF IInv
    <3>2. ASSUME NEW e \in Blobs \ crossed, e # b \/ c \notin Fetchers
          PROVE  /\ tmp'[e] = tmp[e] /\ dst'[e] = dst[e]
                 /\ \A d \in Fetchers : call'[d].blob = e => call'[d] = call[d]
      BY <1>1, <1>2, <1>6, <2>4, <2>5, <3>2 DEF OtherTypes, Calls
    <3>3. ASSUME b \notin crossed, c \in Fetchers
          PROVE  /\ call[c].file = "tmp" /\ dst' = dst /\ tmp'[b] = Part(b, n)
                 /\ \A d \in Fetchers \ {c} : call'[d] = call[d] /\ (call[d].blob = b =>
                      call[d].file = "none" /\ call[d].pc \notin {"copy", "rename", "remove"})
      <4>1. call[c].file = "tmp" /\ tmp[b] = Part(b, call[c].pos)
        BY <1>0, <1>1, <3>1, <3>3 DEF Writing
      <4>2. dst' = dst /\ tmp'[b] = WriteAt(tmp[b], n, b)
        BY <1>1, <1>2, <1>6, <4>1 DEF OtherTypes
      <4>3. tmp'[b] = Part(b, n)
        BY <1>1, <1>2, <4>1, <4>2, WriteFacts
      <4> QED
        BY <1>1, <2>4, <3>1, <3>3, <4>1, <4>2, <4>3 DEF Writing, Calls
    <3>4. ASSUME NEW e \in Blobs \ crossed
          PROVE  /\ dst'[e] \in {NoFile, Whole(e)}
                 /\ \A d \in Fetchers : call'[d].blob = e =>
                      /\ call'[d].file # "none" <=> call'[d].pc \in {"copy", "rename", "remove"}
                      /\ call'[d].file \in {"none", "tmp"}
                      /\ call'[d].pc \in {"copy", "rename"} => tmp'[e] = Part(e, call'[d].pos)
                      /\ call'[d].pc = "rename" => call'[d].pos = Chunks
                 /\ \A d, g \in Fetchers : call'[d].blob = e /\ call'[g].blob = e /\ d # g =>
                      call'[d].file = "none" \/ call'[g].file = "none"
      <4>1. CASE e # b \/ c \notin Fetchers
        BY <3>1, <3>2, <3>4, <4>1 DEF Writing
      <4>2. CASE e = b /\ c \in Fetchers
        <5>1. dst'[e] \in {NoFile, Whole(e)}
          BY <3>1, <3>3, <3>4, <4>2 DEF Writing
        <5>2. \A d \in Fetchers : call'[d].blob = e =>
                      /\ call'[d].file # "none" <=> call'[d].pc \in {"copy", "rename", "remove"}
                      /\ call'[d].file \in {"none", "tmp"}
                      /\ call'[d].pc \in {"copy", "rename"} => tmp'[e] = Part(e, call'[d].pos)
                      /\ call'[d].pc = "rename" => call'[d].pos = Chunks
          BY <1>6, <2>2, <2>5, <3>3, <3>4, <4>2
        <5>3. \A d \in Fetchers \ {c} : call'[d].blob = e => call'[d].file = "none"
          BY <3>3, <3>4, <4>2
        <5> QED
          BY <5>1, <5>2, <5>3
      <4> QED
        BY <4>1, <4>2
    <3> QED
      BY <3>1, <3>4 DEF Writing, NoFile, Whole, Part
  <2> QED
    BY <2>1, <2>4, <2>8, <2>9, <2>10, Types DEF IInv
<1>7. CASE /\ Unread(c) # <<>>
           /\ Consume(c)
           /\ call' = [call EXCEPT ![c].pos = n, ![c].got = @ \cup {Head(Unread(c))[2]},
                         ![c].pc = IF n < Chunks THEN "copy"
                                   ELSE IF c \in Fetchers THEN "rename" ELSE "ok"]
           /\ tmp' = IF call[c].file = "tmp"
                       THEN [tmp EXCEPT ![b] = WriteAt(@, n, Head(Unread(c))[2])] ELSE tmp
           /\ dst' = IF call[c].file = "dst"
                       THEN [dst EXCEPT ![b] = WriteAt(@, n, Head(Unread(c))[2])] ELSE dst
           /\ UNCHANGED faults
  <2>1. Head(Unread(c))[2] = b
    BY <1>0, <1>7, ConsumeFacts
  <2> DEFINE x == IF n < Chunks THEN "copy" ELSE IF c \in Fetchers THEN "rename" ELSE "ok"
  <2>2. call' = [call EXCEPT ![c] = [call[c] EXCEPT !.pos = n, !.got = @ \cup {b}, !.pc = x]]
    BY <1>1, <1>7, <2>1
  <2>3. /\ x \in {"copy", "rename", "ok"} /\ (x = "copy" <=> n < Chunks)
        /\ x = "rename" => c \in Fetchers
        /\ x = "ok" => c \notin Fetchers
    OBVIOUS
  <2>4. tmp' = IF call[c].file = "tmp" THEN [tmp EXCEPT ![b] = WriteAt(@, n, b)] ELSE tmp
    BY <1>7, <2>1
  <2>5. dst' = IF call[c].file = "dst" THEN [dst EXCEPT ![b] = WriteAt(@, n, b)] ELSE dst
    BY <1>7, <2>1
  <2> HIDE DEF x
  <2> QED
    BY <1>6, <1>7, <2>2, <2>3, <2>4, <2>5
<1> QED
  BY <1>4, <1>5, <1>7 DEF Copy

(* A rename or a removal is the end of a call's own file; only a call that *)
(* has a file of the same blob open notices it.                            *)
LEMMA RelinkedFacts ==
  ASSUME IInv, NEW c \in Calls, NEW to \in {"dst", "unlinked"}, NEW x \in {"ok", "failed"},
         call' = Relinked(c, to, x)
  PROVE  /\ call' \in [Calls -> CallType] /\ call'[c] = [call[c] EXCEPT !.pc = x, !.file = "none"]
         /\ \A d \in Calls \ {c} : Kept(d)
         /\ \A d \in Calls \ {c} :
              call[d].blob # call[c].blob \/ call[d].file = "none" => call'[d] = call[d]
<1>1. call \in [Calls -> CallType]
  BY CallFacts
<1>2. call'[c] = [call[c] EXCEPT !.pc = x, !.file = "none"] /\ call'[c] \in CallType
  <2>1. call'[c] = [call[c] EXCEPT !.pc = x, !.file = "none"]
    BY DEF Relinked
  <2> QED
    BY <1>1, <2>1 DEF CallType, Talking
<1>3. ASSUME NEW d \in Calls \ {c}
      PROVE  \/ call'[d] = call[d]
             \/ /\ call[d].blob = call[c].blob /\ call[d].file \in {"tmp", "dst"}
                /\ \E f \in {"dst", "unlinked"} : call'[d] = [call[d] EXCEPT !.file = f]
  BY DEF Relinked
<1>4. ASSUME NEW d \in Calls \ {c}
      PROVE  /\ call'[d] \in CallType /\ Kept(d)
             /\ call[d].blob # call[c].blob \/ call[d].file = "none" => call'[d] = call[d]
  <2>1. CASE call'[d] = call[d]
    BY <1>1, <2>1 DEF Kept
  <2>2. ASSUME NEW f \in {"dst", "unlinked"}, call'[d] = [call[d] EXCEPT !.file = f],
               call[d].blob = call[c].blob, call[d].file \in {"tmp", "dst"}
        PROVE  /\ call'[d] \in CallType /\ Kept(d)
               /\ call[d].blob # call[c].blob \/ call[d].file = "none" => call'[d] = call[d]
    BY <1>1, <2>2 DEF CallType, Kept
  <2> QED
    BY <1>3, <2>1, <2>2
<1>5. call' \in [Calls -> CallType]
  <2>1. call' = [d \in Calls |-> call'[d]]
    BY DEF Relinked
  <2> QED
    BY <1>2, <1>4, <2>1
<1> QED
  BY <1>2, <1>4, <1>5

(* The end of writing a file: it has no user any more.                     *)
LEMMA LeaveFile ==
  ASSUME IInv, NEW c \in Fetchers, call[c].pc \in {"rename", "remove"},
         NEW to \in {"dst", "unlinked"}, NEW x \in {"ok", "failed"},
         x = "ok" => call[c].pc = "rename", call' = Relinked(c, to, x),
         tmp' = [tmp EXCEPT ![call[c].blob] = NoFile], UNCHANGED <<pool, proc, crossed, faults>>,
         IF call[c].pc = "rename" THEN dst' = [dst EXCEPT ![call[c].blob] = tmp[call[c].blob]]
                                  ELSE dst' = dst
  PROVE  IInv'
<1> DEFINE p == call[c].proc
           b == call[c].blob
<1>1. /\ call \in [Calls -> CallType] /\ proc \in [Procs -> ProcType]
      /\ p \in Procs /\ b \in Blobs /\ proc[p].life \in {"up", "dead"}
      /\ proc[p].life = "dead" => proc[p].ask = None
      /\ InStep(call[c], proc[p]) /\ Progress(call[c])
  BY CallFacts DEF Calls
<1>2. OtherTypes /\ c \in Calls /\ c \notin Peekers
  BY Types, BatchPoolAssumption DEF Calls
<1>3. /\ call' \in [Calls -> CallType] /\ call'[c] = [call[c] EXCEPT !.pc = x, !.file = "none"]
      /\ \A d \in Calls \ {c} : Kept(d)
      /\ \A d \in Calls \ {c} : call[d].blob # b \/ call[d].file = "none" => call'[d] = call[d]
  BY <1>2, RelinkedFacts
<1>4. /\ call'[c].proc = p /\ call'[c].pc = x /\ call'[c].blob = b
      /\ call'[c].got = call[c].got /\ call'[c].file = "none" /\ call'[c].pos = call[c].pos
  BY <1>1, <1>2, <1>3 DEF CallType
<1>5. InStep(call'[c], proc'[p])
  BY <1>1, <1>4 DEF InStep, Room
<1>6. Progress(call'[c])
  BY <1>1, <1>4 DEF Progress
<1>7. Owned' /\ Streams' /\ Calling'
  BY <1>1, <1>2, <1>3, <1>4, <1>5, <1>6, Advance
<1>8. OtherTypes'
  <2>1. NoFile \in Seq(Blobs \cup {None}) /\ tmp[b] \in Seq(Blobs \cup {None})
    BY <1>1, <1>2 DEF NoFile, OtherTypes
  <2> QED
    BY <1>1, <1>2, <2>1 DEF OtherTypes, pool
<1>9. Writing'
  <2>1. Writing /\ crossed' = crossed
    BY DEF IInv
  <2>2. ASSUME NEW e \in Blobs \ crossed, e # b
        PROVE  /\ tmp'[e] = tmp[e] /\ dst'[e] = dst[e]
               /\ \A d \in Fetchers : call'[d].blob = e => call'[d] = call[d]
    <3>1. tmp'[e] = tmp[e] /\ dst'[e] = dst[e]
      BY <1>1, <1>2, <2>2 DEF OtherTypes
    <3>2. ASSUME NEW d \in Fetchers, call'[d].blob = e PROVE call'[d] = call[d]
      <4>1. d \in Calls \ {c}
        BY <1>4, <2>2, <3>2 DEF Calls
      <4>2. call[d].blob # b
        BY <1>3, <2>2, <3>2, <4>1 DEF Kept
      <4> QED
        BY <1>3, <4>1, <4>2
    <3> QED
      BY <3>1, <3>2
  <2>3. ASSUME b \notin crossed
        PROVE  /\ dst'[b] \in {NoFile, Whole(b)}
               /\ \A d \in Fetchers \ {c} : call[d].blob = b =>
                    call'[d] = call[d] /\ call[d].file = "none"
                    /\ call[d].pc \notin {"copy", "rename", "remove"}
    <3>1. call[c].file = "tmp" /\ (call[c].pc = "rename" => tmp[b] = Whole(b))
      <4>1. call[c].file = "tmp"
        BY <1>1, <2>1, <2>3 DEF Writing
      <4>2. ASSUME call[c].pc = "rename" PROVE tmp[b] = Whole(b)
        <5>1. tmp[b] = Part(b, call[c].pos)
          BY <1>1, <2>1, <2>3, <4>2 DEF Writing
        <5>2. call[c].pos = Chunks
          BY <1>1, <2>1, <2>3, <4>2 DEF Writing
        <5> QED
          BY <5>1, <5>2 DEF Part, Whole
      <4> QED
        BY <4>1, <4>2
    <3>2. dst'[b] \in {NoFile, Whole(b)}
      <4>1. dst[b] \in {NoFile, Whole(b)}
        BY <1>1, <2>1, <2>3 DEF Writing
      <4> QED
        BY <1>1, <1>2, <3>1, <4>1 DEF OtherTypes
    <3> QED
      BY <1>1, <1>3, <2>1, <2>3, <3>1, <3>2 DEF Writing, Calls
  <2>4. ASSUME NEW e \in Blobs \ crossed
        PROVE  /\ dst'[e] \in {NoFile, Whole(e)}
               /\ \A d \in Fetchers : call'[d].blob = e =>
                    /\ call'[d].file # "none" <=> call'[d].pc \in {"copy", "rename", "remove"}
                    /\ call'[d].file \in {"none", "tmp"}
                    /\ call'[d].pc \in {"copy", "rename"} => tmp'[e] = Part(e, call'[d].pos)
                    /\ call'[d].pc = "rename" => call'[d].pos = Chunks
               /\ \A d, g \in Fetchers : call'[d].blob = e /\ call'[g].blob = e /\ d # g =>
                    call'[d].file = "none" \/ call'[g].file = "none"
    <3>1. CASE e # b
      BY <2>1, <2>2, <2>4, <3>1 DEF Writing
    <3>2. CASE e = b
      <4>1. ASSUME NEW d \in Fetchers, call'[d].blob = b
            PROVE  call'[d].file = "none" /\ call'[d].pc \notin {"copy", "rename", "remove"}
        <5>1. CASE d = c
          BY <1>4, <5>1
        <5>2. CASE d # c
          <6>1. call[d].blob = b
            BY <1>3, <4>1, <5>2 DEF Calls, Kept
          <6> QED
            BY <2>3, <2>4, <3>2, <5>2, <6>1
        <5> QED
          BY <5>1, <5>2
      <4> QED
        BY <2>3, <2>4, <3>2, <4>1
    <3> QED
      BY <3>1, <3>2
  <2> QED
    BY <2>1, <2>4 DEF Writing, NoFile, Whole, Part
<1> QED
  BY <1>1, <1>3, <1>7, <1>8, <1>9, Types DEF IInv

LEMMA RemoveStep == ASSUME IInv, NEW c \in Calls, Remove(c) PROVE IInv'
<1>1. call[c].pc = "remove" /\ c \in Fetchers
  BY CallFacts DEF Remove, At, Calls
<1> QED
  BY <1>1, LeaveFile DEF Remove

(* A rename that finds no file goes on like a failed write.                *)
LEMMA RenameStep == ASSUME IInv, NEW c \in Calls, Rename(c) PROVE IInv'
<1> DEFINE p == call[c].proc
           b == call[c].blob
<1>0. call[c].pc = "rename" /\ c \in Fetchers /\ c \notin Peekers
  BY CallFacts, BatchPoolAssumption DEF Rename, At, Calls
<1>1. CASE tmp[b] # NoFile
  BY <1>0, <1>1, LeaveFile DEF Rename
<1>2. CASE tmp[b] = NoFile
  <2> DEFINE r == [call[c] EXCEPT !.pc = "remove"]
  <2>1. /\ call \in [Calls -> CallType] /\ proc \in [Procs -> ProcType]
        /\ p \in Procs /\ b \in Blobs /\ proc[p].life \in {"up", "dead"}
        /\ proc[p].life = "dead" => proc[p].ask = None
        /\ InStep(call[c], proc[p]) /\ Progress(call[c])
    BY <1>0, CallFacts
  <2>2. r \in CallType
    BY <2>1 DEF CallType, Talking
  <2>3. call' = [call EXCEPT ![c] = r] /\ UNCHANGED <<pool, proc, files, faults>>
    BY <1>2 DEF Rename, Goto, files
  <2>4. /\ call' \in [Calls -> CallType] /\ call'[c] = r
        /\ \A d \in Calls \ {c} : call'[d] = call[d] /\ Kept(d)
    BY <2>2, <2>3, OneCall
  <2>5. /\ call'[c].proc = p /\ call'[c].pc = "remove" /\ call'[c].blob = b
        /\ call'[c].got = call[c].got /\ call'[c].file = call[c].file /\ call'[c].pos = call[c].pos
    BY <2>1, <2>4 DEF CallType
  <2>6. InStep(call'[c], proc'[p])
    BY <1>0, <2>1, <2>3, <2>5 DEF InStep
  <2>7. Progress(call'[c])
    BY <2>1, <2>5 DEF Progress
  <2>8. Owned' /\ Streams' /\ Calling'
    BY <1>0, <2>1, <2>3, <2>4, <2>5, <2>6, <2>7, Advance
  <2>9. Writing'
    BY <1>0, <2>3, <2>4, <2>5, FilesKept DEF Kept, Calls
  <2> QED
    BY <2>1, <2>3, <2>4, <2>8, <2>9, Types DEF IInv, OtherTypes, pool, files
<1> QED
  BY <1>1, <1>2

-----------------------------------------------------------------------------
(* The end of a try.                                                       *)

(* A process that ends: what is left in the pipe was in it before.         *)
LEMMA EndedFacts ==
  ASSUME IInv, NEW p \in Procs, proc' \in Ended(p)
  PROVE  /\ proc' \in [Procs -> ProcType] /\ \A s \in Procs \ {p} : proc'[s] = proc[s]
         /\ proc'[p].life = "dead" /\ proc'[p].ask = None
         /\ Len(proc'[p].out) <= Len(proc[p].out)
         /\ \A i \in 1..Len(proc'[p].out) : proc'[p].out[i] = proc[p].out[i] /\ i \in 1..Len(proc[p].out)
<1>1. proc \in [Procs -> ProcType]
  BY DEF IInv, TypeOK, ProcType
<1> DEFINE s == proc[p].out
<1>2. s \in Seq(Tokens) /\ Len(s) \in Nat
  BY <1>1, LenProperties DEF ProcType
<1>3. PICK n \in 0..Len(s) :
        proc' = [proc EXCEPT ![p] = [life |-> "dead", ask |-> None, out |-> SubSeq(s, 1, n)]]
  BY DEF Ended
<1>4. /\ SubSeq(s, 1, n) \in Seq(Tokens) /\ Len(SubSeq(s, 1, n)) = n
      /\ \A i \in 1..n : SubSeq(s, 1, n)[i] = s[i]
  BY <1>2, PrefixFacts
<1>5. [life |-> "dead", ask |-> None, out |-> SubSeq(s, 1, n)] \in ProcType
  BY <1>4 DEF ProcType
<1>6. /\ proc' \in [Procs -> ProcType] /\ \A t \in Procs \ {p} : proc'[t] = proc[t]
      /\ proc'[p] = [life |-> "dead", ask |-> None, out |-> SubSeq(s, 1, n)]
  BY <1>1, <1>3, <1>5
<1> HIDE DEF s
<1>7. proc'[p].life = "dead" /\ proc'[p].ask = None /\ proc'[p].out = SubSeq(s, 1, n)
  BY <1>6
<1>8. \A i \in 1..n : i \in 1..Len(s)
  BY <1>2
<1> QED
  BY <1>2, <1>4, <1>6, <1>7, <1>8 DEF s

(* The call keeps its process and its place, or is on the way to close it. *)
LEMMA StayStep ==
  ASSUME IInv, NEW c \in Calls, call[c].pc \notin {"idle", "acquire"},
         NEW x \in {"live", "done", "killed"}, NEW pc \in {call[c].pc, "wait"},
         pc = "wait" => call[c].pc \in {"failed", "wait"},
         call' = [call EXCEPT ![c] = [call[c] EXCEPT !.ctx = x, !.pc = pc]],
         proc' \in Ended(call[c].proc) \/ UNCHANGED proc, UNCHANGED <<pool, files, faults>>
  PROVE  IInv'
<1> DEFINE p == call[c].proc
           r == [call[c] EXCEPT !.ctx = x, !.pc = pc]
<1>1. /\ call \in [Calls -> CallType] /\ proc \in [Procs -> ProcType]
      /\ p \in Procs /\ call[c].blob \in Blobs /\ proc[p].life \in {"up", "dead"}
      /\ proc[p].life = "dead" => proc[p].ask = None
      /\ InStep(call[c], proc[p]) /\ Progress(call[c])
      /\ c \in Peekers => call[c].file = "none" /\ call[c].pc \notin {"create", "rename", "remove"}
  BY CallFacts
<1>2. r \in CallType
  <2>1. pc \in Talking \cup {"idle", "acquire", "wait"}
    BY <1>1 DEF CallType
  <2> QED
    BY <1>1, <2>1, ZenonT(40) DEF CallType
<1>3. /\ call' \in [Calls -> CallType] /\ call'[c] = r
      /\ \A d \in Calls \ {c} : call'[d] = call[d] /\ Kept(d)
  BY <1>2, OneCall
<1>4. /\ call'[c].proc = p /\ call'[c].pc = pc /\ call'[c].blob = call[c].blob
      /\ call'[c].got = call[c].got /\ call'[c].file = call[c].file /\ call'[c].pos = call[c].pos
  BY <1>1, <1>3 DEF CallType
<1>5. InStep(call'[c], proc'[p]) /\ proc'[p].life \in {"up", "dead"} /\ proc' \in [Procs -> ProcType]
      /\ (proc'[p].life = "dead" => proc'[p].ask = None) /\ \A s \in Procs \ {p} : proc'[s] = proc[s]
  <2>1. CASE UNCHANGED proc
    <3>1. InStep(call'[c], proc[p])
      BY <1>1, <1>4 DEF InStep, Room
    <3> QED
      BY <1>1, <2>1, <3>1
  <2>2. CASE proc' \in Ended(p)
    <3>1. /\ proc' \in [Procs -> ProcType] /\ \A s \in Procs \ {p} : proc'[s] = proc[s]
          /\ proc'[p].life = "dead" /\ proc'[p].ask = None
          /\ Len(proc'[p].out) <= Len(proc[p].out)
          /\ \A i \in 1..Len(proc'[p].out) : proc'[p].out[i] = proc[p].out[i] /\ i \in 1..Len(proc[p].out)
      BY <1>1, <2>2, EndedFacts
    <3>2. Len(proc'[p].out) \in Nat /\ Len(proc[p].out) \in Nat /\ Chunks \in Nat /\ call[c].pos \in Nat
      BY <1>1, <3>1, LenProperties, BatchPoolAssumption DEF ProcType, CallType
    <3>3. InStep(call'[c], proc'[p])
      BY <1>1, <1>4, <3>1, <3>2, SMTT(30) DEF InStep, Room
    <3> QED
      BY <3>1, <3>3
  <2> QED
    BY <2>1, <2>2
<1>6. Progress(call'[c])
  BY <1>1, <1>4 DEF Progress
<1>7. Owned' /\ Streams' /\ Calling'
  BY <1>1, <1>3, <1>4, <1>5, <1>6, Advance
<1>8. Writing'
  BY <1>3, <1>4, FilesKept DEF Kept, Calls, IInv, Writing, files, NoFile, Whole, Part
<1> QED
  BY <1>3, <1>5, <1>7, <1>8, Types DEF IInv, OtherTypes, pool, files

(* The process is closed or killed, and the call ends or tries again.      *)
LEMMA LeaveStep ==
  ASSUME IInv, NEW c \in Calls, call[c].pc \notin {"idle", "acquire"}, call[c].file = "none",
         c \in Fetchers => call[c].pc \notin {"copy", "rename", "remove"},
         call' = [call EXCEPT ![c] = NoCall] \/ call' = [call EXCEPT ![c] = AfterTry(c)],
         proc' = [proc EXCEPT ![call[c].proc] = NoProc], UNCHANGED <<pool, files, faults>>
  PROVE  IInv'
<1> DEFINE p == call[c].proc
<1>1. /\ call \in [Calls -> CallType] /\ proc \in [Procs -> ProcType]
      /\ p \in Procs /\ call[c].blob \in Blobs
  BY CallFacts
<1>2. NoProc \in ProcType /\ NoCall \in CallType
  BY EmptySeq, BatchPoolAssumption DEF NoProc, NoCall, ProcType, CallType
<1>3. \E r \in CallType :
        /\ call' = [call EXCEPT ![c] = r]
        /\ r.proc = None /\ r.pc \in {"idle", "acquire"} /\ r.file = "none" /\ Progress(r)
  <2>1. CASE call' = [call EXCEPT ![c] = NoCall]
    BY <1>2, <2>1 DEF NoCall, Progress
  <2>2. CASE call' = [call EXCEPT ![c] = AfterTry(c)]
    <3> DEFINE again == [pc |-> "acquire", blob |-> call[c].blob, proc |-> None, try |-> 2,
                         ctx |-> call[c].ctx, file |-> "none", pos |-> 0, got |-> {}]
    <3>1. again \in CallType
      BY <1>1, BatchPoolAssumption DEF CallType
    <3>2. again.proc = None /\ again.pc = "acquire" /\ again.file = "none" /\ Progress(again)
      BY <1>1 DEF Progress
    <3>3. AfterTry(c) = again \/ AfterTry(c) = NoCall
      BY DEF AfterTry, NoCall
    <3> HIDE DEF again
    <3>4. CASE AfterTry(c) = again
      <4>1. call' = [call EXCEPT ![c] = again]
        BY <2>2, <3>4
      <4> QED
        BY <3>1, <3>2, <4>1
    <3>5. CASE AfterTry(c) = NoCall
      BY <2>1, <2>2, <3>5
    <3> QED
      BY <3>3, <3>4, <3>5
  <2> QED
    BY <2>1, <2>2
<1>4. PICK r \in CallType :
        /\ call' = [call EXCEPT ![c] = r]
        /\ r.proc = None /\ r.pc \in {"idle", "acquire"} /\ r.file = "none" /\ Progress(r)
  BY <1>3
<1>5. /\ call' \in [Calls -> CallType] /\ call'[c] = r
      /\ \A d \in Calls \ {c} : call'[d] = call[d]
  BY <1>4, OneCall
<1>6. Owned' /\ Streams' /\ Calling'
  BY <1>1, <1>4, <1>5, Finish
<1>7. Writing'
  BY <1>4, <1>5, FilesKept DEF Calls
<1>8. proc' \in [Procs -> ProcType]
  BY <1>1, <1>2
<1> QED
  BY <1>5, <1>6, <1>7, <1>8, Types DEF IInv, OtherTypes, pool, files

LEMMA CloseStep == ASSUME IInv, NEW c \in Calls, Close(c) PROVE IInv'
<1>1. call[c].pc = "failed" /\ call[c].ctx \in {"live", "done", "killed"}
  BY CallFacts DEF Close, At, CallType
<1>2. call' = [call EXCEPT ![c] = [call[c] EXCEPT !.ctx = call[c].ctx, !.pc = "wait"]]
  BY CallFacts DEF Close, Goto, CallType
<1> QED
  BY <1>1, <1>2, StayStep DEF Close

LEMMA KillStep == ASSUME IInv, NEW c \in Calls, Kill(c) PROVE IInv'
<1>1. call[c].pc \in Talking /\ call[c].pc \notin {"idle", "acquire", "wait"}
  BY DEF Kill, Talking
<1>2. CASE c \in Fetchers
  <2>1. call' = [call EXCEPT ![c] = [call[c] EXCEPT !.ctx = "killed", !.pc = call[c].pc]]
    BY <1>2, CallFacts DEF Kill, CallType
  <2> QED
    BY <1>1, <1>2, <2>1, StayStep DEF Kill
<1>3. CASE c \notin Fetchers
  <2>1. call[c].file = "none"
    BY <1>3, CallFacts DEF Calls
  <2> QED
    BY <1>1, <1>3, <2>1, LeaveStep DEF Kill
<1> QED
  BY <1>2, <1>3

LEMMA LeavingSteps ==
  ASSUME IInv, NEW c \in Calls, Reap(c) \/ TooLarge(c) \/ Return(c) PROVE IInv'
<1>1. call[c].pc \in {"wait", "tooLarge", "ok", "failed"}
  BY DEF Reap, TooLarge, Return, At
<1>2. call[c].file = "none"
  BY <1>1, CallFacts DEF Progress
<1> QED
  BY <1>1, <1>2, LeaveStep DEF Reap, TooLarge, Return

(* A call outside of the pool begins, ends or loses its context.           *)
LEMMA OutsideStep ==
  ASSUME IInv, NEW c \in Calls, call[c].pc \in {"idle", "acquire"}, NEW r \in CallType,
         r.pc \in {"idle", "acquire"}, r.proc = None, r.file = "none", Progress(r),
         call' = [call EXCEPT ![c] = r], UNCHANGED <<pool, proc, files>>,
         Fault \/ UNCHANGED faults
  PROVE  IInv'
<1>1. /\ call' \in [Calls -> CallType] /\ call'[c] = r
      /\ \A d \in Calls \ {c} : call'[d] = call[d]
  BY OneCall
<1>2. /\ Owned /\ Streams /\ Calling /\ free' = free /\ maxSize' = maxSize /\ proc' = proc
  BY DEF IInv, pool
<1>3. call[c].proc = None /\ call[c].file = "none"
  BY <1>2, CallFacts DEF Owned, Progress
<1>4. \A d \in Calls : call'[d].proc = call[d].proc
  BY <1>1, <1>3
<1>5. Owned'
  <2>1. \A d \in Calls : call'[d].proc = None <=> call'[d].pc \in {"idle", "acquire"}
    BY <1>1, <1>2 DEF Owned
  <2> QED
    BY <1>2, <1>4, <2>1 DEF Owned
<1>6. Streams'
  <2>1. ASSUME NEW d \in Calls, call'[d].proc # None
        PROVE  InStep(call'[d], proc[call'[d].proc])
    BY <1>1, <1>2, <2>1 DEF Streams
  <2> QED
    BY <1>2, <2>1 DEF Streams
<1>7. Calling'
  BY <1>1, <1>2 DEF Calling, Calls
<1>8. Writing'
  BY <1>1, <1>3, FilesKept DEF Calls
<1>9. OtherTypes'
  BY Types, FaultType DEF OtherTypes, pool, files
<1> QED
  BY <1>1, <1>2, <1>5, <1>6, <1>7, <1>8, <1>9, Types, CallFacts DEF IInv

LEMMA BeginStep == ASSUME IInv, NEW c \in Calls, NEW b \in Blobs, Begin(c, b) PROVE IInv'
<1> DEFINE r == [NoCall EXCEPT !.pc = "acquire", !.blob = b]
<1>1. NoCall \in CallType
  BY BatchPoolAssumption DEF NoCall, CallType
<1>2. r \in CallType
  BY <1>1 DEF CallType
<1>3. NoCall.proc = None /\ NoCall.file = "none" /\ NoCall.pos = 0 /\ NoCall.got = {}
  BY DEF NoCall
<1>4. r.pc = "acquire" /\ r.proc = None /\ r.file = "none" /\ Progress(r)
  BY <1>1, <1>3 DEF CallType, Progress
<1>5. call' = [call EXCEPT ![c] = r]
  BY DEF Begin
<1> HIDE DEF r
<1> QED
  BY <1>2, <1>4, <1>5, OutsideStep DEF Begin, At

LEMMA CancelStep == ASSUME IInv, NEW c \in Calls, Cancel(c) PROVE IInv'
<1>1. call \in [Calls -> CallType] /\ Progress(call[c])
  BY CallFacts
<1>2. call' = [call EXCEPT ![c] = [call[c] EXCEPT !.ctx = "done"]]
  BY DEF Cancel
<1>3. CASE call[c].pc \in {"idle", "acquire"}
  <2> DEFINE r == [call[c] EXCEPT !.ctx = "done"]
  <2>1. call[c].proc = None
    BY <1>3 DEF IInv, Owned
  <2>2. r \in CallType /\ r.pc = call[c].pc /\ r.proc = None /\ r.file = "none" /\ Progress(r)
    BY <1>1, <1>3, <2>1 DEF CallType, Progress
  <2> QED
    BY <1>2, <1>3, <2>2, OutsideStep DEF Cancel
<1>4. CASE call[c].pc \notin {"idle", "acquire"}
  <2>1. call' = [call EXCEPT ![c] = [call[c] EXCEPT !.ctx = "done", !.pc = call[c].pc]]
    BY <1>1, <1>2 DEF CallType
  <2>2. CASE call[c].pc = "wait"
    BY <1>4, <2>1, <2>2, StayStep DEF Cancel
  <2>3. CASE call[c].pc # "wait"
    BY <1>4, <2>1, <2>3, StayStep DEF Cancel
  <2> QED
    BY <2>2, <2>3
<1> QED
  BY <1>3, <1>4

-----------------------------------------------------------------------------
(* Processes leave and enter the pool.                                     *)

(* What is given back has nothing left to say.                             *)
LEMMA ReleaseStep == ASSUME IInv, NEW c \in Calls, Release(c) PROVE IInv'
<1> DEFINE p == call[c].proc
<1>0. call[c].pc = "ok" /\ UNCHANGED <<maxSize, closed, files, faults>>
  BY DEF Release, At
<1>1. /\ call \in [Calls -> CallType] /\ proc \in [Procs -> ProcType]
      /\ p \in Procs /\ call[c].blob \in Blobs /\ proc[p].life \in {"up", "dead"}
      /\ InStep(call[c], proc[p]) /\ Progress(call[c])
  BY <1>0, CallFacts
<1>2. call[c].file = "none" /\ OtherTypes
  BY <1>0, <1>1, Types DEF Progress
<1>3. CASE ~(Len(free) < maxSize)
  <2>1. UNCHANGED pool /\ proc' = [proc EXCEPT ![p] = NoProc] /\ call' = [call EXCEPT ![c] = NoCall]
    BY <1>0, <1>3 DEF Release, pool
  <2> QED
    BY <1>0, <1>2, <2>1, LeaveStep
<1>4. CASE Len(free) < maxSize
  <2>1. call' = [call EXCEPT ![c] = NoCall] /\ free' = Append(free, p) /\ proc' = proc
    BY <1>4 DEF Release
  <2>2. /\ free' \in Seq(Procs) /\ Len(free') = Len(free) + 1 /\ Len(free) \in Nat
        /\ free'[Len(free) + 1] = p /\ \A i \in 1..Len(free) : free'[i] = free[i] /\ free[i] \in Procs
    BY <1>1, <1>2, <2>1, AppendProperties, LenProperties, ElementOfSeq DEF OtherTypes
  <2>3. NoCall \in CallType /\ NoCall.pc = "idle" /\ NoCall.proc = None
        /\ NoCall.file = "none" /\ Progress(NoCall)
    BY BatchPoolAssumption DEF NoCall, CallType, Progress
  <2>4. /\ call' \in [Calls -> CallType] /\ call'[c] = NoCall
        /\ \A d \in Calls \ {c} : call'[d] = call[d]
    BY <2>1, <2>3, OneCall
  <2>5. p # None /\ Owned /\ Streams /\ Calling
    BY <1>1, BatchPoolAssumption DEF IInv
  <2>6. \A d \in Calls \ {c} : call[d].proc # p
    BY <2>5 DEF Owned
  <2>7. \A i \in 1..Len(free) : free[i] # p
    BY <2>5 DEF Owned
  <2>8. Owned'
    <3>1. \A d \in Calls : call'[d].proc = None <=> call'[d].pc \in {"idle", "acquire"}
      BY <2>3, <2>4, <2>5 DEF Owned
    <3>2. \A d, e \in Calls : d # e /\ call'[d].proc # None => call'[d].proc # call'[e].proc
      BY <2>3, <2>4, <2>5 DEF Owned
    <3>3. ASSUME NEW d \in Calls, NEW i \in 1..Len(free) + 1 PROVE call'[d].proc # free'[i]
      <4>1. free'[i] # None
        BY <1>1, <2>2, BatchPoolAssumption
      <4>2. CASE i = Len(free) + 1
        BY <2>2, <2>3, <2>4, <2>5, <2>6, <4>2
      <4>3. CASE i \in 1..Len(free)
        BY <2>2, <2>3, <2>4, <2>5, <4>1, <4>3 DEF Owned
      <4> QED
        BY <2>2, <4>2, <4>3
    <3>4. \A i, j \in 1..Len(free) + 1 : i # j => free'[i] # free'[j]
      BY <2>2, <2>5, <2>7 DEF Owned
    <3>5. ASSUME NEW s \in Procs
          PROVE  proc'[s].life # "none" <=> \/ \E d \in Calls : call'[d].proc = s
                                            \/ \E i \in 1..Len(free) + 1 : free'[i] = s
      <4>1. CASE s = p
        <5>1. Len(free) + 1 \in 1..Len(free) + 1
          BY <2>2
        <5> QED
          BY <1>1, <2>1, <2>2, <4>1, <5>1
      <4>2. CASE s # p
        <5>1. (\E d \in Calls : call'[d].proc = s) <=> \E d \in Calls : call[d].proc = s
          BY <2>3, <2>4, <4>2, BatchPoolAssumption
        <5>2. (\E i \in 1..Len(free) + 1 : free'[i] = s) <=> \E i \in 1..Len(free) : free[i] = s
          BY <2>2, <4>2
        <5> QED
          BY <2>1, <2>5, <5>1, <5>2 DEF Owned
      <4> QED
        BY <4>1, <4>2
    <3>6. Len(free) + 1 <= maxSize
      BY <1>2, <1>4, <2>2, BatchPoolAssumption DEF OtherTypes
    <3> QED
      BY <1>0, <2>1, <2>2, <2>5, <3>1, <3>2, <3>3, <3>4, <3>5, <3>6 DEF Owned
  <2>9. Streams'
    <3>1. proc[p].ask = None /\ proc[p].out = <<>>
      <4>1. Len(proc[p].out) <= 0 /\ proc[p].ask = None
        BY <1>0, <1>1 DEF InStep, Room
      <4> QED
        BY <1>1, <4>1, EmptySeq, LenProperties DEF ProcType
    <3>2. ASSUME NEW d \in Calls, call'[d].proc # None PROVE InStep(call'[d], proc'[call'[d].proc])
      BY <2>1, <2>3, <2>4, <2>5, <3>2 DEF Streams
    <3>3. ASSUME NEW i \in 1..Len(free) + 1 PROVE proc'[free'[i]].ask = None /\ proc'[free'[i]].out = <<>>
      <4>1. CASE i = Len(free) + 1
        BY <2>1, <2>2, <3>1, <4>1
      <4>2. CASE i \in 1..Len(free)
        BY <2>1, <2>2, <2>5, <4>2 DEF Streams
      <4> QED
        BY <2>2, <4>1, <4>2
    <3> QED
      BY <2>1, <2>2, <2>5, <3>2, <3>3 DEF Streams
  <2>10. Calling'
    BY <2>3, <2>4, <2>5 DEF Calling, Calls
  <2>11. Writing'
    BY <1>0, <1>2, <2>3, <2>4, FilesKept DEF Calls
  <2>12. OtherTypes'
    BY <1>0, <1>2, <2>2 DEF OtherTypes, files
  <2> QED
    BY <1>1, <2>1, <2>4, <2>8, <2>9, <2>10, <2>11, <2>12, Types DEF IInv
<1> QED
  BY <1>3, <1>4

(* A call has the process p to itself and has asked it, or found it dead.  *)
LEMMA TakeStep ==
  ASSUME IInv, NEW c \in Calls, call[c].pc = "acquire", NEW p \in Procs,
         NEW q \in ProcType, proc' = [proc EXCEPT ![p] = q], NEW x \in {"header", "failed"},
         q.life \in {"up", "dead"}, q.life = "dead" => q.ask = None, q.out = <<>>,
         q.ask # None => q.ask = call[c].blob /\ x = "header",
         call' = [call EXCEPT ![c] = [call[c] EXCEPT !.proc = p, !.pc = x]],
         free' \in Seq(Procs), \A i \in 1..Len(free') : i \in 1..Len(free) /\ free'[i] = free[i] /\ free'[i] # p,
         \A i \in 1..Len(free) : i \in 1..Len(free') \/ free[i] = p,
         Len(free') <= Len(free), \A d \in Calls : call[d].proc # p,
         UNCHANGED <<maxSize, closed, files, faults>>
  PROVE  IInv'
<1>1. /\ call \in [Calls -> CallType] /\ proc \in [Procs -> ProcType] /\ Progress(call[c])
      /\ Owned /\ Streams /\ Calling /\ OtherTypes /\ p # None
  BY CallFacts, Types, BatchPoolAssumption DEF IInv
<1>2. call[c].blob \in Blobs /\ call[c].pos = 0 /\ call[c].got = {} /\ call[c].file = "none"
  BY <1>1 DEF Progress
<1> DEFINE r == [call[c] EXCEPT !.proc = p, !.pc = x]
<1>3. r \in CallType
  <2>1. x \in Talking \cup {"idle", "acquire", "wait"} /\ p \in Procs \cup {None}
    BY DEF Talking
  <2>2. call[c] \in CallType
    BY <1>1
  <2>3. \A k \in CallType, s \in Procs \cup {None}, l \in Talking \cup {"idle", "acquire", "wait"} :
          [k EXCEPT !.proc = s, !.pc = l] \in CallType
    BY DEF CallType
  <2> QED
    BY <2>1, <2>2, <2>3
<1>4. /\ call' \in [Calls -> CallType] /\ call'[c] = r
      /\ \A d \in Calls \ {c} : call'[d] = call[d]
  BY <1>3, OneCall
<1>5. /\ call'[c].proc = p /\ call'[c].pc = x /\ call'[c].blob = call[c].blob
      /\ call'[c].pos = 0 /\ call'[c].got = {} /\ call'[c].file = "none"
  BY <1>1, <1>2, <1>4 DEF CallType
<1>6. proc' \in [Procs -> ProcType] /\ proc'[p] = q /\ \A s \in Procs \ {p} : proc'[s] = proc[s]
  BY <1>1
<1>7. \A i \in 1..Len(free') : free'[i] \in Procs \ {p}
  BY ElementOfSeq
<1>8. Owned'
  <2>1. \A d \in Calls : call'[d].proc = None <=> call'[d].pc \in {"idle", "acquire"}
    BY <1>1, <1>4, <1>5 DEF Owned
  <2>2. \A d, e \in Calls : d # e /\ call'[d].proc # None => call'[d].proc # call'[e].proc
    BY <1>1, <1>4, <1>5 DEF Owned
  <2>3. \A d \in Calls, i \in 1..Len(free') : call'[d].proc # free'[i]
    BY <1>1, <1>4, <1>5 DEF Owned
  <2>4. \A i, j \in 1..Len(free') : i # j => free'[i] # free'[j]
    BY <1>1 DEF Owned
  <2>5. ASSUME NEW s \in Procs
        PROVE  /\ proc'[s].life = "none" => proc'[s] = NoProc
               /\ proc'[s].life # "none" <=> \/ \E d \in Calls : call'[d].proc = s
                                             \/ \E i \in 1..Len(free') : free'[i] = s
    <3>1. CASE s = p
      BY <1>5, <1>6, <3>1
    <3>2. CASE s # p
      <4>1. (\E d \in Calls : call'[d].proc = s) <=> \E d \in Calls : call[d].proc = s
        <5>1. call[c].proc # s
          BY <1>1, BatchPoolAssumption DEF Owned
        <5> QED
          BY <1>4, <1>5, <3>2, <5>1
      <4>2. (\E i \in 1..Len(free') : free'[i] = s) <=> \E i \in 1..Len(free) : free[i] = s
        BY <3>2
      <4> QED
        BY <1>1, <1>6, <3>2, <4>1, <4>2 DEF Owned
    <3> QED
      BY <3>1, <3>2
  <2>6. Len(free') <= maxSize'
    <3>1. Len(free) \in Nat /\ Len(free') \in Nat /\ maxSize \in Nat
      BY <1>1, LenProperties, BatchPoolAssumption DEF OtherTypes
    <3> QED
      BY <1>1, <3>1 DEF Owned
  <2> QED
    BY <2>1, <2>2, <2>3, <2>4, <2>5, <2>6 DEF Owned
<1>9. Streams'
  <2>1. ASSUME NEW d \in Calls, call'[d].proc # None PROVE InStep(call'[d], proc'[call'[d].proc])
    <3>1. CASE d = c
      <4>1. Len(q.out) = 0 /\ Chunks + 1 \in Nat
        BY EmptySeq, BatchPoolAssumption
      <4> QED
        BY <1>5, <1>6, <3>1, <4>1 DEF InStep, Room
    <3>2. CASE d # c
      <4>1. call[d].proc \in Procs \ {p}
        BY <1>1, <1>4, <2>1, <3>2 DEF CallType
      <4> QED
        BY <1>1, <1>4, <1>6, <2>1, <3>2, <4>1 DEF Streams
    <3> QED
      BY <3>1, <3>2
  <2>2. \A i \in 1..Len(free') : proc'[free'[i]].ask = None /\ proc'[free'[i]].out = <<>>
    BY <1>1, <1>6, <1>7 DEF Streams
  <2>3. \A s \in Procs : proc'[s].life = "dead" => proc'[s].ask = None
    BY <1>1, <1>6 DEF Streams
  <2> QED
    BY <2>1, <2>2, <2>3 DEF Streams
<1>10. Calling'
  <2>1. Progress(call'[c])
    BY <1>2, <1>5 DEF Progress
  <2> QED
    BY <1>1, <1>4, <1>5, <2>1 DEF Calling, Calls
<1>11. Writing'
  BY <1>2, <1>4, <1>5, FilesKept DEF Calls
<1>12. OtherTypes'
  BY <1>1 DEF OtherTypes, files
<1> QED
  BY <1>4, <1>6, <1>8, <1>9, <1>10, <1>11, <1>12, Types DEF IInv

LEMMA AcquireStep == ASSUME IInv, NEW c \in Calls, Acquire(c) PROVE IInv'
<1> DEFINE n == Len(free)
           p == free[n]
           q == IF proc[p].life = "up" THEN [proc[p] EXCEPT !.ask = call[c].blob] ELSE proc[p]
           x == IF proc[p].life = "up" THEN "header" ELSE "failed"
<1>1. call[c].pc = "acquire" /\ free # <<>> /\ free' = SubSeq(free, 1, n - 1)
      /\ UNCHANGED <<maxSize, closed, files, faults>>
  BY DEF Acquire, At
<1>2. /\ call \in [Calls -> CallType] /\ proc \in [Procs -> ProcType] /\ Progress(call[c])
      /\ Owned /\ Streams /\ free \in Seq(Procs) /\ n \in Nat \ {0}
  BY <1>1, CallFacts, Types, EmptySeq DEF IInv, OtherTypes
<1>3. p \in Procs /\ n \in 1..n /\ n - 1 \in 0..n /\ call[c].blob \in Blobs
  BY <1>1, <1>2, ElementOfSeq DEF Progress
<1>4. /\ free' \in Seq(Procs) /\ Len(free') = n - 1 /\ \A i \in 1..n - 1 : free'[i] = free[i]
  BY <1>1, <1>2, <1>3, PrefixFacts
<1>5. /\ proc[p].ask = None /\ proc[p].out = <<>> /\ proc[p].life # "none"
      /\ \A d \in Calls : call[d].proc # p
      /\ \A i \in 1..n : i # n => free[i] # p
  BY <1>2, <1>3 DEF Owned, Streams
<1>6. q \in ProcType /\ q.life \in {"up", "dead"} /\ q.out = <<>>
      /\ (q.life = "dead" => q.ask = None) /\ (q.ask # None => q.ask = call[c].blob /\ x = "header")
  <2>1. CASE proc[p].life = "up"
    BY <1>2, <1>3, <1>5, <2>1 DEF ProcType
  <2>2. CASE proc[p].life # "up"
    BY <1>2, <1>3, <1>5, <2>2 DEF ProcType
  <2> QED
    BY <2>1, <2>2
<1>7. proc' = [proc EXCEPT ![p] = q]
  BY <1>2, <1>3 DEF Acquire
<1>8. call' = [call EXCEPT ![c] = [call[c] EXCEPT !.proc = p, !.pc = x]]
  BY <1>2 DEF Acquire
<1>9. x \in {"header", "failed"}
  OBVIOUS
<1>10. /\ \A i \in 1..Len(free') : i \in 1..Len(free) /\ free'[i] = free[i] /\ free'[i] # p
       /\ \A i \in 1..Len(free) : i \in 1..Len(free') \/ free[i] = p
       /\ Len(free') <= Len(free)
  BY <1>2, <1>4, <1>5
<1> HIDE DEF p, q, x
<1> QED
  BY <1>1, <1>3, <1>4, <1>5, <1>6, <1>7, <1>8, <1>9, <1>10, TakeStep

(* There are enough slots: every process that exists outside of the pool   *)
(* is used by another call.                                                *)
LEMMA SlotLeft ==
  ASSUME IInv, NEW c \in Calls, call[c].pc = "acquire", free = <<>>
  PROVE  \E p \in Procs : proc[p] = NoProc
<1> SUFFICES ASSUME \A p \in Procs : proc[p] # NoProc PROVE FALSE
  OBVIOUS
<1>1. Owned /\ Len(free) = 0 /\ call[c].proc = None
  BY EmptySeq DEF IInv, Owned
<1>2. \A p \in Procs : \E d \in Calls : call[d].proc = p
  BY <1>1 DEF Owned
<1> DEFINE f == [p \in Procs |-> CHOOSE d \in Calls : call[d].proc = p]
<1>3. \A p \in Procs : f[p] \in Calls /\ call[f[p]].proc = p
  BY <1>2
<1>4. \A p \in Procs : f[p] # c
  BY <1>1, <1>3, BatchPoolAssumption
<1> HIDE DEF f
<1>5. f \in Injection(Procs, Calls \ {c})
  <2>1. f \in [Procs -> Calls \ {c}]
    <3>1. f = [p \in Procs |-> f[p]]
      BY DEF f
    <3> QED
      BY <1>3, <1>4, <3>1
  <2>2. \A p, s \in Procs : f[p] = f[s] => p = s
    BY <1>3
  <2> QED
    BY <2>1, <2>2 DEF Injection, IsInjective
<1>6. IsFiniteSet(Calls)
  BY BatchPoolAssumption, FS_Union DEF Calls
<1>7. IsFiniteSet(Calls \ {c}) /\ Cardinality(Calls \ {c}) = Cardinality(Calls) - 1
  BY <1>6, FS_RemoveElement
<1>8. Cardinality(Procs) <= Cardinality(Calls) - 1
  BY <1>5, <1>7, FS_Injection
<1>9. Cardinality(Procs) \in Nat /\ Cardinality(Calls) \in Nat
      /\ Cardinality(Calls) <= Cardinality(Procs)
  BY <1>6, BatchPoolAssumption, FS_CardinalityType DEF Calls
<1> QED
  BY <1>8, <1>9

LEMMA SpawnStep == ASSUME IInv, NEW c \in Calls, Spawn(c) PROVE IInv'
<1>1. call[c].pc = "acquire" /\ free = <<>> /\ UNCHANGED <<pool, files>>
  BY DEF Spawn, At
<1>2. /\ call \in [Calls -> CallType] /\ proc \in [Procs -> ProcType] /\ Progress(call[c])
      /\ Owned /\ free \in Seq(Procs) /\ Len(free) = 0
  BY <1>1, CallFacts, Types, EmptySeq DEF IInv, OtherTypes
<1> DEFINE p == CHOOSE p \in Procs : proc[p] = NoProc
           q == [life |-> "up", ask |-> call[c].blob, out |-> <<>>]
           x == "header"
<1>3. CASE /\ proc' = [proc EXCEPT ![p] = q]
           /\ call' = [call EXCEPT ![c].proc = p, ![c].pc = "header"]
           /\ UNCHANGED faults
  <2>1. p \in Procs /\ proc[p] = NoProc
    BY <1>1, SlotLeft
  <2>2. \A d \in Calls : call[d].proc # p
    <3>1. proc[p].life = "none"
      BY <2>1 DEF NoProc
    <3> QED
      BY <1>2, <2>1, <3>1 DEF Owned
  <2>3. call[c].blob \in Blobs
    BY <1>1, <1>2 DEF Progress
  <2>4. q \in ProcType /\ q.life = "up" /\ q.ask = call[c].blob /\ q.out = <<>>
    BY <2>3, EmptySeq DEF ProcType
  <2>a. q.life \in {"up", "dead"} /\ (q.life = "dead" => q.ask = None)
        /\ (q.ask # None => q.ask = call[c].blob /\ x = "header") /\ x \in {"header", "failed"}
    BY <2>4
  <2>b. proc' = [proc EXCEPT ![p] = q]
    BY <1>3
  <2> HIDE DEF p, q
  <2>5. call' = [call EXCEPT ![c] = [call[c] EXCEPT !.proc = p, !.pc = x]]
    BY <1>2, <1>3
  <2>6. /\ free' \in Seq(Procs) /\ Len(free') <= Len(free) /\ UNCHANGED <<maxSize, closed, files, faults>>
        /\ \A i \in 1..Len(free') : i \in 1..Len(free) /\ free'[i] = free[i] /\ free'[i] # p
        /\ \A i \in 1..Len(free) : i \in 1..Len(free') \/ free[i] = p
    BY <1>1, <1>2, <1>3 DEF pool, files
  <2> HIDE DEF x
  <2> QED
    BY <1>1, <2>1, <2>2, <2>4, <2>a, <2>b, <2>5, <2>6, TakeStep, ZenonT(40)
<1>4. CASE Fault /\ call' = [call EXCEPT ![c] = NoCall] /\ UNCHANGED proc
  <2>1. NoCall \in CallType /\ NoCall.pc = "idle" /\ NoCall.proc = None
        /\ NoCall.file = "none" /\ Progress(NoCall)
    BY BatchPoolAssumption DEF NoCall, CallType, Progress
  <2> QED
    BY <1>1, <1>4, <2>1, OutsideStep
<1> QED
  BY <1>3, <1>4 DEF Spawn

-----------------------------------------------------------------------------
(* The processes and the store.                                            *)

(* A process acts; its user, or the pool, still finds it as expected.      *)
LEMMA ProcStep ==
  ASSUME IInv, NEW p \in Procs, proc[p].life # "none", UNCHANGED <<pool, call, files>>,
         Fault \/ UNCHANGED faults, proc' \in [Procs -> ProcType],
         \A s \in Procs \ {p} : proc'[s] = proc[s], proc'[p].life \in {"up", "dead"},
         proc'[p].ask = None,
         \A c \in Calls : call[c].proc = p => InStep(call[c], proc'[p]),
         (\E i \in 1..Len(free) : free[i] = p) => proc'[p].out = <<>>
  PROVE  IInv'
<1>1. Owned /\ Streams /\ Calling /\ OtherTypes /\ free' = free /\ maxSize' = maxSize /\ call' = call
  BY Types DEF IInv, pool
<1>2. \A i \in 1..Len(free) : free[i] \in Procs
  BY <1>1, ElementOfSeq DEF OtherTypes
<1>3. \A c \in Calls : call[c].proc # None => call[c].proc \in Procs
  BY DEF IInv, TypeOK
<1>4. Owned'
  <2>1. ASSUME NEW s \in Procs
        PROVE  /\ proc'[s].life # "none" <=> proc[s].life # "none"
               /\ proc'[s].life = "none" => proc'[s] = NoProc
    <3>1. CASE s = p
      BY <3>1
    <3>2. CASE s # p
      BY <1>1, <3>2 DEF Owned
    <3> QED
      BY <3>1, <3>2
  <2> QED
    BY <1>1, <2>1 DEF Owned
<1>5. Streams'
  <2>1. ASSUME NEW i \in 1..Len(free) PROVE proc'[free[i]].ask = None /\ proc'[free[i]].out = <<>>
    BY <1>1, <1>2 DEF Streams
  <2>2. \A s \in Procs : proc'[s].life = "dead" => proc'[s].ask = None
    BY <1>1 DEF Streams
  <2>3. ASSUME NEW c \in Calls, call[c].proc # None PROVE InStep(call[c], proc'[call[c].proc])
    <3>1. CASE call[c].proc = p
      BY <3>1
    <3>2. CASE call[c].proc # p
      BY <1>1, <1>3, <2>3, <3>2 DEF Streams
    <3> QED
      BY <3>1, <3>2
  <2> QED
    BY <1>1, <2>1, <2>2, <2>3 DEF Streams
<1>6. Calling'
  BY <1>1 DEF Calling
<1>7. Writing'
  BY <1>1 DEF IInv, Writing, files, NoFile, Whole, Part
<1>8. OtherTypes' /\ call' \in [Calls -> CallType]
  BY <1>1, FaultType DEF IInv, TypeOK, CallType, OtherTypes, pool, files
<1> QED
  BY <1>4, <1>5, <1>6, <1>7, <1>8, Types DEF IInv

(* Only a call that waits for the header has asked for something.          *)
LEMMA GitAnswerStep == ASSUME IInv, NEW p \in Procs, GitAnswer(p) PROVE IInv'
<1>1. Owned /\ Streams /\ proc \in [Procs -> ProcType] /\ proc[p].life = "up" /\ proc[p].ask # None
      /\ UNCHANGED <<pool, call, files>> /\ Chunks \in Nat
  BY BatchPoolAssumption DEF IInv, TypeOK, ProcType, GitAnswer
<1>2. \A i \in 1..Len(free) : free[i] # p
  BY <1>1 DEF Streams
<1>3. PICK c \in Calls : call[c].proc = p
  BY <1>1, <1>2 DEF Owned
<1>4. p # None
  BY BatchPoolAssumption
<1> DEFINE b == call[c].blob
<1>5. InStep(call[c], proc[p]) /\ \A d \in Calls : call[d].proc = p => d = c
  BY <1>1, <1>3, <1>4 DEF Owned, Streams
<1>6. proc[p].ask = b /\ call[c].pc = "header" /\ proc[p].out = <<>> /\ b \in Blobs
  BY <1>1, <1>5 DEF InStep, ProcType
<1>7. PICK o \in Seq(Tokens) :
        /\ Len(o) <= Chunks + 1 /\ \A i \in 1..Len(o) : o[i][2] = b
        /\ proc' = [proc EXCEPT ![p].ask = None, ![p].out = o]
        /\ Fault \/ UNCHANGED faults
  <2>1. CASE proc' = [proc EXCEPT ![p].ask = None, ![p].out = @ \o Answer(proc[p].ask)] /\ UNCHANGED faults
    <3>1. /\ Answer(b) \in Seq(Tokens) /\ Len(Answer(b)) = Chunks + 1
          /\ \A i \in 1..Len(Answer(b)) : Answer(b)[i][2] = b
      BY <1>6, AnswerFacts
    <3>2. <<>> \o Answer(b) = Answer(b)
      BY <3>1, ConcatEmptySeq
    <3>3. proc' = [proc EXCEPT ![p].ask = None, ![p].out = Answer(b)]
      BY <1>1, <1>6, <2>1, <3>2 DEF ProcType
    <3>4. Len(Answer(b)) <= Chunks + 1
      BY <1>1, <3>1
    <3> Answer(b) \in Seq(Tokens)
      BY <3>1
    <3> WITNESS Answer(b) \in Seq(Tokens)
    <3> QED
      BY <2>1, <3>1, <3>3, <3>4
  <2>2. CASE proc' = [proc EXCEPT ![p].ask = None, ![p].out = Append(@, <<"missing", proc[p].ask>>)] /\ Fault
    <3> DEFINE t == <<"missing", b>>
               o == Append(<<>>, t)
    <3>1. t \in Tokens /\ t[2] = b /\ <<>> \in Seq(Tokens) /\ Len(<<>>) = 0
      BY <1>6, EmptySeq DEF Tokens
    <3>2. o \in Seq(Tokens) /\ Len(o) = 1 /\ o[1] = t
      BY <3>1, AppendProperties
    <3>3. proc' = [proc EXCEPT ![p].ask = None, ![p].out = o]
      BY <1>1, <1>6, <2>2 DEF ProcType
    <3>4. Len(o) <= Chunks + 1 /\ \A i \in 1..Len(o) : o[i][2] = b
      BY <1>1, <3>1, <3>2
    <3> QED
      BY <2>2, <3>2, <3>3, <3>4
  <2> QED
    BY <2>1, <2>2 DEF GitAnswer
<1>8. /\ proc' \in [Procs -> ProcType] /\ \A s \in Procs \ {p} : proc'[s] = proc[s]
      /\ proc'[p].life = "up" /\ proc'[p].ask = None /\ proc'[p].out = o
  BY <1>1, <1>7 DEF ProcType
<1>9. InStep(call[c], proc'[p])
  BY <1>6, <1>7, <1>8 DEF InStep, Room
<1> QED
  BY <1>1, <1>2, <1>5, <1>7, <1>8, <1>9, ProcStep

LEMMA GitDiesStep == ASSUME IInv, NEW p \in Procs, GitDies(p) PROVE IInv'
<1>1. Owned /\ Streams /\ proc \in [Procs -> ProcType] /\ call \in [Calls -> CallType]
      /\ proc[p].life = "up" /\ proc' \in Ended(p)
      /\ UNCHANGED <<pool, call, files>> /\ Fault
  BY DEF IInv, TypeOK, ProcType, CallType, GitDies
<1>2. /\ proc' \in [Procs -> ProcType] /\ \A s \in Procs \ {p} : proc'[s] = proc[s]
      /\ proc'[p].life = "dead" /\ proc'[p].ask = None
      /\ Len(proc'[p].out) <= Len(proc[p].out)
      /\ \A i \in 1..Len(proc'[p].out) : proc'[p].out[i] = proc[p].out[i] /\ i \in 1..Len(proc[p].out)
  BY <1>1, EndedFacts
<1>3. Len(proc'[p].out) \in Nat /\ Len(proc[p].out) \in Nat /\ proc'[p].out \in Seq(Tokens)
  BY <1>1, <1>2, LenProperties DEF ProcType
<1>4. ASSUME NEW c \in Calls, call[c].proc = p PROVE InStep(call[c], proc'[p])
  <2>1. InStep(call[c], proc[p])
    BY <1>1, <1>4, BatchPoolAssumption DEF Streams
  <2>2. call[c].pos \in Nat /\ Chunks \in Nat
    BY <1>1, BatchPoolAssumption DEF CallType
  <2>3. Room(call[c]) \in Int
    BY <2>2 DEF Room
  <2>4. \A i \in 1..Len(proc'[p].out) : proc'[p].out[i][2] = call[c].blob
    BY <1>2, <2>1 DEF InStep
  <2>5. call[c].pc \in {"header", "create", "copy", "rename", "ok"} => Len(proc'[p].out) <= Room(call[c])
    BY <1>2, <1>3, <2>1, <2>3 DEF InStep
  <2> QED
    BY <1>2, <2>4, <2>5 DEF InStep
<1>5. ASSUME NEW i \in 1..Len(free), free[i] = p PROVE proc'[p].out = <<>>
  <2>1. proc[p].out = <<>>
    BY <1>1, <1>5 DEF Streams
  <2> QED
    BY <1>2, <1>3, <2>1, EmptySeq
<1> QED
  BY <1>1, <1>2, <1>4, <1>5, ProcStep

(* The store closes what it takes out of the pool.                         *)
LEMMA ShrinkStep ==
  ASSUME IInv, NEW n \in 0..Len(free), free' = SubSeq(free, 1, n),
         maxSize' \in PoolSizes, n <= maxSize', closed' \in BOOLEAN,
         proc' = Reaped(Listed(free) \ Listed(free')), UNCHANGED <<call, files, faults>>
  PROVE  IInv'
<1>1. Owned /\ Streams /\ Calling /\ OtherTypes /\ call' = call /\ proc \in [Procs -> ProcType]
      /\ call \in [Calls -> CallType]
  BY Types DEF IInv, TypeOK, ProcType, CallType
<1>2. Len(free) \in Nat /\ DOMAIN free = 1..Len(free) /\ \A i \in 1..Len(free) : free[i] \in Procs
  BY <1>1, LenProperties, ElementOfSeq DEF OtherTypes
<1>3. free' \in Seq(Procs) /\ Len(free') = n /\ \A i \in 1..n : free'[i] = free[i] /\ i \in 1..Len(free)
  BY <1>1, <1>2, PrefixFacts DEF OtherTypes
<1>4. DOMAIN free' = 1..n
  BY <1>3, LenProperties
<1> DEFINE R == Listed(free) \ Listed(free')
<1>5. \A p \in Procs : proc'[p] = IF p \in R THEN NoProc ELSE proc[p]
  BY DEF Reaped
<1>6. \A p : p \in R <=> /\ \E i \in 1..Len(free) : free[i] = p
                         /\ ~ \E i \in 1..n : free'[i] = p
  BY <1>2, <1>4 DEF Listed
<1> HIDE DEF R
<1>7. proc' \in [Procs -> ProcType]
  <2>1. NoProc \in ProcType
    BY EmptySeq DEF NoProc, ProcType
  <2>2. proc' = [p \in Procs |-> proc'[p]]
    BY DEF Reaped
  <2> QED
    BY <1>1, <1>5, <2>1, <2>2
<1>8. \A c \in Calls : call[c].proc \notin R
  BY <1>1, <1>6 DEF Owned
<1>9. \A i \in 1..n : proc'[free'[i]] = proc[free[i]]
  BY <1>2, <1>3, <1>5, <1>6
<1>10. \A c \in Calls : call[c].proc # None => proc'[call[c].proc] = proc[call[c].proc]
  BY <1>1, <1>5, <1>8 DEF CallType
<1>11. Owned'
  <2>1. ASSUME NEW p \in Procs
        PROVE  /\ proc'[p].life = "none" => proc'[p] = NoProc
               /\ proc'[p].life # "none" <=> \/ \E c \in Calls : call[c].proc = p
                                             \/ \E i \in 1..n : free'[i] = p
    <3>1. CASE p \in R
      <4>1. proc'[p] = NoProc /\ NoProc.life = "none"
        BY <1>5, <3>1 DEF NoProc
      <4>2. ~(\E c \in Calls : call[c].proc = p) /\ ~ \E i \in 1..n : free'[i] = p
        BY <1>6, <1>8, <3>1
      <4> QED
        BY <4>1, <4>2
    <3>2. CASE p \notin R
      <4>1. proc'[p] = proc[p]
        BY <1>5, <3>2
      <4>2. (\E i \in 1..n : free'[i] = p) <=> \E i \in 1..Len(free) : free[i] = p
        BY <1>3, <1>6, <3>2
      <4> QED
        BY <1>1, <4>1, <4>2 DEF Owned
    <3> QED
      BY <3>1, <3>2
  <2>2. \A c \in Calls, i \in 1..n : call[c].proc # free'[i]
    BY <1>1, <1>3 DEF Owned
  <2>3. \A i, j \in 1..n : i # j => free'[i] # free'[j]
    BY <1>1, <1>3 DEF Owned
  <2>4. /\ \A c \in Calls : call'[c].proc = None <=> call'[c].pc \in {"idle", "acquire"}
        /\ \A c, d \in Calls : c # d /\ call'[c].proc # None => call'[c].proc # call'[d].proc
    BY <1>1 DEF Owned
  <2>5. \A c \in Calls, i \in 1..Len(free') : call'[c].proc # free'[i]
    BY <1>1, <1>3, <2>2
  <2>6. Len(free') <= maxSize' /\ \A i, j \in 1..Len(free') : i # j => free'[i] # free'[j]
    BY <1>3, <2>3
  <2>7. ASSUME NEW p \in Procs
        PROVE  /\ proc'[p].life = "none" => proc'[p] = NoProc
               /\ proc'[p].life # "none" <=> \/ \E c \in Calls : call'[c].proc = p
                                             \/ \E i \in 1..Len(free') : free'[i] = p
    <3>1. (\E c \in Calls : call'[c].proc = p) <=> \E c \in Calls : call[c].proc = p
      BY <1>1
    <3>2. (\E i \in 1..Len(free') : free'[i] = p) <=> \E i \in 1..n : free'[i] = p
      BY <1>3
    <3> QED
      BY <2>1, <3>1, <3>2
  <2> QED
    BY <2>4, <2>5, <2>6, <2>7 DEF Owned, NoProc
<1>12. Streams'
  <2>1. \A i \in 1..n : proc'[free'[i]].ask = None /\ proc'[free'[i]].out = <<>>
    BY <1>1, <1>3, <1>9 DEF Streams
  <2>2. \A p \in Procs : proc'[p].life = "dead" => proc'[p].ask = None
    <3>1. NoProc.life = "none"
      BY DEF NoProc
    <3> QED
      BY <1>1, <1>5, <3>1 DEF Streams
  <2>3. \A c \in Calls : call[c].proc # None => InStep(call[c], proc'[call[c].proc])
    BY <1>1, <1>10 DEF Streams
  <2> QED
    BY <1>1, <1>3, <2>1, <2>2, <2>3 DEF Streams
<1>13. Calling'
  BY <1>1 DEF Calling
<1>14. Writing'
  BY <1>1 DEF IInv, Writing, files, NoFile, Whole, Part
<1>15. OtherTypes'
  BY <1>1, <1>3 DEF OtherTypes, files
<1> QED
  BY <1>1, <1>7, <1>11, <1>12, <1>13, <1>14, <1>15, Types DEF IInv

LEMMA StoreSteps ==
  ASSUME IInv, CloseStore \/ \E n \in PoolSizes : SetBatchPoolSize(n)
  PROVE  IInv'
<1>1. Len(free) \in Nat /\ free \in Seq(Procs) /\ maxSize \in PoolSizes /\ closed \in BOOLEAN
  BY LenProperties DEF IInv, TypeOK
<1>2. CASE CloseStore
  <2>1. free' = SubSeq(free, 1, 0) /\ Listed(free) = Listed(free) \ Listed(free')
    <3>1. free' = <<>> /\ Listed(<<>>) = {}
      BY <1>2 DEF CloseStore, Listed
    <3>2. SubSeq(free, 1, 0) = <<>>
      BY SubSeqEmpty
    <3> QED
      BY <3>1, <3>2
  <2>2. 0 \in 0..Len(free) /\ maxSize' \in PoolSizes /\ 0 <= maxSize' /\ closed' \in BOOLEAN
    BY <1>1, <1>2, BatchPoolAssumption DEF CloseStore
  <2>3. proc' = Reaped(Listed(free) \ Listed(free')) /\ UNCHANGED <<call, files, faults>>
    BY <1>2, <2>1 DEF CloseStore
  <2> QED
    BY <2>1, <2>2, <2>3, ShrinkStep
<1>3. ASSUME NEW n \in PoolSizes, SetBatchPoolSize(n) PROVE IInv'
  <2> DEFINE k == IF Len(free) > n THEN n ELSE Len(free)
  <2>1. k \in 0..Len(free) /\ k <= n
    BY <1>1, BatchPoolAssumption
  <2>2. free' = SubSeq(free, 1, k) /\ maxSize' = n /\ closed' \in BOOLEAN
        /\ proc' = Reaped(Listed(free) \ Listed(free')) /\ UNCHANGED <<call, files, faults>>
    BY <1>1, <1>3 DEF SetBatchPoolSize
  <2> HIDE DEF k
  <2> QED
    BY <2>1, <2>2, ShrinkStep
<1> QED
  BY <1>2, <1>3

-----------------------------------------------------------------------------
(* The invariant and what follows from it.                                 *)

LEMMA Initially == Init => IInv
<1> SUFFICES ASSUME Init PROVE IInv
  OBVIOUS
<1>1. free = <<>> /\ Len(free) = 0 /\ free \in Seq(Procs)
  BY EmptySeq DEF Init
<1>2. \A c \in Calls : call[c] = NoCall
  BY DEF Init
<1>3. \A p \in Procs : proc[p] = NoProc
  BY DEF Init
<1>4. NoCall \in CallType /\ NoProc \in ProcType
  BY EmptySeq, BatchPoolAssumption DEF NoCall, NoProc, CallType, ProcType
<1>5. /\ NoCall.pc = "idle" /\ NoCall.proc = None /\ NoCall.file = "none" /\ NoCall.blob = None
      /\ Progress(NoCall)
  BY DEF NoCall, Progress
<1>6. NoProc.life = "none" /\ None \notin Blobs
  BY BatchPoolAssumption DEF NoProc
<1>7. TypeOK
  <2>1. OtherTypes
    <3>1. NoFile \in Seq(Blobs \cup {None}) /\ \A b \in Blobs : <<b>> \in Seq(Blobs \cup {None})
      BY DEF NoFile
    <3>2. PICK cut \in SUBSET Blobs : tmp = [b \in Blobs |-> IF b \in cut THEN <<b>> ELSE NoFile]
      BY DEF Init
    <3>3. tmp \in [Blobs -> Seq(Blobs \cup {None})] /\ dst \in [Blobs -> Seq(Blobs \cup {None})]
      BY <3>1, <3>2 DEF Init
    <3>4. maxSize \in PoolSizes /\ closed \in BOOLEAN /\ crossed \subseteq Blobs
      BY DEF Init
    <3>5. faults \in 0..MaxFaults
      BY BatchPoolAssumption DEF Init
    <3> QED
      BY <1>1, <3>3, <3>4, <3>5 DEF OtherTypes
  <2>2. call \in [Calls -> CallType] /\ proc \in [Procs -> ProcType]
    BY <1>4 DEF Init
  <2> QED
    BY <2>1, <2>2 DEF TypeOK, OtherTypes, CallType, ProcType
<1>8. Owned
  BY <1>1, <1>2, <1>3, <1>5, <1>6, <1>7, BatchPoolAssumption DEF Owned, TypeOK
<1>9. Streams /\ Calling
  BY <1>1, <1>2, <1>3, <1>5, <1>6 DEF Streams, Calling, Calls
<1>10. Writing
  BY <1>2, <1>5, <1>6 DEF Writing, Init, Calls
<1> QED
  BY <1>7, <1>8, <1>9, <1>10 DEF IInv

LEMMA Stutter == IInv /\ UNCHANGED vars => IInv'
<1> SUFFICES ASSUME IInv, UNCHANGED vars PROVE IInv'
  OBVIOUS
<1>1. UNCHANGED <<pool, proc, call, files, faults>>
  BY DEF vars
<1> QED
  BY <1>1 DEF IInv, TypeOK, Owned, Streams, InStep, Calling, Progress, Writing, pool, files,
     NoProc, NoFile, Whole, Part, Room, Calls, Talking, Tokens

(* Every step of a call, of git and of the store keeps the invariant.      *)
LEMMA NextStep == IInv /\ [Next]_vars => IInv'
<1> SUFFICES ASSUME IInv, [Next]_vars PROVE IInv'
  OBVIOUS
<1>1. ASSUME NEW c \in Calls, Step(c) PROVE IInv'
  BY <1>1, AcquireStep, SpawnStep, ReadHeaderStep, CreateStep, CopyStep, RenameStep, RemoveStep,
     ReleaseStep, CloseStep, KillStep, LeavingSteps DEF Step
<1>2. ASSUME NEW c \in Calls, Cancel(c) PROVE IInv'
  BY <1>2, CancelStep
<1>3. ASSUME NEW c \in Calls, NEW b \in Blobs, Begin(c, b) PROVE IInv'
  BY <1>3, BeginStep
<1>4. ASSUME NEW p \in Procs, Git(p) PROVE IInv'
  BY <1>4, GitAnswerStep, GitDiesStep DEF Git
<1>5. CASE CloseStore \/ \E n \in PoolSizes : SetBatchPoolSize(n)
  BY <1>5, StoreSteps
<1>6. CASE UNCHANGED vars
  BY <1>6, Stutter
<1> QED
  BY <1>1, <1>2, <1>3, <1>4, <1>5, <1>6 DEF Next

THEOREM Invariant == Spec => []IInv
<1>1. Init => IInv
  BY Initially
<1>2. IInv /\ [Next]_vars => IInv'
  BY NextStep
<1> QED
  BY <1>1, <1>2, PTL DEF Spec

(* Types of the pool, the processes, the calls and the files.              *)
THEOREM TypesHold == Spec => []TypeOK
<1>1. IInv => TypeOK
  BY DEF IInv
<1> QED
  BY <1>1, Invariant, PTL

(* "Callers must ensure exclusive access (the batchPool handles this)": no *)
(* two calls use one process, none is lost, and the pool is never fuller   *)
(* than its size, for any number of calls and whatever sizes are set.      *)
THEOREM PoolIsSound == Spec => []PoolSound
<1>1. ASSUME IInv PROVE PoolSound
  <2>1. Owned /\ DOMAIN free = 1..Len(free)
    BY <1>1, LenProperties DEF IInv, TypeOK
  <2>2. ASSUME NEW p \in Procs
        PROVE  Cardinality(Holders(p)) + Cardinality(Slots(p)) = IF proc[p].life = "none" THEN 0 ELSE 1
    <3>1. p # None
      BY BatchPoolAssumption
    <3>2. CASE \E c \in Calls : call[c].proc = p
      <4>1. PICK c \in Calls : call[c].proc = p
        BY <3>2
      <4>2. Holders(p) = {c} /\ Slots(p) = {}
        BY <2>1, <3>1, <4>1 DEF Owned, Holders, Slots
      <4>3. proc[p].life # "none"
        BY <2>1, <4>1 DEF Owned
      <4>4. Cardinality({c}) = 1 /\ Cardinality({}) = 0
        BY FS_Singleton, FS_EmptySet
      <4>5. Cardinality(Holders(p)) + Cardinality(Slots(p)) = 1
        BY <4>2, <4>4
      <4> QED
        BY <4>3, <4>5
    <3>3. CASE \E i \in 1..Len(free) : free[i] = p
      <4>1. PICK i \in 1..Len(free) : free[i] = p
        BY <3>3
      <4>2. Holders(p) = {} /\ Slots(p) = {i}
        BY <2>1, <3>1, <4>1 DEF Owned, Holders, Slots
      <4>3. proc[p].life # "none"
        BY <2>1, <4>1 DEF Owned
      <4>4. Cardinality({i}) = 1 /\ Cardinality({}) = 0
        BY FS_Singleton, FS_EmptySet
      <4>5. Cardinality(Holders(p)) + Cardinality(Slots(p)) = 1
        BY <4>2, <4>4
      <4> QED
        BY <4>3, <4>5
    <3>4. CASE (\A c \in Calls : call[c].proc # p) /\ \A i \in 1..Len(free) : free[i] # p
      <4>1. Holders(p) = {} /\ Slots(p) = {} /\ proc[p].life = "none"
        BY <2>1, <3>4 DEF Owned, Holders, Slots
      <4> QED
        BY <4>1, FS_EmptySet
    <3> QED
      BY <3>2, <3>3, <3>4
  <2> QED
    BY <2>1, <2>2 DEF PoolSound, Owned
<1> QED
  BY <1>1, Invariant, PTL

(* The reader of a pipe does not check which object an answer is for       *)
(* (readObjectSize); every call gets its own all the same.                 *)
THEOREM AnswersAlwaysMatch == Spec => []AnswersMatch
<1>1. IInv => AnswersMatch
  BY DEF IInv, Calling, Progress, AnswersMatch
<1> QED
  BY <1>1, Invariant, PTL

(* What fetchToFile renames into the cache is the whole blob, for any      *)
(* length of the blob, unless two runtimes' fetches wrote one file.        *)
THEOREM CacheFilesAreWhole == Spec => []CacheFileWhole
<1>1. IInv => CacheFileWhole
  BY DEF IInv, Writing, CacheFileWhole
<1> QED
  BY <1>1, Invariant, PTL
=============================================================================
