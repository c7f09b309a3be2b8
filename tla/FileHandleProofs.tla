-------------------------- MODULE FileHandleProofs --------------------------
(***************************************************************************)
(* Reads through open files, for any number of handles, reads, operations, *)
(* paths, blobs and generations: the shape of the state, that a handle's   *)
(* open file is one its path shows or may still show, and that every read  *)
(* returns what its path showed while it ran.                              *)
(***************************************************************************)
EXTENDS FileHandle, TLAPS

USE FileHandleAssumption

-----------------------------------------------------------------------------
(* The inductive invariant.                                                *)

Ops == [do : Deeds \cup {"create", "none"}, path : Paths \cup {None}, to : Paths \cup {None}]

(* An operation under way names one path, or two.                          *)
OpShape(w) ==
  IF wpc[w] = "idle" THEN op[w] = NoOp
  ELSE /\ op[w].path \in Paths
       /\ op[w].to \in Paths \cup {None} /\ op[w].to # op[w].path
       /\ op[w].do = "rename" => op[w].to \in Paths
       /\ IF wpc[w] = "create" THEN op[w].to = None ELSE op[w].do \in Deeds

Exclusive == \A v, w \in Writers : v # w => Uses(v) \cap Uses(w) = {}

Types == TypeOK /\ (\A w \in Writers : OpShape(w)) /\ Exclusive

(* No generation is newer than the one served, and a file that was opened  *)
(* for the generation served is the one its tree has.                      *)
Stamped ==
  /\ coming # None => gen < MaxGen
  /\ \A h \in Handles : cache[h] # None =>
       cache[h].gen <= gen /\ (cache[h].gen = gen => cache[h].oid = tree[path[h]])
  /\ \A r \in Readers : rpc[r] \in InRead => started[r] <= gen
  /\ \A r \in Readers : rpc[r] = "install" =>
       /\ got[r] # None /\ got[r].gen <= gen
       /\ got[r].gen = gen => got[r].oid = tree[path[rh[r]]]

Shows == \A p \in Paths : View(p) \in window[p]

(* A read of the handle is on its way to give it a file.                   *)
Brings(r, h) ==
  rh[r] = h /\ current[r] /\ (rpc[r] = "node" \/ (rpc[r] = "install" /\ got[r].gen = gen))

(* The handle has a file that the next read will use, or will have one.    *)
Warm(h) ==
  /\ path[h] # None
  /\ (cache[h] # None /\ cache[h].gen = gen) \/ \E r \in Readers : Brings(r, h)

(* No operation has the path, or one that has closed the handle's file     *)
(* after its change.                                                       *)
ClosedBy(w, h) ==
  /\ wpc[w] = "after" /\ path[h] \in Uses(w) /\ h \notin todo[w]
  /\ \A i \in 1..Len(list[w]) : list[w][i] # path[h]

Calm(h) == Quiet(path[h]) \/ \E w \in Writers : ClosedBy(w, h)

Warmth ==
  \A h \in Handles : Warm(h) =>
    /\ tree[path[h]] \in window[path[h]]
    /\ Calm(h) => row[path[h]] = NoRow

(* What a read may return.                                                 *)
ReadKept(r) ==
  LET p == path[rh[r]] IN
  /\ rpc[r] \in InRead => View(p) \in may[r] /\ (started[r] = gen => window[p] \subseteq may[r])
  /\ FoundNoRow(r) => tree[p] \in may[r]
  /\ rpc[r] = "install" => got[r].oid \in may[r]
  /\ (rpc[r] = "enter" /\ cache[rh[r]] # None /\ cache[rh[r]].gen = started[r])
       => cache[rh[r]].oid \in may[r]
  /\ rpc[r] = "answered" => ans[r] \in may[r] \cup {Error}

IInv == Types /\ Stamped /\ Shows /\ Warmth /\ \A r \in Readers : ReadKept(r)

-----------------------------------------------------------------------------
(* The types.                                                              *)

WPCs == {"idle", "before", "change", "create", "after"}
RPCs == InRead \cup {"idle", "answered"}

(* What each state function is, one by one.                                *)
LEMMA Sorts ==
  ASSUME TypeOK
  PROVE  /\ gen \in 1..MaxGen /\ gen \in Nat /\ ops \in 0..MaxOps
         /\ \A p \in Paths : /\ tree[p] \in Nodes /\ row[p] \in Contents \cup {NoRow, Deleted}
                             /\ View(p) \in Answers
         /\ \A r \in Readers : rpc[r] \in InRead =>
              rh[r] \in Handles /\ path[rh[r]] \in Paths
<1>1. Nodes \subseteq Answers /\ Contents \subseteq Answers /\ Absent \in Answers
  BY DEF Nodes, Answers, Contents
<1>2. ASSUME NEW p \in Paths PROVE View(p) \in Answers
  <2>1. tree[p] \in Nodes /\ row[p] \in Contents \cup {NoRow, Deleted}
    BY DEF TypeOK
  <2>. QED
    BY <1>1, <2>1 DEF View
<1>3. ASSUME NEW r \in Readers, rpc[r] \in InRead PROVE rh[r] \in Handles /\ path[rh[r]] \in Paths
  BY <1>3 DEF TypeOK
<1>4. gen \in 1..MaxGen /\ gen \in Nat /\ ops \in 0..MaxOps
  BY DEF TypeOK
<1>. QED
  BY <1>2, <1>3, <1>4 DEF TypeOK

(* What the history takes note of are answers.                             *)
LEMMA NoteTypes ==
  ASSUME TypeOK, Note, tree' \in [Paths -> Nodes], row' \in [Paths -> Contents \cup {NoRow, Deleted}],
         path' = path, rh' = rh
  PROVE  window' \in [Paths -> SUBSET Answers] /\ may' \in [Readers -> SUBSET Answers]
<1>1. \A p \in Paths : View(p)' \in Answers
  BY DEF View, Nodes, Answers, Contents
<1>2. \A r \in Readers : rpc[r] \in InRead => View(path[rh[r]])' \in Answers
  BY <1>1, Sorts
<1>. QED
  BY <1>1, <1>2 DEF Note, TypeOK

(* The paths of an operation.                                              *)
LEMMA UsesOf ==
  ASSUME NEW w \in Writers, OpShape(w)
  PROVE  /\ wpc[w] = "idle" => Uses(w) = {}
         /\ wpc[w] # "idle" => op[w].path \in Uses(w) /\ op[w].path \in Paths
         /\ op[w].to \in Paths => op[w].to \in Uses(w)
         /\ Uses(w) \subseteq Paths
BY DEF OpShape, Uses, NoOp

(* A step that leaves the operations alone.                                *)
LEMMA WritersKept ==
  ASSUME Types, UNCHANGED writeVars
  PROVE  /\ \A w \in Writers : OpShape(w)' /\ Uses(w)' = Uses(w)
         /\ Exclusive' /\ Busy' = Busy
BY DEF Types, writeVars, OpShape, Exclusive, Busy, Uses

(* A step of a read, which changes it, the handle's file, and no more.     *)
LEMMA ReaderTypes ==
  ASSUME Types, NEW r \in Readers, NEW to \in RPCs, To(r, to), rh' = rh,
         to \in InRead => rpc[r] \in InRead,
         UNCHANGED <<refreshVars, row, path, writeVars, window, unsure>>,
         cache' \in [Handles -> CacheFiles \cup {None}],
         \A h \in Handles : path[h] = None => cache'[h] = None,
         current' \in [Readers -> BOOLEAN],
         started' \in [Readers -> 0..MaxGen], got' \in [Readers -> CacheFiles \cup {None}],
         ans' \in [Readers -> Answers \cup {Error, None}], may' = may
  PROVE  Types'
<1>1. TypeOK
  BY DEF Types
<1>2. rpc' \in [Readers -> RPCs] /\ rpc'[r] = to /\ \A s \in Readers \ {r} : rpc'[s] = rpc[s]
  BY <1>1 DEF TypeOK, To, RPCs
<1>3. \A s \in Readers : rpc'[s] \in InRead => rh'[s] # None /\ path'[rh'[s]] # None
  BY <1>1, <1>2 DEF TypeOK
<1>4. /\ tree' = tree /\ gen' = gen /\ coming' = coming /\ row' = row /\ path' = path
      /\ wpc' = wpc /\ op' = op /\ list' = list /\ todo' = todo /\ ops' = ops
      /\ window' = window /\ unsure' = unsure
  BY DEF refreshVars, writeVars
<1>5. TypeOK'
  BY <1>1, <1>2, <1>3, <1>4 DEF TypeOK, RPCs
<1>. QED
  BY <1>5, WritersKept DEF Types

(* An answer ends the work of a read.                                      *)
LEMMA AnswerTypes ==
  ASSUME Types, NEW r \in Readers, NEW what \in Answers \cup {Error}, Answer(r, what),
         cache' \in [Handles -> CacheFiles \cup {None}],
         \A h \in Handles : path[h] = None => cache'[h] = None, UNCHANGED current
  PROVE  Types'
<1>1. /\ To(r, "answered") /\ ans' = [ans EXCEPT ![r] = what] /\ got' = [got EXCEPT ![r] = None]
      /\ started' = [started EXCEPT ![r] = 0]
      /\ UNCHANGED <<refreshVars, row, path, rh, writeVars, history>>
  BY DEF Answer
<1>2. /\ ans' \in [Readers -> Answers \cup {Error, None}]
      /\ got' \in [Readers -> CacheFiles \cup {None}] /\ started' \in [Readers -> 0..MaxGen]
      /\ current' \in [Readers -> BOOLEAN]
  BY <1>1 DEF Types, TypeOK
<1>3. "answered" \in RPCs /\ "answered" \notin InRead
  BY DEF RPCs, InRead
<1>. QED
  BY <1>1, <1>2, <1>3, ReaderTypes DEF history

LEMMA ReplyTypes ==
  ASSUME Types, NEW r \in Readers, NEW what \in Answers \cup {Error}, Reply(r, what)
  PROVE  Types'
BY AnswerTypes DEF Reply, Types, TypeOK

LEMMA LookTypes ==
  ASSUME Types, NEW r \in Readers, NEW to \in InRead, rpc[r] \in InRead, Look(r, to)
  PROVE  Types'
<1>1. /\ To(r, to) /\ UNCHANGED <<refreshVars, row, path, rh, started, ans, writeVars, history>>
      /\ UNCHANGED <<cache, current, got>>
  BY DEF Look, Step
<1>2. to \in RPCs
  BY DEF RPCs
<1>. QED
  BY <1>1, <1>2, ReaderTypes DEF history, Types, TypeOK

-----------------------------------------------------------------------------
(* The types are kept by handles and reads.                                *)

LEMMA HandleTypes ==
  ASSUME Types, NEW h \in Handles,
         ReleaseFileHandle(h) \/ \E p \in Paths : OpenFile(h, p)
  PROVE  Types'
<1>1. TypeOK
  BY DEF Types
<1>2. CASE ReleaseFileHandle(h)
  <2>1. /\ Unread(h) /\ path' = [path EXCEPT ![h] = None] /\ cache' = [cache EXCEPT ![h] = None]
        /\ UNCHANGED <<refreshVars, row, current, readVars, writeVars, history>>
    BY <1>2 DEF ReleaseFileHandle
  <2>2. /\ path' \in [Handles -> Paths \cup {None}] /\ cache' \in [Handles -> CacheFiles \cup {None}]
        /\ \A g \in Handles : path'[g] = None => cache'[g] = None
    BY <1>1, <2>1 DEF TypeOK
  <2>3. \A r \in Readers : rpc[r] \in InRead => rh[r] # None /\ path'[rh[r]] # None
    BY <1>1, <2>1, Sorts DEF TypeOK, Unread
  <2>4. TypeOK'
    BY <1>1, <2>1, <2>2, <2>3 DEF TypeOK, refreshVars, readVars, writeVars, history
  <2>. QED
    BY <2>1, <2>4, WritersKept DEF Types
<1>3. ASSUME NEW p \in Paths, OpenFile(h, p) PROVE Types'
  <2>1. /\ path[h] = None /\ path' = [path EXCEPT ![h] = p]
        /\ UNCHANGED <<refreshVars, row, cache, current, readVars, writeVars, history>>
    BY <1>3 DEF OpenFile
  <2>2. /\ path' \in [Handles -> Paths \cup {None}]
        /\ \A g \in Handles : path'[g] = None => cache[g] = None
    BY <1>1, <2>1 DEF TypeOK
  <2>3. \A r \in Readers : rpc[r] \in InRead => rh[r] # None /\ path'[rh[r]] # None
    BY <1>1, <2>1, Sorts DEF TypeOK
  <2>4. TypeOK'
    BY <1>1, <2>1, <2>2, <2>3 DEF TypeOK, refreshVars, readVars, writeVars, history
  <2>. QED
    BY <2>1, <2>4, WritersKept DEF Types
<1>. QED
  BY <1>2, <1>3

LEMMA ReadFileTypes ==
  ASSUME Types, NEW r \in Readers, NEW h \in Handles, ReadFile(r, h)
  PROVE  Types'
<1>1. TypeOK
  BY DEF Types
<1>2. /\ path[h] # None /\ To(r, "enter") /\ rh' = [rh EXCEPT ![r] = h]
      /\ started' = [started EXCEPT ![r] = gen]
      /\ may' = [may EXCEPT ![r] = window[path[h]]]
      /\ UNCHANGED <<refreshVars, row, path, cache, current, got, ans, writeVars, window, unsure>>
  BY DEF ReadFile
<1>3. path[h] \in Paths
  BY <1>1, <1>2 DEF TypeOK
<1>4. /\ rpc' \in [Readers -> RPCs] /\ rh' \in [Readers -> Handles \cup {None}]
      /\ started' \in [Readers -> 0..MaxGen] /\ may' \in [Readers -> SUBSET Answers]
  BY <1>1, <1>2, <1>3 DEF TypeOK, To, RPCs, InRead
<1>5. \A s \in Readers : rpc'[s] \in InRead => rh'[s] # None /\ path[rh'[s]] # None
  BY <1>1, <1>2, Sorts DEF TypeOK, To
<1>6. TypeOK'
  BY <1>1, <1>2, <1>4, <1>5 DEF TypeOK, refreshVars, writeVars, RPCs
<1>. QED
  BY <1>2, <1>6, WritersKept DEF Types

LEMMA ReturnTypes ==
  ASSUME Types, NEW r \in Readers, Return(r)
  PROVE  Types'
<1>1. TypeOK
  BY DEF Types
<1>2. /\ To(r, "idle") /\ rh' = [rh EXCEPT ![r] = None] /\ ans' = [ans EXCEPT ![r] = None]
      /\ current' = [current EXCEPT ![r] = FALSE] /\ may' = [may EXCEPT ![r] = {}]
      /\ UNCHANGED <<refreshVars, row, path, cache, started, got, writeVars, window, unsure>>
  BY DEF Return
<1>3. /\ rpc' \in [Readers -> RPCs] /\ rh' \in [Readers -> Handles \cup {None}]
      /\ ans' \in [Readers -> Answers \cup {Error, None}] /\ current' \in [Readers -> BOOLEAN]
      /\ may' \in [Readers -> SUBSET Answers]
  BY <1>1, <1>2 DEF TypeOK, To, RPCs
<1>4. \A s \in Readers : rpc'[s] \in InRead => rh'[s] # None /\ path[rh'[s]] # None
  BY <1>1, <1>2, Sorts DEF TypeOK, To, InRead
<1>5. TypeOK'
  BY <1>1, <1>2, <1>3, <1>4 DEF TypeOK, refreshVars, writeVars, RPCs
<1>. QED
  BY <1>2, <1>5, WritersKept DEF Types

(* A step of a read that opens or closes the handle's file.                *)
LEMMA StepTypes ==
  ASSUME Types, NEW r \in Readers, NEW to \in InRead, rpc[r] \in InRead, Step(r, to),
         cache' \in [Handles -> CacheFiles \cup {None}],
         \A h \in Handles : path[h] = None => cache'[h] = None,
         current' \in [Readers -> BOOLEAN], got' \in [Readers -> CacheFiles \cup {None}]
  PROVE  Types'
<1>1. To(r, to) /\ UNCHANGED <<refreshVars, row, path, rh, started, ans, writeVars, history>>
  BY DEF Step
<1>2. to \in RPCs
  BY DEF RPCs
<1>. QED
  BY <1>1, <1>2, ReaderTypes DEF history, Types, TypeOK

LEMMA CacheTypes ==
  ASSUME Types
  PROVE  /\ cache \in [Handles -> CacheFiles \cup {None}] /\ current \in [Readers -> BOOLEAN]
         /\ got \in [Readers -> CacheFiles \cup {None}]
         /\ \A h \in Handles : path[h] = None => cache[h] = None
         /\ \A h \in Handles : cache[h] # None =>
              cache[h] \in CacheFiles /\ cache[h].oid \in Oids /\ cache[h].gen \in 1..MaxGen
         /\ \A r \in Readers : got[r] # None =>
              got[r] \in CacheFiles /\ got[r].oid \in Oids /\ got[r].gen \in 1..MaxGen
         /\ \A h : Invalidate(h) \in [Readers -> BOOLEAN]
         /\ Oids \subseteq Answers /\ Absent \in Answers /\ Contents \subseteq Answers
BY DEF Types, TypeOK, CacheFiles, Invalidate, Answers, Contents

LEMMA DropCachedTypes ==
  ASSUME Types, NEW r \in Readers, DropCached(r)
  PROVE  Types'
<1>1. /\ rpc[r] = "enter" /\ cache' = [cache EXCEPT ![rh[r]] = None]
      /\ current' = Invalidate(rh[r]) /\ Step(r, "again") /\ got' = got
  BY DEF DropCached
<1>2. /\ cache' \in [Handles -> CacheFiles \cup {None}]
      /\ \A h \in Handles : path[h] = None => cache'[h] = None
  BY <1>1, CacheTypes
<1>. QED
  BY <1>1, <1>2, CacheTypes, StepTypes DEF InRead

LEMMA BaseNodeTypes ==
  ASSUME Types, NEW r \in Readers, BaseNode(r)
  PROVE  Types'
<1> DEFINE n == tree[path[rh[r]]]
<1>1. rpc[r] = "node" /\ n \in Nodes /\ gen \in 1..MaxGen
  BY Sorts DEF BaseNode, Types, InRead
<1>2. CASE Reply(r, Absent) \/ Reply(r, Error)
  BY <1>2, CacheTypes, ReplyTypes
<1>3. CASE /\ n # Absent /\ Step(r, "install")
           /\ got' = [got EXCEPT ![r] = [oid |-> n, gen |-> gen]]
           /\ UNCHANGED <<cache, current>>
  <2>1. [oid |-> n, gen |-> gen] \in CacheFiles
    BY <1>1, <1>3 DEF CacheFiles, Nodes
  <2>2. got' \in [Readers -> CacheFiles \cup {None}]
    BY <1>3, <2>1, CacheTypes
  <2>. QED
    BY <1>1, <1>3, <2>2, CacheTypes, StepTypes DEF InRead
<1>. QED
  BY <1>2, <1>3 DEF BaseNode

(* The cases of an install.                                                *)
LEMMA InstallCases ==
  ASSUME NEW r \in Readers, Install(r)
  PROVE  /\ rpc[r] = "install"
         /\ \/ Overtaken(r) /\ Step(r, "row") /\ got' = [got EXCEPT ![r] = None]
               /\ UNCHANGED <<cache, current>>
            \/ /\ ~Overtaken(r) /\ cache[rh[r]] # None /\ cache[rh[r]].gen = got[r].gen
               /\ Reply(r, cache[rh[r]].oid)
            \/ /\ ~Overtaken(r) /\ Answer(r, got[r].oid)
               /\ cache' = [cache EXCEPT ![rh[r]] = got[r]] /\ UNCHANGED current
<1>1. CASE Overtaken(r)
  BY <1>1 DEF Install
<1>2. CASE ~Overtaken(r) /\ cache[rh[r]] # None /\ cache[rh[r]].gen = got[r].gen
  BY <1>2 DEF Install
<1>3. CASE ~Overtaken(r) /\ ~(cache[rh[r]] # None /\ cache[rh[r]].gen = got[r].gen)
  BY <1>3 DEF Install
<1>. QED
  BY <1>1, <1>2, <1>3

LEMMA InstallTypes ==
  ASSUME Types, Stamped, NEW r \in Readers, Install(r)
  PROVE  Types'
<1>1. rpc[r] = "install" /\ rh[r] \in Handles /\ path[rh[r]] \in Paths
  BY Sorts, InstallCases DEF Types, InRead
<1>2. got[r] # None /\ got[r] \in CacheFiles /\ got[r].oid \in Answers
  BY <1>1, CacheTypes DEF Stamped
<1>3. CASE Step(r, "row") /\ got' = [got EXCEPT ![r] = None] /\ UNCHANGED <<cache, current>>
  <2>1. got' \in [Readers -> CacheFiles \cup {None}]
    BY <1>3, CacheTypes
  <2>. QED
    BY <1>1, <1>3, <2>1, CacheTypes, StepTypes DEF InRead
<1>4. CASE cache[rh[r]] # None /\ Reply(r, cache[rh[r]].oid)
  <2>1. cache[rh[r]].oid \in Answers
    BY <1>1, <1>4, CacheTypes
  <2>. QED
    BY <1>4, <2>1, ReplyTypes
<1>5. CASE Answer(r, got[r].oid) /\ cache' = [cache EXCEPT ![rh[r]] = got[r]] /\ UNCHANGED current
  <2>1. /\ cache' \in [Handles -> CacheFiles \cup {None}]
        /\ \A h \in Handles : path[h] = None => cache'[h] = None
    BY <1>1, <1>2, <1>5, CacheTypes
  <2>. QED
    BY <1>2, <1>5, <2>1, AnswerTypes
<1>. QED
  BY <1>3, <1>4, <1>5, InstallCases

(* The other steps of a read: it looks on or has its answer.               *)
LEMMA TakeSeqTypes ==
  ASSUME Types, NEW r \in Readers, TakeSeq(r)
  PROVE  Types'
<1>1. rpc[r] \in InRead /\ current' = [current EXCEPT ![r] = TRUE] /\ Step(r, "base")
      /\ UNCHANGED <<cache, got>>
  BY DEF TakeSeq, InRead
<1>2. current' \in [Readers -> BOOLEAN]
  BY <1>1, CacheTypes
<1>. QED
  BY <1>1, <1>2, CacheTypes, StepTypes DEF InRead

LEMMA UseCachedTypes ==
  ASSUME Types, NEW r \in Readers, UseCached(r)
  PROVE  Types'
<1>1. rh[r] \in Handles /\ cache[rh[r]] # None /\ Reply(r, cache[rh[r]].oid)
  BY Sorts DEF UseCached, Types, InRead
<1>. QED
  BY <1>1, CacheTypes, ReplyTypes

(* What the steps without a cache file do, with the row and node they see. *)
LEMMA RowCases ==
  ASSUME Types, NEW r \in Readers
  PROVE  /\ BaseRow(r) => /\ rpc[r] = "base"
                          /\ \/ row[path[rh[r]]] = NoRow /\ Look(r, "node")
                             \/ row[path[rh[r]]] = Deleted /\ Reply(r, Absent)
                             \/ Look(r, "row")
         /\ ReadRow(r) => /\ rpc[r] = "row"
                          /\ \/ Look(r, "resolve")
                             \/ row[path[rh[r]]] = Deleted /\ Reply(r, Absent)
                             \/ Look(r, "file")
         /\ Resolve(r) => /\ rpc[r] = "resolve"
                          /\ \/ row[path[rh[r]]] = NoRow /\ Look(r, "blob")
                             \/ row[path[rh[r]]] = Deleted /\ Reply(r, Absent)
                             \/ Reply(r, Error)
<1> DEFINE e == row[path[rh[r]]]
<1>1. CASE e = NoRow
  BY <1>1 DEF BaseRow, ReadRow, Resolve
<1>2. CASE e = Deleted
  BY <1>2 DEF BaseRow, ReadRow, Resolve
<1>3. CASE e # NoRow /\ e # Deleted
  BY <1>3 DEF BaseRow, ReadRow, Resolve
<1>. QED
  BY <1>1, <1>2, <1>3

LEMMA LooksTypes ==
  ASSUME Types, NEW r \in Readers,
         BaseRow(r) \/ ReadRow(r) \/ Resolve(r) \/ ReadBacking(r) \/ ReadBlob(r)
  PROVE  Types'
<1>1. CASE BaseRow(r) \/ ReadRow(r) \/ Resolve(r)
  <2>1. Look(r, "node") \/ Look(r, "row") \/ Look(r, "resolve") \/ Look(r, "file") \/ Look(r, "blob")
        => Types'
    BY <1>1, RowCases, LookTypes DEF InRead
  <2>2. Reply(r, Absent) \/ Reply(r, Error) => Types'
    BY CacheTypes, ReplyTypes
  <2>. QED
    BY <1>1, <2>1, <2>2, RowCases
<1>2. CASE ReadBacking(r)
  <2>1. ASSUME NEW e \in Contents, Reply(r, e) PROVE Types'
    BY <2>1, CacheTypes, ReplyTypes
  <2>2. Reply(r, Error) => Types'
    BY ReplyTypes
  <2>. QED
    BY <1>2, <2>1, <2>2 DEF ReadBacking
<1>3. CASE ReadBlob(r)
  <2>1. tree[path[rh[r]]] \in Answers
    BY <1>3, Sorts, CacheTypes DEF ReadBlob, Types, InRead, Nodes
  <2>. QED
    BY <1>3, <2>1, ReplyTypes DEF ReadBlob
<1>. QED
  BY <1>1, <1>2, <1>3

-----------------------------------------------------------------------------
(* The types are kept by operations and the refresh.                       *)

(* A step of an operation that leaves its paths as they are, or none.      *)
LEMMA WriterTypes ==
  ASSUME Types, NEW w \in Writers, OpShape(w)', Uses(w)' \subseteq Uses(w),
         UNCHANGED <<refreshVars, path, readVars>>,
         row' \in [Paths -> Contents \cup {NoRow, Deleted}],
         cache' \in [Handles -> CacheFiles \cup {None}],
         \A h \in Handles : path[h] = None => cache'[h] = None,
         current' \in [Readers -> BOOLEAN],
         wpc' \in [Writers -> WPCs], op' \in [Writers -> Ops], list' \in [Writers -> Seq(Paths)],
         todo' \in [Writers -> SUBSET Handles], ops' \in 0..MaxOps,
         unsure' \subseteq Paths,
         Note \/ UNCHANGED <<window, may>>,
         \A v \in Writers \ {w} : wpc'[v] = wpc[v] /\ op'[v] = op[v]
  PROVE  Types'
<1>1. TypeOK
  BY DEF Types
<1>2. window' \in [Paths -> SUBSET Answers] /\ may' \in [Readers -> SUBSET Answers]
  <2>1. tree' \in [Paths -> Nodes] /\ path' = path /\ rh' = rh
    BY <1>1 DEF refreshVars, readVars, TypeOK
  <2>. QED
    BY <1>1, <2>1, NoteTypes DEF TypeOK
<1>3. TypeOK'
  BY <1>1, <1>2 DEF TypeOK, refreshVars, readVars, WPCs, Ops
<1>4. \A v \in Writers \ {w} : OpShape(v)' /\ Uses(v)' = Uses(v)
  BY DEF Types, OpShape, Uses
<1>5. Exclusive'
  BY <1>4 DEF Types, Exclusive
<1>. QED
  BY <1>3, <1>4, <1>5 DEF Types

(* An operation that ends uses nothing any more.                           *)
LEMMA EndTypes ==
  ASSUME Types, NEW w \in Writers, End(w)
  PROVE  /\ wpc' \in [Writers -> WPCs] /\ op' \in [Writers -> Ops] /\ list' \in [Writers -> Seq(Paths)]
         /\ wpc'[w] = "idle" /\ op'[w] = NoOp /\ OpShape(w)' /\ Uses(w)' = {}
         /\ \A v \in Writers \ {w} : wpc'[v] = wpc[v] /\ op'[v] = op[v] /\ list'[v] = list[v]
         /\ UNCHANGED <<refreshVars, path, cache, current, readVars, todo, ops>>
<1>1. NoOp \in Ops
  BY DEF NoOp, Ops
<1>2. /\ wpc' \in [Writers -> WPCs] /\ op' \in [Writers -> Ops] /\ list' \in [Writers -> Seq(Paths)]
      /\ wpc'[w] = "idle" /\ op'[w] = NoOp
      /\ \A v \in Writers \ {w} : wpc'[v] = wpc[v] /\ op'[v] = op[v] /\ list'[v] = list[v]
  BY <1>1 DEF Types, TypeOK, End, WPCs, Ops
<1>. QED
  BY <1>2 DEF End, OpShape, Uses, NoOp

LEMMA EndedTypes ==
  ASSUME Types, NEW w \in Writers, End(w), row' \in [Paths -> Contents \cup {NoRow, Deleted}],
         unsure' \subseteq Paths, Note
  PROVE  Types'
<1>1. /\ cache' \in [Handles -> CacheFiles \cup {None}] /\ current' \in [Readers -> BOOLEAN]
      /\ \A h \in Handles : path[h] = None => cache'[h] = None
      /\ todo' \in [Writers -> SUBSET Handles] /\ ops' \in 0..MaxOps
      /\ UNCHANGED <<refreshVars, path, readVars>>
  BY EndTypes DEF Types, TypeOK
<1>. QED
  BY <1>1, EndTypes, WriterTypes

(* The next stage of an operation.                                         *)
LEMMA GoOnTypes ==
  ASSUME Types, NEW w \in Writers, NEW to \in {"change", "after"}, wpc[w] \in {"before", "change"}, GoOn(w, to),
         row' \in [Paths -> Contents \cup {NoRow, Deleted}], list' \in [Writers -> Seq(Paths)], Note
  PROVE  /\ Types' /\ wpc'[w] = to /\ \A v \in Writers \ {w} : wpc'[v] = wpc[v]
         /\ op' = op /\ Busy' = Busy /\ \A v \in Writers : Uses(v)' = Uses(v)
<1>1. /\ wpc' = [wpc EXCEPT ![w] = to] /\ op' = op
      /\ UNCHANGED <<refreshVars, path, cache, current, readVars, todo, ops, unsure>>
  BY DEF GoOn
<1>2. wpc' \in [Writers -> WPCs] /\ wpc'[w] = to /\ \A v \in Writers \ {w} : wpc'[v] = wpc[v]
  BY <1>1 DEF Types, TypeOK, WPCs
<1>3. OpShape(w)' /\ \A v \in Writers : Uses(v)' = Uses(v)
  BY <1>1, <1>2 DEF Types, OpShape, Uses
<1>4. /\ cache' \in [Handles -> CacheFiles \cup {None}] /\ current' \in [Readers -> BOOLEAN]
      /\ \A h \in Handles : path[h] = None => cache'[h] = None
      /\ todo' \in [Writers -> SUBSET Handles] /\ ops' \in 0..MaxOps /\ unsure' \subseteq Paths
      /\ op' \in [Writers -> Ops]
  BY <1>1 DEF Types, TypeOK, Ops
<1>5. Types'
  BY <1>1, <1>2, <1>3, <1>4, WriterTypes
<1>6. Busy' = Busy
  BY <1>3 DEF Busy
<1>. QED
  BY <1>1, <1>2, <1>3, <1>5, <1>6

(* An operation takes paths that no other uses.                            *)
LEMMA TakenTypes ==
  ASSUME Types, NEW w \in Writers, wpc[w] = "idle", NEW p \in Paths, NEW q \in (Paths \ {p}) \cup {None},
         {p, q} \cap Busy = {}, NEW do \in Deeds \cup {"create"}, do = "rename" => q \in Paths,
         NEW to \in {"before", "create"}, IF to = "create" THEN q = None ELSE do \in Deeds,
         wpc' = [wpc EXCEPT ![w] = to],
         op' = [op EXCEPT ![w] = [do |-> do, path |-> p, to |-> q]],
         ops < MaxOps, ops' = ops + 1, list' \in [Writers -> Seq(Paths)],
         UNCHANGED <<refreshVars, row, path, cache, current, readVars, todo, unsure>>,
         Note
  PROVE  /\ Types' /\ Uses(w) = {} /\ Uses(w)' = {p, q} \cap Paths
         /\ wpc'[w] = to /\ \A v \in Writers \ {w} : wpc'[v] = wpc[v] /\ Uses(v)' = Uses(v)
<1> DEFINE new == [do |-> do, path |-> p, to |-> q]
<1>1. TypeOK
  BY DEF Types
<1>2. new.do = do /\ new.path = p /\ new.to = q /\ new \in Ops
  BY DEF Ops
<1> HIDE DEF new
<1>3. /\ op' = [op EXCEPT ![w] = new]
  BY DEF new
<1>4. /\ op' \in [Writers -> Ops] /\ op'[w] = new /\ \A v \in Writers \ {w} : op'[v] = op[v]
      /\ wpc' \in [Writers -> WPCs] /\ wpc'[w] = to /\ \A v \in Writers \ {w} : wpc'[v] = wpc[v]
  BY <1>1, <1>2, <1>3 DEF TypeOK, Ops, WPCs
<1>5. OpShape(w)'
  BY <1>2, <1>4 DEF OpShape
<1>6. Uses(w) = {} /\ Uses(w)' = {p, q} \cap Paths
  BY <1>2, <1>4, UsesOf DEF Uses, Types
<1>7. \A v \in Writers \ {w} : OpShape(v)' /\ Uses(v)' = Uses(v) /\ {p, q} \cap Uses(v) = {}
  BY <1>4 DEF Types, OpShape, Uses, Busy
<1>8. Exclusive'
  BY <1>6, <1>7 DEF Types, Exclusive
<1>9. window' \in [Paths -> SUBSET Answers] /\ may' \in [Readers -> SUBSET Answers]
  <2>1. /\ tree' \in [Paths -> Nodes] /\ path' = path /\ rh' = rh
        /\ row' \in [Paths -> Contents \cup {NoRow, Deleted}]
    BY <1>1 DEF refreshVars, readVars, TypeOK
  <2>. QED
    BY <1>1, <2>1, NoteTypes
<1>10. TypeOK'
  BY <1>1, <1>4, <1>9 DEF TypeOK, refreshVars, readVars, WPCs, Ops
<1>. QED
  BY <1>4, <1>5, <1>6, <1>7, <1>8, <1>10 DEF Types

LEMMA BeginTypes ==
  ASSUME Types, NEW w \in Writers, NEW do \in Deeds, NEW p \in Paths, NEW q \in Paths \cup {None},
         Begin(w, do, p, q)
  PROVE  /\ Types' /\ Uses(w) = {} /\ Uses(w)' = {p, q} \cap Paths
         /\ wpc'[w] = "before" /\ \A v \in Writers \ {w} : wpc'[v] = wpc[v] /\ Uses(v)' = Uses(v)
<1>1. /\ wpc[w] = "idle" /\ ops < MaxOps /\ {p, q} \cap Busy = {}
      /\ IF do = "rename" THEN q \in Paths \ {p} ELSE q = None
      /\ ops' = ops + 1 /\ wpc' = [wpc EXCEPT ![w] = "before"]
      /\ op' = [op EXCEPT ![w] = [do |-> do, path |-> p, to |-> q]]
      /\ list' = [list EXCEPT ![w] = IF do = "rename" THEN <<p, q>> ELSE <<p>>]
      /\ UNCHANGED <<refreshVars, row, path, cache, current, readVars, todo, unsure>>
      /\ Note
  BY DEF Begin
<1>2. (IF do = "rename" THEN <<p, q>> ELSE <<p>>) \in Seq(Paths)
  BY <1>1
<1>3. list' \in [Writers -> Seq(Paths)]
  BY <1>1, <1>2 DEF Types, TypeOK
<1>. QED
  BY <1>1, <1>3, TakenTypes DEF WPCs

LEMMA LookUpForCreateTypes ==
  ASSUME Types, NEW w \in Writers, NEW p \in Paths, LookUpForCreate(w, p)
  PROVE  /\ Types' /\ Uses(w) = {} /\ Uses(w)' = {p}
         /\ wpc'[w] = "create" /\ \A v \in Writers \ {w} : wpc'[v] = wpc[v] /\ Uses(v)' = Uses(v)
<1>1. /\ wpc[w] = "idle" /\ ops < MaxOps /\ p \notin Busy
      /\ ops' = ops + 1 /\ wpc' = [wpc EXCEPT ![w] = "create"]
      /\ op' = [op EXCEPT ![w] = [do |-> "create", path |-> p, to |-> None]]
      /\ UNCHANGED <<refreshVars, row, path, cache, current, readVars, list, todo, unsure>>
      /\ Note
  BY DEF LookUpForCreate
<1>2. {p, None} \cap Busy = {}
  BY <1>1 DEF Busy, Uses
<1>3. list' \in [Writers -> Seq(Paths)] /\ {p, None} \cap Paths = {p}
  BY <1>1 DEF Types, TypeOK
<1>. QED
  BY <1>1, <1>2, <1>3, TakenTypes DEF WPCs

-----------------------------------------------------------------------------
(* The rest of the operations, and the refresh.                            *)

LEMMA ListHandlesTypes ==
  ASSUME Types, NEW w \in Writers, ListHandles(w)
  PROVE  Types'
<1>1. /\ list[w] # <<>>
      /\ todo' = [todo EXCEPT ![w] = {h \in Handles : path[h] = Head(list[w])}]
      /\ list' = [list EXCEPT ![w] = Tail(list[w])]
      /\ UNCHANGED <<refreshVars, row, path, cache, current, readVars, wpc, op, ops, history>>
  BY DEF ListHandles
<1>2. list[w] \in Seq(Paths)
  BY DEF Types, TypeOK
<1>3. Tail(list[w]) \in Seq(Paths)
  BY <1>1, <1>2
<1>4. list' \in [Writers -> Seq(Paths)] /\ todo' \in [Writers -> SUBSET Handles]
  BY <1>1, <1>3 DEF Types, TypeOK
<1>5. OpShape(w)' /\ Uses(w)' = Uses(w)
  BY <1>1 DEF Types, OpShape, Uses
<1>. QED
  BY <1>1, <1>4, <1>5, WriterTypes DEF Types, TypeOK, WPCs, Ops, history

LEMMA CloseCachedFileTypes ==
  ASSUME Types, NEW w \in Writers, NEW h \in Handles, CloseCachedFile(w, h)
  PROVE  Types'
<1>1. /\ cache' = [cache EXCEPT ![h] = None] /\ current' = Invalidate(h)
      /\ todo' = [todo EXCEPT ![w] = @ \ {h}]
      /\ UNCHANGED <<refreshVars, row, path, readVars, wpc, op, list, ops, history>>
  BY DEF CloseCachedFile
<1>2. /\ cache' \in [Handles -> CacheFiles \cup {None}] /\ current' \in [Readers -> BOOLEAN]
      /\ \A g \in Handles : path[g] = None => cache'[g] = None
      /\ todo' \in [Writers -> SUBSET Handles]
  BY <1>1, CacheTypes DEF Types, TypeOK
<1>3. OpShape(w)' /\ Uses(w)' = Uses(w)
  BY <1>1 DEF Types, OpShape, Uses
<1>. QED
  BY <1>1, <1>2, <1>3, WriterTypes, ZenonT(40) DEF Types, TypeOK, WPCs, Ops, history

(* A row that is put is one.                                               *)
LEMMA PutTypes ==
  ASSUME Types, NEW p \in Paths, NEW e \in Contents \cup {NoRow, Deleted}, Put(p, e)
  PROVE  /\ row' \in [Paths -> Contents \cup {NoRow, Deleted}] /\ row'[p] = e
         /\ \A x \in Paths \ {p} : row'[x] = row[x]
BY DEF Put, Types, TypeOK

(* What making the copy, or finding it made, may do.                       *)
LEMMA EnsureCases ==
  ASSUME Types, NEW w \in Writers, EnsureOverlay(w)
  PROVE  /\ wpc[w] = "before" /\ op[w].path \in Uses(w) /\ op[w].path \in Paths /\ Note
         /\ row' \in [Paths -> Contents \cup {NoRow, Deleted}]
         /\ \A x \in Paths \ Uses(w) : row'[x] = row[x]
         /\ \/ GoOn(w, "change") /\ UNCHANGED list
            \/ Fail(w)
<1> DEFINE p == op[w].path
<1>1. wpc[w] = "before" /\ p \in Uses(w) /\ p \in Paths /\ Note
  BY UsesOf DEF EnsureOverlay, Closed, Types
<1>2. CASE /\ Put(p, IF tree[p] # Absent THEN tree[p] ELSE 0)
           /\ GoOn(w, "change") /\ UNCHANGED list
  <2>1. (IF tree[p] # Absent THEN tree[p] ELSE 0) \in Contents
    BY <1>1, Sorts DEF Types, Nodes, Contents
  <2>. QED
    BY <1>1, <1>2, <2>1, PutTypes
<1>3. CASE row' = row /\ ((GoOn(w, "change") /\ UNCHANGED list) \/ Fail(w))
  BY <1>1, <1>3 DEF Types, TypeOK
<1>. QED
  BY <1>2, <1>3 DEF EnsureOverlay

LEMMA ChangedTypes ==
  ASSUME Types, NEW w \in Writers, wpc[w] = "change", Able(w), row' \in Changed(w)
  PROVE  /\ row' \in [Paths -> Contents \cup {NoRow, Deleted}]
         /\ \A x \in Paths \ Uses(w) : row'[x] = row[x]
<1> DEFINE p == op[w].path
<1>1. p \in Uses(w) /\ p \in Paths
  BY UsesOf DEF Types
<1>2. CASE op[w].do \in {"write", "truncate"}
  <2>1. row' = [row EXCEPT ![p] = ops] /\ ops \in Contents
    BY <1>2, Sorts DEF Changed, Types, Contents
  <2>. QED
    BY <1>1, <2>1 DEF Types, TypeOK
<1>3. CASE op[w].do = "touch"
  BY <1>3 DEF Changed, Types, TypeOK
<1>4. CASE op[w].do = "unlink"
  <2>1. row' = [row EXCEPT ![p] = Deleted]
    BY <1>4 DEF Changed
  <2>. QED
    BY <1>1, <2>1 DEF Types, TypeOK
<1>5. CASE op[w].do = "rename"
  <2>1. PICK left \in {Deleted, NoRow} : row' = [row EXCEPT ![op[w].to] = row[p], ![p] = left]
    BY <1>5 DEF Changed
  <2>2. op[w].to \in Paths /\ op[w].to \in Uses(w)
    BY <1>5, UsesOf DEF Types, OpShape
  <2>. QED
    BY <1>1, <2>1, <2>2 DEF Types, TypeOK
<1>6. op[w].do \in Deeds
  BY DEF Types, OpShape
<1>. QED
  BY <1>2, <1>3, <1>4, <1>5, <1>6 DEF Deeds

LEMMA ChangeCases ==
  ASSUME Types, NEW w \in Writers, Change(w)
  PROVE  /\ wpc[w] = "change" /\ Note
         /\ row' \in [Paths -> Contents \cup {NoRow, Deleted}]
         /\ \A x \in Paths \ Uses(w) : row'[x] = row[x]
         /\ \/ /\ GoOn(w, "after")
               /\ list' \in [Writers -> Seq(Paths)]
               /\ \A x \in Uses(w) : \E i \in 1..Len(list'[w]) : list'[w][i] = x
               /\ \A v \in Writers \ {w} : list'[v] = list[v]
            \/ Fail(w)
<1>1. wpc[w] = "change" /\ Note /\ op[w].path \in Paths /\ op[w].to \in Paths \cup {None}
  BY DEF Change, Types, OpShape
<1>2. (Fail(w) /\ row' = row) \/ (Able(w) /\ row' \in Changed(w))
  BY DEF Change
<1>3. /\ row' \in [Paths -> Contents \cup {NoRow, Deleted}]
      /\ \A x \in Paths \ Uses(w) : row'[x] = row[x]
  BY <1>1, <1>2, ChangedTypes DEF Types, TypeOK
<1>4. ASSUME ~Fail(w)
      PROVE  /\ GoOn(w, "after")
             /\ list' \in [Writers -> Seq(Paths)]
             /\ \A x \in Uses(w) : \E i \in 1..Len(list'[w]) : list'[w][i] = x
             /\ \A v \in Writers \ {w} : list'[v] = list[v]
  <2> DEFINE l == IF op[w].to = None THEN <<op[w].path>> ELSE <<op[w].path, op[w].to>>
  <2>1. GoOn(w, "after") /\ list' = [list EXCEPT ![w] = l]
    BY <1>4 DEF Change
  <2>2. l \in Seq(Paths)
    BY <1>1
  <2>3. \A x \in Uses(w) : \E i \in 1..Len(l) : l[i] = x
    <3>1. CASE op[w].to = None
      <4>1. Uses(w) = {op[w].path} /\ Len(l) = 1 /\ l[1] = op[w].path
        BY <1>1, <3>1 DEF Uses
      <4>. QED
        BY <4>1
    <3>2. CASE op[w].to # None
      <4>1. Uses(w) \subseteq {op[w].path, op[w].to} /\ Len(l) = 2 /\ l[1] = op[w].path /\ l[2] = op[w].to
        BY <1>1, <3>2 DEF Uses
      <4>. QED
        BY <4>1
    <3>. QED
      BY <3>1, <3>2
  <2> HIDE DEF l
  <2>4. list'[w] = l /\ list' \in [Writers -> Seq(Paths)] /\ \A v \in Writers \ {w} : list'[v] = list[v]
    BY <2>1, <2>2 DEF Types, TypeOK
  <2>. QED
    BY <2>1, <2>3, <2>4
<1>. QED
  BY <1>1, <1>3, <1>4

LEMMA OperateTypes ==
  ASSUME Types, NEW w \in Writers, EnsureOverlay(w) \/ Change(w) \/ Succeed(w) \/ CreateFile(w)
  PROVE  Types'
<1>1. Uses(w) \subseteq Paths /\ unsure \subseteq Paths
  BY UsesOf DEF Types, TypeOK
<1>2. ASSUME Fail(w), Note, row' \in [Paths -> Contents \cup {NoRow, Deleted}] PROVE Types'
  BY <1>1, <1>2, EndedTypes DEF Fail
<1>3. CASE EnsureOverlay(w)
  <2>1. CASE GoOn(w, "change") /\ UNCHANGED list
    BY <1>3, <2>1, EnsureCases, GoOnTypes DEF WPCs, Types, TypeOK
  <2>. QED
    BY <1>2, <1>3, <2>1, EnsureCases
<1>4. CASE Change(w)
  <2>1. CASE GoOn(w, "after") /\ list' \in [Writers -> Seq(Paths)]
    BY <1>4, <2>1, ChangeCases, GoOnTypes DEF WPCs
  <2>. QED
    BY <1>2, <1>4, <2>1, ChangeCases
<1>5. CASE Succeed(w)
  <2>1. End(w) /\ unsure' = unsure \ Uses(w) /\ row' = row /\ Note
    BY <1>5 DEF Succeed
  <2>. QED
    BY <1>1, <2>1, EndedTypes DEF Types, TypeOK
<1>6. CASE CreateFile(w)
  <2> DEFINE p == op[w].path
  <2>1. /\ wpc[w] = "create" /\ Put(p, 0) /\ End(w) /\ Note
        /\ unsure' \in {unsure \cup {p}, unsure \ {p}}
    BY <1>6 DEF CreateFile
  <2>2. p \in Paths /\ 0 \in Contents
    BY <2>1 DEF Types, OpShape, Contents
  <2>. QED
    BY <1>1, <2>1, <2>2, PutTypes, EndedTypes
<1>. QED
  BY <1>3, <1>4, <1>5, <1>6

LEMMA RefreshTypes ==
  ASSUME Types, Stamped, SetGeneration \/ (\E t \in [Paths -> Nodes] : Publish(t)) \/ \E p \in Paths : DropRow(p)
  PROVE  Types'
<1>1. TypeOK
  BY DEF Types
<1>2. ASSUME NEW t \in [Paths -> Nodes], Publish(t) PROVE Types'
  <2>1. /\ coming' = t /\ UNCHANGED <<tree, gen, row, path, cache, current, readVars, writeVars, history>>
    BY <1>2 DEF Publish
  <2>2. TypeOK'
    BY <1>1, <2>1 DEF TypeOK, readVars, writeVars, history
  <2>. QED
    BY <2>1, <2>2, WritersKept DEF Types
<1>3. ASSUME NEW p \in Paths, DropRow(p) PROVE Types'
  <2>1. /\ Put(p, NoRow) /\ Note
        /\ UNCHANGED <<refreshVars, path, cache, current, readVars, writeVars, unsure>>
    BY <1>3 DEF DropRow
  <2>2. row' \in [Paths -> Contents \cup {NoRow, Deleted}]
    BY <2>1, PutTypes
  <2>3. tree' \in [Paths -> Nodes] /\ path' = path /\ rh' = rh
    BY <1>1, <2>1 DEF TypeOK, refreshVars, readVars
  <2>4. window' \in [Paths -> SUBSET Answers] /\ may' \in [Readers -> SUBSET Answers]
    BY <1>1, <2>1, <2>2, <2>3, NoteTypes
  <2>5. TypeOK'
    BY <1>1, <2>1, <2>2, <2>4 DEF TypeOK, refreshVars, readVars, writeVars
  <2>. QED
    BY <2>1, <2>5, WritersKept DEF Types
<1>4. CASE SetGeneration
  <2>1. /\ coming # None /\ tree' = coming /\ gen' = gen + 1 /\ coming' = None
        /\ UNCHANGED <<row, path, cache, current, readVars, writeVars, unsure>>
    BY <1>4 DEF SetGeneration
  <2>2. coming \in [Paths -> Nodes] /\ gen + 1 \in 1..MaxGen
    BY <1>1, <2>1, Sorts DEF TypeOK, Stamped
  <2>3. \A p \in Paths : View(p)' \in Answers /\ coming[p] \in Answers
    BY <1>1, <2>1, <2>2 DEF TypeOK, View, Nodes, Answers, Contents
  <2>4. window' \in [Paths -> SUBSET Answers]
    BY <1>1, <1>4, <2>3 DEF SetGeneration, TypeOK
  <2>5. ASSUME NEW r \in Readers
        PROVE  may'[r] = IF rpc[r] \in InRead
                           THEN may[r] \cup {View(path[rh[r]])'}
                                \cup (IF FoundNoRow(r) THEN {coming[path[rh[r]]]} ELSE {})
                           ELSE may[r]
    BY <1>4 DEF SetGeneration
  <2>6. ASSUME NEW r \in Readers PROVE may'[r] \in SUBSET Answers
    <3>1. CASE rpc[r] \in InRead
      <4>1. path[rh[r]] \in Paths
        BY <1>1, <3>1, Sorts
      <4>2. View(path[rh[r]])' \in Answers /\ coming[path[rh[r]]] \in Answers
        <5>1. PICK p \in Paths : p = path[rh[r]]
          BY <4>1
        <5>2. View(p)' \in Answers /\ path'[rh'[r]] = p
          BY <2>1, <2>3, <5>1 DEF readVars
        <5>. QED
          BY <2>1, <2>3, <5>1, <5>2 DEF readVars, View
      <4>3. may[r] \subseteq Answers
        BY <1>1 DEF TypeOK
      <4>4. (IF FoundNoRow(r) THEN {coming[path[rh[r]]]} ELSE {}) \subseteq Answers
        BY <4>2
      <4>. QED
        BY <2>5, <3>1, <4>2, <4>3, <4>4
    <3>2. CASE rpc[r] \notin InRead
      BY <1>1, <2>5, <3>2 DEF TypeOK
    <3>. QED
      BY <3>1, <3>2
  <2>7. may' \in [Readers -> SUBSET Answers]
    BY <1>4, <2>6 DEF SetGeneration
  <2>8. TypeOK'
    BY <1>1, <2>1, <2>2, <2>4, <2>7 DEF TypeOK, readVars, writeVars
  <2>. QED
    BY <2>1, <2>8, WritersKept DEF Types
<1>. QED
  BY <1>2, <1>3, <1>4

-----------------------------------------------------------------------------
(* What a step of a read does.                                             *)

ReadStep(r) ==
  UseCached(r) \/ DropCached(r) \/ TakeSeq(r) \/ BaseRow(r) \/ BaseNode(r) \/ Install(r)
  \/ ReadRow(r) \/ ReadBacking(r) \/ Resolve(r) \/ ReadBlob(r)

Moves(r) ==
  /\ rpc[r] \in InRead
  /\ UNCHANGED <<refreshVars, row, path, rh, writeVars, history>>
  /\ rpc'[r] \in InRead => started'[r] = started[r]
  /\ \A s \in Readers : current'[s] => current[s] \/ (s = r /\ rpc'[r] = "base")
  /\ \A s \in Readers \ {r} : /\ rpc'[s] = rpc[s] /\ started'[s] = started[s]
                              /\ got'[s] = got[s] /\ ans'[s] = ans[s]

Answered(r) == rpc'[r] = "answered" /\ ans'[r] \in may[r] \cup {Error}
LooksOn(r)  == rpc'[r] \in {"again", "base", "row", "file", "resolve"}
SawNoRow(r) == rpc'[r] \in {"node", "blob"} /\ row[path[rh[r]]] = NoRow
Opened(r)   ==
  /\ rpc[r] = "node" /\ rpc'[r] = "install" /\ current' = current
  /\ got'[r] = [oid |-> tree[path[rh[r]]], gen |-> gen] /\ got'[r] # None

Outcome(r) == Answered(r) \/ LooksOn(r) \/ SawNoRow(r) \/ Opened(r)

(* A file is only closed, or it is the one the read brought.               *)
CacheMove(r) ==
  \A h \in Handles :
    \/ cache'[h] \in {cache[h], None}
    \/ Brings(r, h) /\ rpc[r] = "install" /\ cache'[h] = got[r]

LEMMA StepMoves ==
  ASSUME Types, NEW r \in Readers, NEW to \in InRead, Step(r, to), rpc[r] \in InRead,
         \A s \in Readers : current'[s] => current[s] \/ (s = r /\ to = "base"),
         \A s \in Readers \ {r} : got'[s] = got[s]
  PROVE  Moves(r) /\ rpc'[r] = to
<1>1. rpc' = [rpc EXCEPT ![r] = to] /\ UNCHANGED <<refreshVars, row, path, rh, started, ans, writeVars, history>>
  BY DEF Step, To
<1>2. rpc'[r] = to /\ \A s \in Readers \ {r} : rpc'[s] = rpc[s]
  BY <1>1 DEF Types, TypeOK
<1>. QED
  BY <1>1, <1>2 DEF Moves

LEMMA LookMoves ==
  ASSUME Types, NEW r \in Readers, NEW to \in InRead, Look(r, to), rpc[r] \in InRead
  PROVE  Moves(r) /\ rpc'[r] = to /\ CacheMove(r)
<1>1. Step(r, to) /\ UNCHANGED <<cache, current, got>>
  BY DEF Look
<1>. QED
  BY <1>1, StepMoves DEF CacheMove

LEMMA AnswerMoves ==
  ASSUME Types, NEW r \in Readers, NEW what \in Answers \cup {Error}, Answer(r, what), rpc[r] \in InRead,
         UNCHANGED current
  PROVE  Moves(r) /\ rpc'[r] = "answered" /\ ans'[r] = what
<1>1. /\ rpc' = [rpc EXCEPT ![r] = "answered"] /\ ans' = [ans EXCEPT ![r] = what]
      /\ got' = [got EXCEPT ![r] = None] /\ started' = [started EXCEPT ![r] = 0]
      /\ UNCHANGED <<refreshVars, row, path, rh, writeVars, history>>
  BY DEF Answer, To
<1>2. /\ rpc'[r] = "answered" /\ ans'[r] = what
      /\ \A s \in Readers \ {r} : /\ rpc'[s] = rpc[s] /\ started'[s] = started[s]
                                  /\ got'[s] = got[s] /\ ans'[s] = ans[s]
  BY <1>1 DEF Types, TypeOK
<1>3. rpc'[r] \notin InRead
  BY <1>2 DEF InRead
<1>. QED
  BY <1>1, <1>2, <1>3 DEF Moves

LEMMA ReplyMoves ==
  ASSUME Types, NEW r \in Readers, NEW what \in Answers \cup {Error}, Reply(r, what), rpc[r] \in InRead
  PROVE  Moves(r) /\ rpc'[r] = "answered" /\ ans'[r] = what /\ CacheMove(r)
<1>1. Answer(r, what) /\ UNCHANGED <<cache, current>>
  BY DEF Reply
<1>. QED
  BY <1>1, AnswerMoves DEF CacheMove

(* The handle's file: used, or closed.                                     *)
LEMMA CachedSteps ==
  ASSUME Types, NEW r \in Readers, ReadKept(r), UseCached(r) \/ DropCached(r) \/ TakeSeq(r)
  PROVE  Moves(r) /\ Outcome(r) /\ CacheMove(r)
<1>1. CASE UseCached(r)
  <2>1. /\ rpc[r] = "enter" /\ rpc[r] \in InRead /\ rh[r] \in Handles
        /\ cache[rh[r]] # None /\ cache[rh[r]].gen = started[r] /\ Reply(r, cache[rh[r]].oid)
    BY <1>1, Sorts DEF UseCached, InRead, Types
  <2>2. cache[rh[r]].oid \in Answers /\ cache[rh[r]].oid \in may[r]
    BY <2>1, CacheTypes DEF ReadKept
  <2>. QED
    BY <2>1, <2>2, ReplyMoves DEF Outcome, Answered
<1>2. CASE DropCached(r)
  <2>1. /\ rpc[r] \in InRead /\ cache' = [cache EXCEPT ![rh[r]] = None]
        /\ current' = Invalidate(rh[r]) /\ Step(r, "again") /\ got' = got
    BY <1>2 DEF DropCached, InRead
  <2>2. CacheMove(r)
    BY <2>1, CacheTypes DEF CacheMove
  <2>3. \A s \in Readers : current'[s] => current[s]
    BY <2>1 DEF Invalidate
  <2>4. "again" \in InRead
    BY DEF InRead
  <2>. QED
    BY <2>1, <2>2, <2>3, <2>4, StepMoves DEF Outcome, LooksOn
<1>3. CASE TakeSeq(r)
  <2>1. /\ rpc[r] \in InRead /\ current' = [current EXCEPT ![r] = TRUE] /\ Step(r, "base")
        /\ UNCHANGED <<cache, got>>
    BY <1>3 DEF TakeSeq, InRead
  <2>2. \A s \in Readers : current'[s] => current[s] \/ s = r
    BY <2>1, CacheTypes
  <2>3. "base" \in InRead /\ CacheMove(r)
    BY <2>1 DEF InRead, CacheMove
  <2>. QED
    BY <2>1, <2>2, <2>3, StepMoves DEF Outcome, LooksOn
<1>. QED
  BY <1>1, <1>2, <1>3

(* A row, or none.                                                         *)
LEMMA RowSteps ==
  ASSUME Types, NEW r \in Readers, ReadKept(r), BaseRow(r) \/ ReadRow(r) \/ Resolve(r)
  PROVE  Moves(r) /\ Outcome(r) /\ CacheMove(r)
<1>1. rpc[r] \in InRead /\ View(path[rh[r]]) \in may[r]
  BY RowCases DEF InRead, ReadKept
<1>2. ASSUME NEW to \in {"row", "resolve", "file"}, Look(r, to)
      PROVE  Moves(r) /\ Outcome(r) /\ CacheMove(r)
  <2>1. to \in InRead
    BY DEF InRead
  <2>. QED
    BY <1>1, <1>2, <2>1, LookMoves DEF Outcome, LooksOn
<1>3. ASSUME NEW to \in {"node", "blob"}, row[path[rh[r]]] = NoRow, Look(r, to)
      PROVE  Moves(r) /\ Outcome(r) /\ CacheMove(r)
  <2>1. to \in InRead
    BY DEF InRead
  <2>. QED
    BY <1>1, <1>3, <2>1, LookMoves DEF Outcome, SawNoRow
<1>4. ASSUME row[path[rh[r]]] = Deleted, Reply(r, Absent)
      PROVE  Moves(r) /\ Outcome(r) /\ CacheMove(r)
  <2>1. Absent \in may[r]
    BY <1>1, <1>4 DEF View
  <2>. QED
    BY <1>1, <1>4, <2>1, CacheTypes, ReplyMoves DEF Outcome, Answered
<1>5. ASSUME Reply(r, Error) PROVE Moves(r) /\ Outcome(r) /\ CacheMove(r)
  BY <1>1, <1>5, ReplyMoves DEF Outcome, Answered
<1>. QED
  BY <1>2, <1>3, <1>4, <1>5, RowCases

(* A backing file, a blob or a node.                                       *)
LEMMA FileSteps ==
  ASSUME Types, NEW r \in Readers, ReadKept(r), ReadBacking(r) \/ ReadBlob(r) \/ BaseNode(r)
  PROVE  Moves(r) /\ Outcome(r) /\ CacheMove(r)
<1> DEFINE p == path[rh[r]]
<1>1. rpc[r] \in InRead
  BY DEF ReadBacking, ReadBlob, BaseNode, InRead
<1>2. p \in Paths /\ tree[p] \in Nodes /\ Nodes \subseteq Answers
  BY <1>1, Sorts DEF Types, Nodes, Answers, Contents
<1>3. ASSUME NEW what \in Answers \cup {Error}, what \in may[r] \cup {Error}, Reply(r, what)
      PROVE  Moves(r) /\ Outcome(r) /\ CacheMove(r)
  BY <1>1, <1>3, ReplyMoves DEF Outcome, Answered
<1>4. CASE ReadBacking(r)
  <2>1. ASSUME row[p] \in Contents, Reply(r, row[p]) PROVE Moves(r) /\ Outcome(r) /\ CacheMove(r)
    <3>1. row[p] = View(p) /\ row[p] \in Answers /\ View(p) \in may[r]
      BY <1>1, <2>1, CacheTypes DEF View, ReadKept
    <3>. QED
      BY <1>3, <2>1, <3>1
  <2>. QED
    BY <1>3, <1>4, <2>1 DEF ReadBacking
<1>5. CASE ReadBlob(r)
  <2>1. tree[p] \in may[r]
    BY <1>5 DEF ReadBlob, ReadKept, FoundNoRow
  <2>. QED
    BY <1>2, <1>3, <1>5, <2>1 DEF ReadBlob
<1>6. CASE BaseNode(r)
  <2>1. rpc[r] = "node" /\ tree[p] \in may[r]
    BY <1>6 DEF BaseNode, ReadKept, FoundNoRow
  <2>2. CASE Reply(r, Error) \/ (tree[p] = Absent /\ Reply(r, Absent))
    BY <1>2, <1>3, <2>1, <2>2
  <2>3. CASE /\ tree[p] # Absent /\ Step(r, "install")
             /\ got' = [got EXCEPT ![r] = [oid |-> tree[p], gen |-> gen]]
             /\ UNCHANGED <<cache, current>>
    <3>1. [oid |-> tree[p], gen |-> gen] \in CacheFiles
      BY <1>2, <2>3, Sorts DEF Nodes, CacheFiles, Types
    <3>2. /\ got'[r] = [oid |-> tree[p], gen |-> gen] /\ got'[r] # None
          /\ \A s \in Readers \ {r} : got'[s] = got[s]
      BY <2>3, <3>1, CacheTypes
    <3>3. "install" \in InRead /\ CacheMove(r)
      BY <2>3 DEF InRead, CacheMove
    <3>4. Moves(r) /\ rpc'[r] = "install"
      BY <1>1, <2>3, <3>2, <3>3, StepMoves
    <3>. QED
      BY <2>1, <2>3, <3>2, <3>3, <3>4 DEF Outcome, Opened
  <2>. QED
    BY <1>6, <2>2, <2>3 DEF BaseNode
<1>. QED
  BY <1>4, <1>5, <1>6

(* The opened file: overtaken, another read's, or installed.               *)
LEMMA InstallSteps ==
  ASSUME Types, Stamped, NEW r \in Readers, ReadKept(r), Install(r)
  PROVE  Moves(r) /\ Outcome(r) /\ CacheMove(r)
<1> DEFINE h == rh[r]
<1>1. rpc[r] = "install" /\ rpc[r] \in InRead
  BY DEF Install, InRead
<1>2. h \in Handles /\ got[r] # None /\ got[r].oid \in may[r] /\ got[r].oid \in Answers
  BY <1>1, Sorts, CacheTypes DEF Stamped, ReadKept, Types
<1>3. CASE Overtaken(r)
  <2>1. Step(r, "row") /\ got' = [got EXCEPT ![r] = None] /\ UNCHANGED <<cache, current>>
    BY <1>3 DEF Install
  <2>2. "row" \in InRead /\ CacheMove(r) /\ \A s \in Readers \ {r} : got'[s] = got[s]
    BY <2>1, CacheTypes DEF InRead, CacheMove
  <2>. QED
    BY <1>1, <2>1, <2>2, StepMoves DEF Outcome, LooksOn
<1>4. CASE ~Overtaken(r) /\ cache[h] # None /\ cache[h].gen = got[r].gen
  <2>1. Reply(r, cache[h].oid)
    BY <1>4 DEF Install
  <2>2. cache[h].oid = got[r].oid
    BY <1>1, <1>2, <1>4 DEF Stamped, Overtaken
  <2>. QED
    BY <1>1, <1>2, <2>1, <2>2, ReplyMoves DEF Outcome, Answered
<1>5. CASE ~Overtaken(r) /\ ~(cache[h] # None /\ cache[h].gen = got[r].gen)
  <2>1. Answer(r, got[r].oid) /\ cache' = [cache EXCEPT ![h] = got[r]] /\ UNCHANGED current
    BY <1>5 DEF Install
  <2>2. Brings(r, h)
    BY <1>1, <1>5 DEF Brings, Overtaken
  <2>3. cache'[h] = got[r] /\ \A g \in Handles \ {h} : cache'[g] = cache[g]
    BY <1>2, <2>1, CacheTypes
  <2>4. CacheMove(r)
    BY <1>1, <2>2, <2>3 DEF CacheMove
  <2>. QED
    BY <1>1, <1>2, <2>1, <2>4, AnswerMoves DEF Outcome, Answered
<1>. QED
  BY <1>3, <1>4, <1>5

LEMMA ReadSteps ==
  ASSUME Types, Stamped, NEW r \in Readers, ReadKept(r), ReadStep(r)
  PROVE  Moves(r) /\ Outcome(r) /\ CacheMove(r)
BY CachedSteps, RowSteps, FileSteps, InstallSteps DEF ReadStep

-----------------------------------------------------------------------------
(* The invariant is kept by reads.                                         *)

Kept == \A r \in Readers : ReadKept(r)

LEMMA ReadStepTypes ==
  ASSUME Types, Stamped, NEW r \in Readers, ReadStep(r)
  PROVE  Types'
BY UseCachedTypes, DropCachedTypes, TakeSeqTypes, LooksTypes, BaseNodeTypes, InstallTypes DEF ReadStep

(* Neither paths nor windows change in a step of a read.                   *)
LEMMA MovesKeep ==
  ASSUME Types, NEW r \in Readers, Moves(r)
  PROVE  /\ UNCHANGED <<tree, gen, coming, row, path, rh, window, may, unsure, wpc, op, list, todo>>
         /\ \A p : View(p)' = View(p) /\ (Quiet(p)' <=> Quiet(p))
         /\ \A h \in Handles : Calm(h)' <=> Calm(h)
<1>1. UNCHANGED <<tree, gen, coming, row, path, rh, window, may, unsure, wpc, op, list, todo>>
  BY DEF Moves, refreshVars, writeVars, history
<1>2. \A p : View(p)' = View(p) /\ (Quiet(p)' <=> Quiet(p))
  BY <1>1 DEF View, Quiet, Busy, Uses
<1>3. \A h \in Handles : Calm(h)' <=> Calm(h)
  BY <1>1, <1>2 DEF Calm, ClosedBy, Uses
<1>. QED
  BY <1>1, <1>2, <1>3

LEMMA ReadStepStamped ==
  ASSUME Types, Stamped, NEW r \in Readers, Moves(r), Outcome(r), CacheMove(r)
  PROVE  Stamped'
<1>1. UNCHANGED <<tree, gen, coming, row, path, rh>>
  BY MovesKeep
<1>2. ASSUME NEW h \in Handles, cache'[h] # None
      PROVE  cache'[h].gen <= gen /\ (cache'[h].gen = gen => cache'[h].oid = tree[path[h]])
  <2>1. CASE cache'[h] = cache[h]
    BY <1>2, <2>1 DEF Stamped
  <2>2. CASE Brings(r, h) /\ rpc[r] = "install" /\ cache'[h] = got[r]
    BY <2>2 DEF Stamped, Brings
  <2>. QED
    BY <1>2, <2>1, <2>2 DEF CacheMove
<1>3. ASSUME NEW s \in Readers, rpc'[s] \in InRead PROVE started'[s] <= gen
  BY <1>3 DEF Moves, Stamped
<1>4. ASSUME NEW s \in Readers, rpc'[s] = "install"
      PROVE  /\ got'[s] # None /\ got'[s].gen <= gen
             /\ got'[s].gen = gen => got'[s].oid = tree[path[rh[s]]]
  <2>1. CASE s = r
    <3>1. Opened(r)
      BY <1>4, <2>1 DEF Outcome, Answered, LooksOn, SawNoRow
    <3>2. got'[r].gen = gen /\ got'[r].oid = tree[path[rh[r]]] /\ got'[r] # None
      BY <3>1 DEF Opened
    <3>. QED
      BY <2>1, <3>2, Sorts DEF Types
  <2>2. CASE s # r
    BY <1>4, <2>2 DEF Moves, Stamped
  <2>. QED
    BY <2>1, <2>2
<1>. QED
  BY <1>1, <1>2, <1>3, <1>4 DEF Stamped

(* A handle becomes warm when a read has found no row at its path.         *)
LEMMA ReadStepWarm ==
  ASSUME Types, Stamped, Shows, Warmth, NEW r \in Readers, Moves(r), Outcome(r), CacheMove(r)
  PROVE  Shows' /\ Warmth'
<1>1. /\ UNCHANGED <<tree, gen, coming, row, path, rh, window, may, unsure>>
      /\ \A p : View(p)' = View(p)
      /\ \A h \in Handles : Calm(h)' <=> Calm(h)
  BY MovesKeep
<1>2. Shows'
  BY <1>1 DEF Shows
<1>3. ASSUME NEW h \in Handles, NEW s \in Readers, Brings(s, h)', path[h] # None
      PROVE  Warm(h) \/ (tree[path[h]] \in window[path[h]] /\ row[path[h]] = NoRow)
  <2>1. rh[s] = h /\ current'[s] /\ (rpc'[s] = "node" \/ (rpc'[s] = "install" /\ got'[s].gen = gen))
    BY <1>1, <1>3 DEF Brings
  <2>2. CASE s # r
    BY <1>3, <2>1, <2>2 DEF Moves, Brings, Warm
  <2>3. CASE s = r /\ Opened(r)
    <3>1. Brings(r, h)
      BY <2>1, <2>3 DEF Opened, Brings
    <3>. QED
      BY <1>3, <3>1 DEF Warm
  <2>4. CASE s = r /\ ~Opened(r)
    <3>1. SawNoRow(r)
      BY <2>1, <2>4 DEF Outcome, Answered, LooksOn
    <3>2. row[path[h]] = NoRow
      BY <2>1, <2>4, <3>1 DEF SawNoRow
    <3>3. path[h] \in Paths
      BY <1>3 DEF Types, TypeOK
    <3>. QED
      BY <3>2, <3>3 DEF Shows, View
  <2>. QED
    BY <2>2, <2>3, <2>4
<1>4. ASSUME NEW h \in Handles, cache'[h] # None, cache'[h].gen = gen, path[h] # None
      PROVE  Warm(h)
  <2>1. CASE cache'[h] = cache[h]
    BY <1>4, <2>1 DEF Warm
  <2>2. CASE Brings(r, h)
    BY <1>4, <2>2 DEF Warm
  <2>. QED
    BY <1>4, <2>1, <2>2 DEF CacheMove
<1>5. ASSUME NEW h \in Handles, Warm(h)'
      PROVE  Warm(h) \/ (tree[path[h]] \in window[path[h]] /\ row[path[h]] = NoRow)
  <2>1. path[h] # None /\ ((cache'[h] # None /\ cache'[h].gen = gen) \/ \E s \in Readers : Brings(s, h)')
    BY <1>1, <1>5 DEF Warm
  <2>. QED
    BY <1>3, <1>4, <2>1
<1>6. Warmth'
  BY <1>1, <1>5 DEF Warmth
<1>. QED
  BY <1>2, <1>6

LEMMA ReadStepKept ==
  ASSUME Types, Stamped, Warmth, Kept, NEW r \in Readers, Moves(r), Outcome(r), CacheMove(r)
  PROVE  Kept'
<1>1. /\ UNCHANGED <<tree, gen, coming, row, path, rh, window, may, unsure>>
      /\ \A p : View(p)' = View(p)
  BY MovesKeep
<1>2. ASSUME NEW s \in Readers, s # r PROVE ReadKept(s)'
  <2> DEFINE p == path[rh[s]]
  <2>1. ReadKept(s) /\ rpc'[s] = rpc[s] /\ started'[s] = started[s] /\ got'[s] = got[s] /\ ans'[s] = ans[s]
    BY <1>2 DEF Kept, Moves
  <2>2. ASSUME rpc[s] = "enter", cache'[rh[s]] # None, cache'[rh[s]].gen = started[s]
        PROVE  cache'[rh[s]].oid \in may[s]
    <3>1. rh[s] \in Handles /\ p \in Paths /\ p # None /\ rpc[s] \in InRead
      BY <2>2, Sorts DEF Types, InRead
    <3>2. CASE cache'[rh[s]] = cache[rh[s]]
      BY <2>1, <2>2, <3>2 DEF ReadKept
    <3>3. CASE Brings(r, rh[s]) /\ rpc[r] = "install" /\ cache'[rh[s]] = got[r]
      <4>1. Warm(rh[s]) /\ rh[r] = rh[s] /\ got[r].gen = gen /\ got[r].oid = tree[p]
        BY <3>1, <3>3 DEF Warm, Brings, Stamped
      <4>2. tree[p] \in window[p]
        BY <3>1, <4>1 DEF Warmth
      <4>3. window[p] \subseteq may[s]
        BY <2>1, <2>2, <3>1, <3>3, <4>1 DEF ReadKept
      <4>. QED
        BY <3>3, <4>1, <4>2, <4>3
    <3>. QED
      BY <2>2, <3>1, <3>2, <3>3 DEF CacheMove
  <2>. QED
    BY <1>1, <2>1, <2>2 DEF ReadKept, FoundNoRow
<1>3. ReadKept(r)'
  <2> DEFINE p == path[rh[r]]
  <2>1. /\ rpc[r] \in InRead /\ (rpc'[r] \in InRead => started'[r] = started[r]) /\ ReadKept(r)
    BY DEF Moves, Kept
  <2>2. View(p) \in may[r] /\ (rpc'[r] \in InRead /\ started'[r] = gen => window[p] \subseteq may[r])
    BY <2>1 DEF ReadKept
  <2>3. CASE Answered(r)
    <3>1. rpc'[r] = "answered" /\ ans'[r] \in may[r] \cup {Error}
      BY <2>3 DEF Answered
    <3>. QED
      BY <1>1, <3>1 DEF ReadKept, FoundNoRow, InRead
  <2>4. CASE LooksOn(r)
    BY <1>1, <2>2, <2>4 DEF LooksOn, ReadKept, FoundNoRow
  <2>5. CASE SawNoRow(r)
    <3>1. tree[p] = View(p) /\ rpc'[r] \in {"node", "blob"}
      BY <2>5 DEF SawNoRow, View
    <3>. QED
      BY <1>1, <2>2, <3>1 DEF ReadKept, FoundNoRow
  <2>6. CASE Opened(r)
    <3>1. rpc'[r] = "install" /\ got'[r].oid = tree[p] /\ tree[p] \in may[r]
      BY <2>1, <2>6 DEF Opened, ReadKept, FoundNoRow
    <3>. QED
      BY <1>1, <2>2, <3>1 DEF ReadKept, FoundNoRow
  <2>. QED
    BY <2>3, <2>4, <2>5, <2>6 DEF Outcome
<1>. QED
  BY <1>2, <1>3 DEF Kept

LEMMA ReadFileKeeps ==
  ASSUME IInv, NEW r \in Readers, NEW h \in Handles, ReadFile(r, h)
  PROVE  IInv'
<1> DEFINE p == path[h]
<1>1. /\ rpc[r] = "idle" /\ path[h] # None
      /\ rpc' = [rpc EXCEPT ![r] = "enter"] /\ rh' = [rh EXCEPT ![r] = h]
      /\ started' = [started EXCEPT ![r] = gen] /\ may' = [may EXCEPT ![r] = window[path[h]]]
      /\ UNCHANGED <<refreshVars, row, path, cache, current, got, ans, writeVars, window, unsure>>
  BY DEF ReadFile, To
<1>2. Types /\ Stamped /\ Shows /\ Warmth /\ (\A s \in Readers : ReadKept(s)) /\ TypeOK
  BY DEF IInv, Types
<1>3. /\ rpc'[r] = "enter" /\ rh'[r] = h /\ started'[r] = gen /\ may'[r] = window[p]
      /\ \A s \in Readers \ {r} : rpc'[s] = rpc[s] /\ rh'[s] = rh[s] /\ started'[s] = started[s] /\ may'[s] = may[s]
  BY <1>1, <1>2 DEF TypeOK
<1>4. /\ UNCHANGED <<tree, gen, coming, row, path, cache, current, got, ans, window, unsure, wpc, op, list, todo>>
  BY <1>1 DEF refreshVars, writeVars
<1>5. /\ \A q : View(q)' = View(q) /\ (Quiet(q)' <=> Quiet(q))
      /\ \A g \in Handles : Calm(g)' <=> Calm(g)
  <2>1. \A q : View(q)' = View(q) /\ (Quiet(q)' <=> Quiet(q))
    BY <1>4 DEF View, Quiet, Busy, Uses
  <2>. QED
    BY <1>4, <2>1 DEF Calm, ClosedBy, Uses
<1>6. Stamped'
  <2>1. \A s \in Readers : rpc'[s] \in InRead => started'[s] <= gen
    BY <1>2, <1>3, Sorts DEF Stamped
  <2>. QED
    BY <1>2, <1>3, <1>4, <2>1 DEF Stamped
<1>7. Shows'
  BY <1>2, <1>4, <1>5 DEF Shows
<1>8. Warmth'
  <2>1. \A s \in Readers, g \in Handles : Brings(s, g)' => Brings(s, g)
    BY <1>3, <1>4 DEF Brings
  <2>2. \A g \in Handles : Warm(g)' => Warm(g)
    BY <1>4, <2>1 DEF Warm
  <2>. QED
    BY <1>2, <1>4, <1>5, <2>2 DEF Warmth
<1>9. \A s \in Readers \ {r} : ReadKept(s)'
  BY <1>2, <1>3, <1>4, <1>5 DEF ReadKept, FoundNoRow
<1>10. ReadKept(r)'
  <2>1. p \in Paths
    BY <1>1, <1>2 DEF TypeOK
  <2>2. View(p) \in window[p]
    BY <1>2, <2>1 DEF Shows
  <2>3. ASSUME cache[h] # None, cache[h].gen = gen PROVE cache[h].oid \in window[p]
    <3>1. cache[h].oid = tree[p] /\ Warm(h)
      BY <1>1, <1>2, <2>3 DEF Stamped, Warm
    <3>. QED
      BY <1>2, <3>1 DEF Warmth
  <2>. QED
    BY <1>3, <1>4, <1>5, <2>2, <2>3 DEF ReadKept, FoundNoRow
<1>. QED
  BY <1>2, <1>6, <1>7, <1>8, <1>9, <1>10, ReadFileTypes DEF IInv

LEMMA ReturnKeeps ==
  ASSUME IInv, NEW r \in Readers, Return(r)
  PROVE  IInv'
<1>1. /\ rpc[r] = "answered"
      /\ rpc' = [rpc EXCEPT ![r] = "idle"] /\ rh' = [rh EXCEPT ![r] = None] /\ ans' = [ans EXCEPT ![r] = None]
      /\ current' = [current EXCEPT ![r] = FALSE] /\ may' = [may EXCEPT ![r] = {}]
      /\ UNCHANGED <<refreshVars, row, path, cache, started, got, writeVars, window, unsure>>
  BY DEF Return, To
<1>2. Types /\ Stamped /\ Shows /\ Warmth /\ (\A s \in Readers : ReadKept(s)) /\ TypeOK
  BY DEF IInv, Types
<1>3. /\ rpc'[r] = "idle"
      /\ \A s \in Readers \ {r} : rpc'[s] = rpc[s] /\ rh'[s] = rh[s] /\ current'[s] = current[s] /\ may'[s] = may[s]
                                  /\ ans'[s] = ans[s]
  BY <1>1, <1>2 DEF TypeOK
<1>4. /\ UNCHANGED <<tree, gen, coming, row, path, cache, started, got, window, unsure, wpc, op, list, todo>>
  BY <1>1 DEF refreshVars, writeVars
<1>5. /\ \A q : View(q)' = View(q) /\ (Quiet(q)' <=> Quiet(q))
      /\ \A g \in Handles : Calm(g)' <=> Calm(g)
  <2>1. \A q : View(q)' = View(q) /\ (Quiet(q)' <=> Quiet(q))
    BY <1>4 DEF View, Quiet, Busy, Uses
  <2>. QED
    BY <1>4, <2>1 DEF Calm, ClosedBy, Uses
<1>6. Stamped'
  BY <1>2, <1>3, <1>4 DEF Stamped, InRead
<1>7. Shows'
  BY <1>2, <1>4, <1>5 DEF Shows
<1>8. Warmth'
  <2>1. \A s \in Readers, g \in Handles : Brings(s, g)' => Brings(s, g)
    BY <1>3, <1>4 DEF Brings
  <2>2. \A g \in Handles : Warm(g)' => Warm(g)
    BY <1>4, <2>1 DEF Warm
  <2>. QED
    BY <1>2, <1>4, <1>5, <2>2 DEF Warmth
<1>9. \A s \in Readers \ {r} : ReadKept(s)'
  BY <1>2, <1>3, <1>4, <1>5 DEF ReadKept, FoundNoRow
<1>10. ReadKept(r)'
  BY <1>3 DEF ReadKept, FoundNoRow, InRead
<1>. QED
  BY <1>2, <1>6, <1>7, <1>8, <1>9, <1>10, ReturnTypes DEF IInv

LEMMA ReadKeeps ==
  ASSUME IInv, NEW r \in Readers, Read(r)
  PROVE  IInv'
<1>1. CASE ReadStep(r)
  <2>1. Moves(r) /\ Outcome(r) /\ CacheMove(r)
    BY <1>1, ReadSteps DEF IInv
  <2>. QED
    BY <1>1, <2>1, ReadStepTypes, ReadStepStamped, ReadStepWarm, ReadStepKept DEF IInv, Kept
<1>2. CASE \E h \in Handles : ReadFile(r, h)
  BY <1>2, ReadFileKeeps
<1>3. CASE Return(r)
  BY <1>3, ReturnKeeps
<1>. QED
  BY <1>1, <1>2, <1>3 DEF Read, ReadStep

-----------------------------------------------------------------------------
(* The invariant is kept by handles and by closing their files.            *)

LEMMA OpenFileKeeps ==
  ASSUME IInv, NEW h \in Handles, NEW p \in Paths, OpenFile(h, p)
  PROVE  IInv'
<1>1. Types /\ Stamped /\ Shows /\ Warmth /\ (\A r \in Readers : ReadKept(r)) /\ TypeOK
  BY DEF IInv, Types
<1>2. /\ path[h] = None /\ path' = [path EXCEPT ![h] = p]
      /\ UNCHANGED <<refreshVars, row, cache, current, readVars, writeVars, history>>
  BY DEF OpenFile
<1>3. UNCHANGED <<tree, gen, coming, row, cache, current, rpc, rh, started, got, ans, window, may, unsure,
                  wpc, op, list, todo>>
  BY <1>2 DEF refreshVars, readVars, writeVars, history
<1>4. \A g \in Handles \ {h} : path'[g] = path[g]
  BY <1>1, <1>2 DEF TypeOK
<1>5. \A q : View(q)' = View(q) /\ (Quiet(q)' <=> Quiet(q))
  BY <1>3 DEF View, Quiet, Busy, Uses
<1>6. cache[h] = None /\ \A r \in Readers : rpc[r] \in InRead => rh[r] # h /\ path'[rh[r]] = path[rh[r]]
  BY <1>1, <1>2, <1>4 DEF TypeOK
<1>7. Stamped'
  <2>1. \A r \in Readers : rpc[r] = "install" => rpc[r] \in InRead
    BY DEF InRead
  <2>. QED
    BY <1>1, <1>3, <1>4, <1>6, <2>1 DEF Stamped
<1>8. Shows'
  BY <1>1, <1>3, <1>5 DEF Shows
<1>9. Warmth'
  <2>1. \A r \in Readers, g \in Handles : Brings(r, g)' => Brings(r, g) /\ g # h
    BY <1>3, <1>6 DEF Brings, InRead
  <2>2. \A g \in Handles : Warm(g)' => Warm(g) /\ g # h
    BY <1>3, <1>4, <1>6, <2>1 DEF Warm
  <2>3. \A g \in Handles \ {h} : Calm(g)' => Calm(g)
    BY <1>3, <1>4, <1>5 DEF Calm, ClosedBy, Uses
  <2>. QED
    BY <1>1, <1>3, <1>4, <2>2, <2>3 DEF Warmth
<1>10. ASSUME NEW r \in Readers PROVE ReadKept(r)'
  <2>1. ReadKept(r)
    BY <1>1
  <2>2. CASE rpc[r] \in InRead
    BY <1>3, <1>5, <1>6, <2>1, <2>2 DEF ReadKept, FoundNoRow
  <2>3. CASE rpc[r] \notin InRead
    BY <1>3, <2>1, <2>3 DEF ReadKept, FoundNoRow, InRead
  <2>. QED
    BY <2>2, <2>3
<1>. QED
  BY <1>1, <1>7, <1>8, <1>9, <1>10, HandleTypes DEF IInv

LEMMA ReleaseKeeps ==
  ASSUME IInv, NEW h \in Handles, ReleaseFileHandle(h)
  PROVE  IInv'
<1>1. Types /\ Stamped /\ Shows /\ Warmth /\ (\A r \in Readers : ReadKept(r)) /\ TypeOK
  BY DEF IInv, Types
<1>2. /\ path' = [path EXCEPT ![h] = None] /\ cache' = [cache EXCEPT ![h] = None] /\ Unread(h)
      /\ UNCHANGED <<refreshVars, row, current, readVars, writeVars, history>>
  BY DEF ReleaseFileHandle
<1>3. UNCHANGED <<tree, gen, coming, row, current, rpc, rh, started, got, ans, window, may, unsure,
                  wpc, op, list, todo>>
  BY <1>2 DEF refreshVars, readVars, writeVars, history
<1>4. /\ path'[h] = None /\ cache'[h] = None
      /\ \A g \in Handles \ {h} : path'[g] = path[g] /\ cache'[g] = cache[g]
  BY <1>1, <1>2 DEF TypeOK
<1>5. \A q : View(q)' = View(q) /\ (Quiet(q)' <=> Quiet(q))
  BY <1>3 DEF View, Quiet, Busy, Uses
<1>6. \A r \in Readers : rpc[r] \in InRead =>
        rh[r] # h /\ path'[rh[r]] = path[rh[r]] /\ cache'[rh[r]] = cache[rh[r]]
  BY <1>1, <1>2, <1>4 DEF TypeOK, Unread
<1>7. Stamped'
  <2>1. \A r \in Readers : rpc[r] = "install" => rpc[r] \in InRead
    BY DEF InRead
  <2>. QED
    BY <1>1, <1>3, <1>4, <1>6, <2>1 DEF Stamped
<1>8. Shows'
  BY <1>1, <1>3, <1>5 DEF Shows
<1>9. Warmth'
  <2>1. \A r \in Readers, g \in Handles : Brings(r, g)' => Brings(r, g)
    BY <1>3 DEF Brings
  <2>2. \A g \in Handles : Warm(g)' => Warm(g) /\ g # h
    BY <1>3, <1>4, <2>1 DEF Warm
  <2>3. \A g \in Handles \ {h} : Calm(g)' => Calm(g)
    BY <1>3, <1>4, <1>5 DEF Calm, ClosedBy, Uses
  <2>. QED
    BY <1>1, <1>3, <1>4, <2>2, <2>3 DEF Warmth
<1>10. ASSUME NEW r \in Readers PROVE ReadKept(r)'
  <2>1. ReadKept(r)
    BY <1>1
  <2>2. CASE rpc[r] \in InRead
    BY <1>3, <1>5, <1>6, <2>1, <2>2 DEF ReadKept, FoundNoRow
  <2>3. CASE rpc[r] \notin InRead
    BY <1>3, <2>1, <2>3 DEF ReadKept, FoundNoRow, InRead
  <2>. QED
    BY <2>2, <2>3
<1>. QED
  BY <1>1, <1>7, <1>8, <1>9, <1>10, HandleTypes DEF IInv

LEMMA ListHandlesKeeps ==
  ASSUME IInv, NEW w \in Writers, ListHandles(w)
  PROVE  IInv'
<1>1. Types /\ Stamped /\ Shows /\ Warmth /\ (\A r \in Readers : ReadKept(r)) /\ TypeOK
  BY DEF IInv, Types
<1>2. /\ todo[w] = {} /\ list[w] # <<>>
      /\ todo' = [todo EXCEPT ![w] = {h \in Handles : path[h] = Head(list[w])}]
      /\ list' = [list EXCEPT ![w] = Tail(list[w])]
      /\ UNCHANGED <<refreshVars, row, path, cache, current, readVars, wpc, op, ops, history>>
  BY DEF ListHandles
<1>3. UNCHANGED <<tree, gen, coming, row, path, cache, current, rpc, rh, started, got, ans, window, may, unsure,
                  wpc, op>>
  BY <1>2 DEF refreshVars, readVars, history
<1>4. \A q : View(q)' = View(q) /\ (Quiet(q)' <=> Quiet(q))
  BY <1>3 DEF View, Quiet, Busy, Uses
<1>5. ASSUME NEW h \in Handles, ClosedBy(w, h)' PROVE ClosedBy(w, h)
  <2>1. /\ todo'[w] = {g \in Handles : path[g] = Head(list[w])} /\ list'[w] = Tail(list[w])
        /\ list[w] \in Seq(Paths)
    BY <1>1, <1>2 DEF TypeOK
  <2>2. /\ wpc[w] = "after" /\ path[h] \in Uses(w) /\ path[h] # Head(list[w])
        /\ \A i \in 1..Len(Tail(list[w])) : Tail(list[w])[i] # path[h]
    BY <1>3, <1>5, <2>1 DEF ClosedBy, Uses
  <2>3. ASSUME NEW i \in 1..Len(list[w]) PROVE list[w][i] # path[h]
    <3>1. CASE i = 1
      BY <1>2, <2>1, <2>2, <3>1
    <3>2. CASE i # 1
      <4>1. i - 1 \in 1..Len(Tail(list[w])) /\ Tail(list[w])[i - 1] = list[w][i]
        BY <1>2, <2>1, <3>2
      <4>. QED
        BY <2>2, <4>1
    <3>. QED
      BY <3>1, <3>2
  <2>. QED
    BY <1>2, <2>2, <2>3 DEF ClosedBy
<1>6. ASSUME NEW h \in Handles, NEW v \in Writers \ {w}, ClosedBy(v, h)' PROVE ClosedBy(v, h)
  <2>1. todo'[v] = todo[v] /\ list'[v] = list[v]
    BY <1>1, <1>2 DEF TypeOK
  <2>. QED
    BY <1>3, <1>6, <2>1 DEF ClosedBy, Uses
<1>7. \A h \in Handles : Calm(h)' => Calm(h)
  BY <1>3, <1>4, <1>5, <1>6 DEF Calm
<1>8. Stamped' /\ Shows'
  BY <1>1, <1>3, <1>4 DEF Stamped, Shows
<1>9. Warmth'
  <2>1. \A h \in Handles : Warm(h)' => Warm(h)
    BY <1>3 DEF Warm, Brings
  <2>. QED
    BY <1>1, <1>3, <1>7, <2>1 DEF Warmth
<1>10. \A r \in Readers : ReadKept(r)'
  BY <1>1, <1>3, <1>4 DEF ReadKept, FoundNoRow
<1>. QED
  BY <1>1, <1>8, <1>9, <1>10, ListHandlesTypes DEF IInv

LEMMA CloseCachedFileKeeps ==
  ASSUME IInv, NEW w \in Writers, NEW h \in Handles, CloseCachedFile(w, h)
  PROVE  IInv'
<1>1. Types /\ Stamped /\ Shows /\ Warmth /\ (\A r \in Readers : ReadKept(r)) /\ TypeOK
  BY DEF IInv, Types
<1>2. /\ cache' = [cache EXCEPT ![h] = None] /\ current' = Invalidate(h)
      /\ todo' = [todo EXCEPT ![w] = @ \ {h}]
      /\ UNCHANGED <<refreshVars, row, path, readVars, wpc, op, list, ops, history>>
  BY DEF CloseCachedFile
<1>3. UNCHANGED <<tree, gen, coming, row, path, rpc, rh, started, got, ans, window, may, unsure, wpc, op, list>>
  BY <1>2 DEF refreshVars, readVars, history
<1>4. \A q : View(q)' = View(q) /\ (Quiet(q)' <=> Quiet(q))
  BY <1>3 DEF View, Quiet, Busy, Uses
<1>5. /\ cache'[h] = None /\ \A g \in Handles \ {h} : cache'[g] = cache[g]
      /\ \A r \in Readers : current'[r] => current[r] /\ rh[r] # h
  BY <1>1, <1>2 DEF TypeOK, Invalidate
<1>6. \A g \in Handles : Warm(g)' => Warm(g) /\ g # h
  BY <1>3, <1>5 DEF Warm, Brings
<1>7. \A g \in Handles \ {h}, v \in Writers : ClosedBy(v, g)' => ClosedBy(v, g)
  <2>1. \A g \in Handles \ {h}, v \in Writers : g \in todo[v] => g \in todo'[v]
    BY <1>1, <1>2 DEF TypeOK
  <2>. QED
    BY <1>3, <2>1 DEF ClosedBy, Uses
<1>8. Stamped'
  <2>1. \A g \in Handles : cache'[g] # None => cache'[g] = cache[g]
    BY <1>5
  <2>. QED
    BY <1>1, <1>3, <2>1 DEF Stamped
<1>9. Shows'
  BY <1>1, <1>3, <1>4 DEF Shows
<1>10. Warmth'
  BY <1>1, <1>3, <1>4, <1>6, <1>7 DEF Warmth, Calm
<1>11. ASSUME NEW r \in Readers PROVE ReadKept(r)'
  <2>1. rpc[r] = "enter" => rh[r] \in Handles
    BY <1>1, Sorts DEF InRead
  <2>. QED
    BY <1>1, <1>3, <1>4, <1>5, <2>1 DEF ReadKept, FoundNoRow
<1>. QED
  BY <1>1, <1>8, <1>9, <1>10, <1>11, CloseCachedFileTypes DEF IInv

-----------------------------------------------------------------------------
(* The invariant is kept by operations on rows, and by the refresh.        *)

(* What the history notes of a row suffices for the reads under way, and   *)
(* for the handles if those it calls calm have no row.                     *)
LEMMA NoteKeeps ==
  ASSUME IInv, Note, UNCHANGED <<refreshVars, path, cache, current, readVars>>,
         \A h \in Handles : Warm(h) /\ Calm(h)' => row'[path[h]] = NoRow
  PROVE  Stamped' /\ Shows' /\ Warmth' /\ \A r \in Readers : ReadKept(r)'
<1>1. Types /\ Stamped /\ Shows /\ Warmth /\ (\A r \in Readers : ReadKept(r)) /\ TypeOK
  BY DEF IInv, Types
<1>2. UNCHANGED <<tree, gen, coming, path, cache, current, rpc, rh, started, got, ans>>
  BY DEF refreshVars, readVars
<1>3. ASSUME NEW p \in Paths
      PROVE  /\ View(p)' \in window'[p] /\ window'[p] \subseteq window[p] \cup {View(p)'}
             /\ ~Quiet(p)' => window[p] \subseteq window'[p]
  BY DEF Note
<1>4. Stamped'
  BY <1>1, <1>2 DEF Stamped
<1>5. Shows'
  BY <1>3 DEF Shows
<1>6. Warmth'
  <2>1. ASSUME NEW h \in Handles, Warm(h)'
        PROVE  tree'[path'[h]] \in window'[path'[h]] /\ (Calm(h)' => row'[path'[h]] = NoRow)
    <3>1. Warm(h)
      BY <1>2, <2>1 DEF Warm, Brings
    <3>2. PICK p \in Paths : p = path[h]
      BY <1>1, <3>1 DEF Warm, TypeOK
    <3>3. tree[p] \in window[p] /\ (Calm(h)' => row'[p] = NoRow)
      BY <1>1, <3>1, <3>2 DEF Warmth
    <3>4. CASE Quiet(p)'
      <4>1. path'[h] = p
        BY <1>2, <3>2
      <4>2. Calm(h)'
        BY <3>4, <4>1 DEF Calm, Quiet, Busy
      <4>3. View(p)' = tree[p]
        BY <1>2, <3>3, <4>2 DEF View
      <4>. QED
        BY <1>2, <1>3, <3>2, <3>3, <4>3
    <3>5. CASE ~Quiet(p)'
      BY <1>2, <1>3, <3>2, <3>3, <3>5
    <3>. QED
      BY <3>4, <3>5
  <2>. QED
    BY <2>1 DEF Warmth
<1>7. ASSUME NEW r \in Readers PROVE ReadKept(r)'
  <2>1. ReadKept(r)
    BY <1>1
  <2>2. CASE rpc[r] \in InRead
    <3>1. PICK p \in Paths : p = path[rh[r]]
      BY <1>1, <2>2, Sorts
    <3>2. path'[rh'[r]] = p
      BY <1>2, <3>1
    <3>3. View(path[rh[r]])' = View(p)'
      BY <3>2 DEF View
    <3>4. may'[r] = may[r] \cup {View(p)'}
      BY <2>2, <3>3 DEF Note
    <3>5. started[r] = gen => window'[p] \subseteq may'[r]
      BY <1>3, <2>1, <2>2, <3>1, <3>4 DEF ReadKept
    <3>6. /\ FoundNoRow(r) => tree[p] \in may[r]
          /\ rpc[r] = "install" => got[r].oid \in may[r]
          /\ (rpc[r] = "enter" /\ cache[rh[r]] # None /\ cache[rh[r]].gen = started[r])
               => cache[rh[r]].oid \in may[r]
          /\ rpc[r] # "answered"
      BY <2>1, <2>2, <3>1 DEF ReadKept, InRead
    <3>. QED
      BY <1>2, <3>2, <3>3, <3>4, <3>5, <3>6 DEF ReadKept, FoundNoRow
  <2>3. CASE rpc[r] \notin InRead
    <3>1. may'[r] = may[r]
      BY <2>3 DEF Note
    <3>. QED
      BY <1>2, <2>1, <2>3, <3>1 DEF ReadKept, FoundNoRow, InRead
  <2>. QED
    BY <2>2, <2>3
<1>. QED
  BY <1>4, <1>5, <1>6, <1>7

(* An operation changes the rows of its own paths, and what it calls calm  *)
(* was calm.                                                               *)
LEMMA OperationKeeps ==
  ASSUME IInv, Note, UNCHANGED <<refreshVars, path, cache, current, readVars, todo>>, NEW w \in Writers,
         \A p \in Paths : Quiet(p)' => Quiet(p),
         \A v \in Writers \ {w} : wpc'[v] = wpc[v] /\ list'[v] = list[v] /\ Uses(v)' = Uses(v),
         \A x \in Paths \ Uses(w) : row'[x] = row[x],
         \A h \in Handles : ~ClosedBy(w, h)'
  PROVE  Stamped' /\ Shows' /\ Warmth' /\ \A r \in Readers : ReadKept(r)'
<1>1. Types /\ Warmth /\ TypeOK
  BY DEF IInv, Types
<1>2. ASSUME NEW h \in Handles, Warm(h), Calm(h)' PROVE row'[path[h]] = NoRow
  <2>1. PICK p \in Paths : p = path[h] /\ path'[h] = p
    BY <1>1, <1>2 DEF Warm, TypeOK
  <2>2. Quiet(p)' \/ \E v \in Writers \ {w} : ClosedBy(v, h)'
    BY <1>2, <2>1 DEF Calm, Quiet, Busy
  <2>3. CASE Quiet(p)'
    <3>1. Quiet(p) /\ p \notin Uses(w)
      BY <2>1, <2>3 DEF Quiet, Busy
    <3>. QED
      BY <1>1, <1>2, <2>1, <3>1 DEF Warmth, Calm
  <2>4. ASSUME NEW v \in Writers \ {w}, ClosedBy(v, h)' PROVE row'[path[h]] = NoRow
    <3>1. ClosedBy(v, h) /\ p \in Uses(v)
      BY <2>1, <2>4 DEF ClosedBy
    <3>2. p \notin Uses(w)
      BY <1>1, <3>1 DEF Types, Exclusive
    <3>. QED
      BY <1>1, <1>2, <2>1, <3>1, <3>2 DEF Warmth, Calm
  <2>. QED
    BY <2>2, <2>3, <2>4
<1>. QED
  BY <1>2, NoteKeeps

LEMMA TakenKeeps ==
  ASSUME IInv, NEW w \in Writers,
         (\E do \in Deeds, p \in Paths, q \in Paths \cup {None} : Begin(w, do, p, q))
           \/ \E p \in Paths : LookUpForCreate(w, p)
  PROVE  IInv'
<1> DEFINE Took ==
      /\ Types' /\ Uses(w) = {} /\ wpc'[w] # "after" /\ Note
      /\ \A v \in Writers \ {w} : wpc'[v] = wpc[v] /\ list'[v] = list[v] /\ Uses(v)' = Uses(v)
      /\ UNCHANGED <<refreshVars, row, path, cache, current, readVars, todo, unsure>>
<1>1. Took
  <2>1. ASSUME NEW do \in Deeds, NEW p \in Paths, NEW q \in Paths \cup {None}, Begin(w, do, p, q)
        PROVE  Took
    <3>1. /\ Types' /\ Uses(w) = {} /\ wpc'[w] = "before"
          /\ \A v \in Writers \ {w} : wpc'[v] = wpc[v] /\ Uses(v)' = Uses(v)
      BY <2>1, BeginTypes DEF IInv
    <3>2. \A v \in Writers \ {w} : list'[v] = list[v]
      BY <2>1 DEF Begin, IInv, Types, TypeOK
    <3>. QED
      BY <2>1, <3>1, <3>2 DEF Begin
  <2>2. ASSUME NEW p \in Paths, LookUpForCreate(w, p) PROVE Took
    <3>1. /\ Types' /\ Uses(w) = {} /\ wpc'[w] = "create"
          /\ \A v \in Writers \ {w} : wpc'[v] = wpc[v] /\ Uses(v)' = Uses(v)
      BY <2>2, LookUpForCreateTypes DEF IInv
    <3>. QED
      BY <2>2, <3>1 DEF LookUpForCreate
  <2>. QED
    BY <2>1, <2>2
<1>2. \A p \in Paths : Quiet(p)' => Quiet(p)
  BY <1>1 DEF Quiet, Busy
<1>3. \A h \in Handles : ~ClosedBy(w, h)'
  BY <1>1 DEF ClosedBy
<1>4. Stamped' /\ Shows' /\ Warmth' /\ \A r \in Readers : ReadKept(r)'
  BY <1>1, <1>2, <1>3, OperationKeeps
<1>. QED
  BY <1>1, <1>4 DEF IInv

LEMMA FailKeeps ==
  ASSUME IInv, NEW w \in Writers, Fail(w), Note, row' \in [Paths -> Contents \cup {NoRow, Deleted}],
         \A x \in Paths \ Uses(w) : row'[x] = row[x]
  PROVE  IInv'
<1>1. Types /\ Uses(w) \subseteq Paths /\ unsure \subseteq Paths
  BY UsesOf DEF IInv, Types, TypeOK
<1>2. End(w) /\ unsure' = unsure \cup Uses(w)
  BY DEF Fail
<1>3. /\ wpc'[w] = "idle" /\ Uses(w)' = {}
      /\ \A v \in Writers \ {w} : wpc'[v] = wpc[v] /\ list'[v] = list[v] /\ Uses(v)' = Uses(v)
      /\ UNCHANGED <<refreshVars, path, cache, current, readVars, todo>>
  BY <1>1, <1>2, EndTypes DEF Uses
<1>4. \A p \in Paths : Quiet(p)' => Quiet(p)
  BY <1>2, <1>3 DEF Quiet, Busy
<1>5. \A h \in Handles : ~ClosedBy(w, h)'
  BY <1>3 DEF ClosedBy
<1>6. Stamped' /\ Shows' /\ Warmth' /\ \A r \in Readers : ReadKept(r)'
  BY <1>3, <1>4, <1>5, OperationKeeps
<1>7. Types'
  BY <1>1, <1>2, EndedTypes
<1>. QED
  BY <1>6, <1>7 DEF IInv

LEMMA GoOnKeeps ==
  ASSUME IInv, NEW w \in Writers, NEW to \in {"change", "after"}, wpc[w] \in {"before", "change"}, GoOn(w, to),
         row' \in [Paths -> Contents \cup {NoRow, Deleted}], list' \in [Writers -> Seq(Paths)], Note,
         \A x \in Paths \ Uses(w) : row'[x] = row[x],
         \A v \in Writers \ {w} : list'[v] = list[v],
         to = "after" => \A x \in Uses(w) : \E i \in 1..Len(list'[w]) : list'[w][i] = x
  PROVE  IInv'
<1>1. Types
  BY DEF IInv
<1>2. /\ Types' /\ wpc'[w] = to /\ \A v \in Writers \ {w} : wpc'[v] = wpc[v]
      /\ op' = op /\ Busy' = Busy /\ \A v \in Writers : Uses(v)' = Uses(v)
  BY <1>1, GoOnTypes
<1>3. UNCHANGED <<refreshVars, path, cache, current, readVars, todo, unsure>>
  BY DEF GoOn
<1>4. \A p \in Paths : Quiet(p)' => Quiet(p)
  BY <1>2, <1>3 DEF Quiet
<1>5. \A h \in Handles : ~ClosedBy(w, h)'
  BY <1>2, <1>3 DEF ClosedBy
<1>6. Stamped' /\ Shows' /\ Warmth' /\ \A r \in Readers : ReadKept(r)'
  BY <1>2, <1>3, <1>4, <1>5, OperationKeeps
<1>. QED
  BY <1>2, <1>6 DEF IInv

(* After its second close an operation leaves no file over its rows.       *)
LEMMA SucceedKeeps ==
  ASSUME IInv, NEW w \in Writers, Succeed(w)
  PROVE  IInv'
<1>1. Types /\ Warmth /\ TypeOK /\ unsure \subseteq Paths
  BY DEF IInv, Types, TypeOK
<1>2. /\ wpc[w] = "after" /\ list[w] = <<>> /\ todo[w] = {}
      /\ End(w) /\ unsure' = unsure \ Uses(w) /\ row' = row /\ Note
  BY DEF Succeed, Closed
<1>3. /\ wpc'[w] = "idle" /\ Uses(w)' = {}
      /\ \A v \in Writers \ {w} : wpc'[v] = wpc[v] /\ list'[v] = list[v] /\ Uses(v)' = Uses(v)
      /\ UNCHANGED <<refreshVars, path, cache, current, readVars, todo>>
  BY <1>1, <1>2, EndTypes DEF Uses
<1>4. ASSUME NEW h \in Handles, Warm(h), Calm(h)' PROVE row'[path[h]] = NoRow
  <2>1. PICK p \in Paths : p = path[h] /\ path'[h] = p
    BY <1>1, <1>3, <1>4 DEF Warm, TypeOK
  <2>2. CASE p \in Uses(w)
    <3>1. ClosedBy(w, h)
      BY <1>2, <2>1, <2>2 DEF ClosedBy
    <3>. QED
      BY <1>1, <1>2, <1>4, <3>1 DEF Warmth, Calm
  <2>3. CASE p \notin Uses(w)
    <3>1. Quiet(p)' => Quiet(p)
      BY <1>2, <1>3, <2>3 DEF Quiet, Busy
    <3>2. \A v \in Writers : ClosedBy(v, h)' => ClosedBy(v, h)
      BY <1>3, <2>1 DEF ClosedBy
    <3>3. Quiet(p)' \/ \E v \in Writers : ClosedBy(v, h)'
      BY <1>4, <2>1 DEF Calm, Quiet, Busy
    <3>4. Calm(h)
      BY <2>1, <3>1, <3>2, <3>3 DEF Calm
    <3>. QED
      BY <1>1, <1>2, <1>4, <3>4 DEF Warmth
  <2>. QED
    BY <2>2, <2>3
<1>5. Stamped' /\ Shows' /\ Warmth' /\ \A r \in Readers : ReadKept(r)'
  BY <1>2, <1>3, <1>4, NoteKeeps
<1>6. Types'
  BY <1>1, <1>2, EndedTypes DEF TypeOK
<1>. QED
  BY <1>5, <1>6 DEF IInv

(* A new file is only certain where no handle has its path open.           *)
LEMMA CreateFileKeeps ==
  ASSUME IInv, NEW w \in Writers, CreateFile(w)
  PROVE  IInv'
<1> DEFINE c == op[w].path
<1>1. Types /\ Warmth /\ TypeOK /\ unsure \subseteq Paths
  BY DEF IInv, Types, TypeOK
<1>2. /\ wpc[w] = "create" /\ Put(c, 0) /\ End(w) /\ Note
      /\ unsure' = IF \E h \in Handles : path[h] = c THEN unsure \cup {c} ELSE unsure \ {c}
  BY DEF CreateFile
<1>3. c \in Paths /\ Uses(w) = {c} /\ 0 \in Contents
  BY <1>1, <1>2 DEF Types, OpShape, Uses, Contents
<1>4. /\ wpc'[w] = "idle" /\ Uses(w)' = {}
      /\ \A v \in Writers \ {w} : wpc'[v] = wpc[v] /\ list'[v] = list[v] /\ Uses(v)' = Uses(v)
      /\ UNCHANGED <<refreshVars, path, cache, current, readVars, todo>>
  BY <1>1, <1>2, EndTypes DEF Uses
<1>5. /\ row' \in [Paths -> Contents \cup {NoRow, Deleted}]
      /\ \A x \in Paths \ {c} : row'[x] = row[x]
  BY <1>1, <1>2, <1>3, PutTypes
<1>6. ASSUME NEW h \in Handles, Warm(h), Calm(h)' PROVE row'[path[h]] = NoRow
  <2>1. PICK p \in Paths : p = path[h] /\ path'[h] = p
    BY <1>1, <1>4, <1>6 DEF Warm, TypeOK
  <2>2. Quiet(p)' \/ \E v \in Writers : ClosedBy(v, h)'
    BY <1>6, <2>1 DEF Calm, Quiet, Busy
  <2>3. ASSUME NEW v \in Writers, ClosedBy(v, h)' PROVE ClosedBy(v, h) /\ p \in Uses(v) /\ v # w
    BY <1>4, <2>1, <2>3 DEF ClosedBy
  <2>4. p # c
    <3>1. p = c => ~Quiet(p)'
      BY <1>2, <2>1 DEF Quiet
    <3>2. \A v \in Writers \ {w} : c \notin Uses(v)
      BY <1>1, <1>3 DEF Types, Exclusive
    <3>. QED
      BY <2>2, <2>3, <3>1, <3>2
  <2>5. Quiet(p)' => Quiet(p)
    BY <1>2, <1>3, <1>4, <2>4 DEF Quiet, Busy
  <2>6. Calm(h)
    BY <2>1, <2>2, <2>3, <2>5 DEF Calm
  <2>. QED
    BY <1>1, <1>5, <1>6, <2>1, <2>4, <2>6 DEF Warmth
<1>7. Stamped' /\ Shows' /\ Warmth' /\ \A r \in Readers : ReadKept(r)'
  BY <1>2, <1>4, <1>6, NoteKeeps
<1>8. unsure' \subseteq Paths
  BY <1>1, <1>2, <1>3
<1>9. Types'
  BY <1>1, <1>2, <1>5, <1>8, EndedTypes
<1>. QED
  BY <1>7, <1>9 DEF IInv

LEMMA OperateKeeps ==
  ASSUME IInv, NEW w \in Writers, Operate(w)
  PROVE  IInv'
<1>1. Types /\ \A v \in Writers : list[v] \in Seq(Paths)
  BY DEF IInv, Types, TypeOK
<1>2. CASE EnsureOverlay(w)
  <2>1. CASE GoOn(w, "change") /\ UNCHANGED list
    <3>1. list' \in [Writers -> Seq(Paths)]
      BY <1>1, <2>1 DEF Types, TypeOK
    <3>. QED
      BY <1>1, <1>2, <2>1, <3>1, EnsureCases, GoOnKeeps
  <2>. QED
    BY <1>1, <1>2, <2>1, EnsureCases, FailKeeps
<1>3. CASE Change(w)
  <2>1. /\ wpc[w] = "change" /\ Note /\ row' \in [Paths -> Contents \cup {NoRow, Deleted}]
        /\ \A x \in Paths \ Uses(w) : row'[x] = row[x]
    BY <1>1, <1>3, ChangeCases
  <2>2. CASE Fail(w)
    BY <2>1, <2>2, FailKeeps
  <2>3. CASE ~Fail(w)
    <3>1. /\ GoOn(w, "after") /\ list' \in [Writers -> Seq(Paths)]
          /\ \A x \in Uses(w) : \E i \in 1..Len(list'[w]) : list'[w][i] = x
          /\ \A v \in Writers \ {w} : list'[v] = list[v]
      BY <1>1, <1>3, <2>3, ChangeCases
    <3>. QED
      BY <2>1, <3>1, GoOnKeeps
  <2>. QED
    BY <2>2, <2>3
<1>. QED
  BY <1>2, <1>3, TakenKeeps, ListHandlesKeeps, SucceedKeeps, CloseCachedFileKeeps, CreateFileKeeps DEF Operate

-----------------------------------------------------------------------------
(* The refresh.                                                            *)

LEMMA PublishKeeps ==
  ASSUME IInv, NEW t \in [Paths -> Nodes], Publish(t)
  PROVE  IInv'
<1>1. Types /\ Stamped /\ Shows /\ Warmth /\ (\A r \in Readers : ReadKept(r))
  BY DEF IInv
<1>2. /\ gen < MaxGen
      /\ UNCHANGED <<tree, gen, row, path, cache, current, readVars, writeVars, history>>
  BY DEF Publish
<1>3. UNCHANGED <<tree, gen, row, path, cache, current, rpc, rh, started, got, ans, window, may, unsure,
                  wpc, op, list, todo>>
  BY <1>2 DEF readVars, writeVars, history
<1>4. \A q : View(q)' = View(q) /\ (Quiet(q)' <=> Quiet(q))
  BY <1>3 DEF View, Quiet, Busy, Uses
<1>5. \A h \in Handles : (Calm(h)' => Calm(h)) /\ (Warm(h)' => Warm(h))
  BY <1>3, <1>4 DEF Calm, ClosedBy, Uses, Warm, Brings
<1>6. Stamped' /\ Shows' /\ Warmth'
  BY <1>1, <1>2, <1>3, <1>4, <1>5 DEF Stamped, Shows, Warmth
<1>7. \A r \in Readers : ReadKept(r)'
  BY <1>1, <1>3, <1>4 DEF ReadKept, FoundNoRow
<1>. QED
  BY <1>1, <1>6, <1>7, RefreshTypes DEF IInv

LEMMA DropRowKeeps ==
  ASSUME IInv, NEW p \in Paths, DropRow(p)
  PROVE  IInv'
<1>1. Types /\ Stamped /\ Warmth
  BY DEF IInv
<1>2. /\ Put(p, NoRow) /\ Note
      /\ UNCHANGED <<refreshVars, path, cache, current, readVars, writeVars, unsure>>
  BY DEF DropRow
<1>3. row'[p] = NoRow /\ \A x \in Paths \ {p} : row'[x] = row[x]
  BY <1>1, <1>2, PutTypes
<1>4. ASSUME NEW h \in Handles, Warm(h), Calm(h)' PROVE row'[path[h]] = NoRow
  <2>1. UNCHANGED <<path, wpc, op, list, todo, unsure>>
    BY <1>2 DEF writeVars
  <2>2. Calm(h)
    BY <1>4, <2>1 DEF Calm, Quiet, Busy, ClosedBy, Uses
  <2>3. path[h] \in Paths
    BY <1>1, <1>4 DEF Warm, Types, TypeOK
  <2>. QED
    BY <1>1, <1>3, <1>4, <2>2, <2>3 DEF Warmth
<1>5. Stamped' /\ Shows' /\ Warmth' /\ \A r \in Readers : ReadKept(r)'
  BY <1>2, <1>4, NoteKeeps
<1>. QED
  BY <1>1, <1>5, RefreshTypes DEF IInv

(* The new generation outdates every open file but those of reads that     *)
(* have found no row and have yet to look at the tree.                     *)
LEMMA SetGenerationKeeps ==
  ASSUME IInv, SetGeneration
  PROVE  IInv'
<1>1. Types /\ Stamped /\ Shows /\ Warmth /\ (\A r \in Readers : ReadKept(r)) /\ TypeOK /\ gen \in Nat
  BY Sorts DEF IInv, Types
<1>2. /\ coming # None /\ tree' = coming /\ gen' = gen + 1 /\ coming' = None
      /\ UNCHANGED <<row, path, cache, current, readVars, writeVars, unsure>>
      /\ window' = [p \in Paths |-> IF Quiet(p) THEN {View(p)'} ELSE window[p] \cup {View(p)', coming[p]}]
  BY DEF SetGeneration
<1>3. UNCHANGED <<row, path, cache, current, rpc, rh, started, got, ans, unsure, wpc, op, list, todo>>
  BY <1>2 DEF readVars, writeVars
<1>4. /\ \A h \in Handles : cache[h] # None => cache[h].gen \in Nat
      /\ \A r \in Readers : got[r] # None => got[r].gen \in Nat
  BY <1>1, CacheTypes
<1>5. Stamped'
  <2>1. \A h \in Handles : cache[h] # None => cache[h].gen <= gen' /\ cache[h].gen # gen'
    BY <1>1, <1>2, <1>4 DEF Stamped
  <2>2. \A r \in Readers : rpc[r] = "install" => got[r] # None /\ got[r].gen <= gen' /\ got[r].gen # gen'
    BY <1>1, <1>2, <1>4 DEF Stamped
  <2>3. \A r \in Readers : rpc[r] \in InRead => started[r] <= gen'
    BY <1>1, <1>2 DEF Stamped, TypeOK
  <2>. QED
    BY <1>2, <1>3, <2>1, <2>2, <2>3 DEF Stamped
<1>6. Shows'
  BY <1>2 DEF Shows
<1>7. Warmth'
  <2>1. ASSUME NEW h \in Handles, Warm(h)'
        PROVE  tree'[path'[h]] \in window'[path'[h]] /\ (Calm(h)' => row'[path'[h]] = NoRow)
    <3>1. ~(cache[h] # None /\ cache[h].gen = gen')
      BY <1>1, <1>2, <1>4 DEF Stamped
    <3>2. PICK r \in Readers : Brings(r, h)'
      BY <1>3, <2>1, <3>1 DEF Warm
    <3>3. Brings(r, h)
      BY <1>1, <1>2, <1>3, <1>4, <3>2 DEF Brings, Stamped
    <3>4. Warm(h)
      BY <1>3, <2>1, <3>3 DEF Warm
    <3>5. PICK p \in Paths : p = path[h]
      BY <1>1, <3>4 DEF Warm, TypeOK
    <3>6. (Calm(h)' => Calm(h)) /\ (Quiet(p) => Calm(h))
      BY <1>3, <3>5 DEF Calm, Quiet, Busy, ClosedBy, Uses
    <3>7. Calm(h) => row[p] = NoRow
      BY <1>1, <3>4, <3>5 DEF Warmth
    <3>8. coming[p] \in window'[p]
      <4>1. CASE Quiet(p)
        <5>1. row'[p] = NoRow
          BY <1>3, <3>6, <3>7, <4>1
        <5>2. View(p)' = coming[p]
          BY <1>2, <5>1 DEF View
        <5>. QED
          BY <1>2, <4>1, <5>2
      <4>2. CASE ~Quiet(p)
        BY <1>2, <4>2
      <4>. QED
        BY <4>1, <4>2
    <3>. QED
      BY <1>2, <1>3, <3>5, <3>6, <3>7, <3>8
  <2>. QED
    BY <2>1 DEF Warmth
<1>8. ASSUME NEW r \in Readers PROVE ReadKept(r)'
  <2>1. ReadKept(r)
    BY <1>1
  <2>2. may'[r] = IF rpc[r] \in InRead
                    THEN may[r] \cup {View(path[rh[r]])'}
                         \cup (IF FoundNoRow(r) THEN {coming[path[rh[r]]]} ELSE {})
                    ELSE may[r]
    BY DEF SetGeneration
  <2>3. CASE rpc[r] \in InRead
    <3>1. View(path[rh[r]])' \in may'[r] /\ may[r] \subseteq may'[r]
      BY <2>2, <2>3
    <3>2. FoundNoRow(r) => coming[path[rh[r]]] \in may'[r]
      BY <2>2, <2>3
    <3>3. started[r] # gen'
      BY <1>1, <1>2, <2>3 DEF Stamped, TypeOK
    <3>4. /\ rpc[r] = "install" => got[r].oid \in may[r]
          /\ (rpc[r] = "enter" /\ cache[rh[r]] # None /\ cache[rh[r]].gen = started[r])
               => cache[rh[r]].oid \in may[r]
          /\ rpc[r] # "answered"
      BY <2>1, <2>3 DEF ReadKept, InRead
    <3>. QED
      BY <1>2, <1>3, <3>1, <3>2, <3>3, <3>4 DEF ReadKept, FoundNoRow
  <2>4. CASE rpc[r] \notin InRead
    BY <1>3, <2>1, <2>2, <2>4 DEF ReadKept, FoundNoRow, InRead
  <2>. QED
    BY <2>3, <2>4
<1>. QED
  BY <1>1, <1>5, <1>6, <1>7, <1>8, RefreshTypes DEF IInv

-----------------------------------------------------------------------------
(* The theorems.                                                           *)

LEMMA InitIInv == Init => IInv
<1> SUFFICES ASSUME Init PROVE IInv
  OBVIOUS
<1>1. /\ tree \in [Paths -> Nodes] /\ gen = 1 /\ coming = None
      /\ row = [p \in Paths |-> NoRow] /\ path = [h \in Handles |-> None]
      /\ cache = [h \in Handles |-> None] /\ rpc = [r \in Readers |-> "idle"]
      /\ window = [p \in Paths |-> {View(p)}] /\ unsure = {}
      /\ wpc = [w \in Writers |-> "idle"] /\ op = [w \in Writers |-> NoOp]
      /\ list = [w \in Writers |-> <<>>]
  BY DEF Init
<1>2. \A p \in Paths : View(p) = tree[p] /\ View(p) \in Answers /\ row[p] = NoRow
  BY <1>1 DEF View, Nodes, Answers, Contents
<1>3. TypeOK
  <2>1. NoOp \in [do : Deeds \cup {"create", "none"}, path : Paths \cup {None}, to : Paths \cup {None}]
    BY DEF NoOp
  <2>2. op \in [Writers -> [do : Deeds \cup {"create", "none"}, path : Paths \cup {None}, to : Paths \cup {None}]]
    BY <1>1, <2>1
  <2>3. list \in [Writers -> Seq(Paths)]
    BY <1>1
  <2>4. window \in [Paths -> SUBSET Answers] /\ 1 \in 1..MaxGen
    BY <1>1, <1>2
  <2>5. /\ rpc \in [Readers -> InRead \cup {"idle", "answered"}]
        /\ \A r \in Readers : rpc[r] \in InRead => rh[r] # None /\ path[rh[r]] # None
    BY <1>1 DEF InRead
  <2>. QED
    BY <1>1, <2>2, <2>3, <2>4, <2>5 DEF Init, TypeOK
<1>4. \A w \in Writers : OpShape(w) /\ Uses(w) = {}
  BY <1>1 DEF OpShape, Uses, NoOp
<1>5. Types
  BY <1>3, <1>4 DEF Types, Exclusive
<1>6. Stamped /\ Shows /\ Warmth
  BY <1>1 DEF Stamped, Shows, Warmth, Warm, InRead
<1>7. \A r \in Readers : ReadKept(r)
  BY <1>1 DEF ReadKept, FoundNoRow, InRead
<1>. QED
  BY <1>5, <1>6, <1>7 DEF IInv

LEMMA IInvStep == IInv /\ [Next]_vars => IInv'
<1> SUFFICES ASSUME IInv, [Next]_vars PROVE IInv'
  OBVIOUS
<1>1. CASE UNCHANGED vars
  <2>1. UNCHANGED <<tree, gen, coming, row, path, cache, current, rpc, rh, started, got, ans,
                    wpc, op, list, todo, ops, window, may, unsure>>
    BY <1>1 DEF vars, refreshVars, readVars, writeVars, history
  <2>2. Types' /\ Stamped' /\ Shows'
    BY <2>1 DEF IInv, Types, TypeOK, OpShape, Exclusive, Uses, Stamped, Shows, View
  <2>3. \A h \in Handles : (Calm(h)' => Calm(h)) /\ (Warm(h)' => Warm(h))
    BY <2>1 DEF Calm, Quiet, Busy, ClosedBy, Uses, Warm, Brings
  <2>4. Warmth' /\ \A r \in Readers : ReadKept(r)'
    BY <2>1, <2>3 DEF IInv, Warmth, ReadKept, FoundNoRow, View
  <2>. QED
    BY <2>2, <2>4 DEF IInv
<1>2. CASE \E h \in Handles : ReleaseFileHandle(h) \/ \E p \in Paths : OpenFile(h, p)
  BY <1>2, ReleaseKeeps, OpenFileKeeps
<1>3. CASE \E r \in Readers : Read(r)
  BY <1>3, ReadKeeps
<1>4. CASE \E w \in Writers : Operate(w)
  BY <1>4, OperateKeeps
<1>5. CASE (\E t \in [Paths -> Nodes] : Publish(t)) \/ SetGeneration \/ \E p \in Paths : DropRow(p)
  BY <1>5, PublishKeeps, SetGenerationKeeps, DropRowKeeps
<1>. QED
  BY <1>1, <1>2, <1>3, <1>4, <1>5 DEF Next

(* The inductive invariant holds of every reachable state.                 *)
THEOREM FileHandleInvariant == Spec => []IInv
<1>. QED
  BY InitIInv, IInvStep, PTL DEF Spec

(* Handles, reads and operations keep their types: a read has its handle   *)
(* open from its beginning to its end, and a handle that the kernel has    *)
(* released holds no file.                                                 *)
THEOREM FileHandleTypes == Spec => []TypeOK
<1>1. IInv => TypeOK
  BY DEF IInv, Types
<1>. QED
  BY <1>1, FileHandleInvariant, PTL

(* The open file the next read of a handle will use holds what the path    *)
(* shows or may still show, and lies under no row once the operations on   *)
(* the path are over: FileHandle.read installs it only if neither the close*)
(* nor the refresh has overtaken it.                                       *)
THEOREM OpenFilesAreCurrent == Spec => []CacheIsCurrent
<1>1. IInv => CacheIsCurrent
  <2> SUFFICES ASSUME IInv, NEW h \in Handles, cache[h] # None, cache[h].gen = gen
               PROVE  /\ cache[h].oid \in window[path[h]]
                      /\ Quiet(path[h]) => row[path[h]] = NoRow
    BY DEF CacheIsCurrent
  <2>1. Warm(h) /\ cache[h].oid = tree[path[h]]
    BY DEF IInv, Types, TypeOK, Warm, Stamped
  <2>. QED
    BY <2>1 DEF IInv, Warmth, Calm
<1>. QED
  BY <1>1, FileHandleInvariant, PTL

(* Every read returns what its path showed while it ran, or may have shown *)
(* because an operation on the path had not succeeded when it began; or it *)
(* fails.                                                                  *)
THEOREM ReadsReturnWhatIsThere == Spec => []ReadsAreCurrent
<1>1. IInv => ReadsAreCurrent
  BY DEF IInv, ReadKept, ReadsAreCurrent
<1>. QED
  BY <1>1, FileHandleInvariant, PTL
=============================================================================
