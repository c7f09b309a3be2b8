----------------------------- MODULE FileHandle -----------------------------
(***************************************************************************)
(* Reads through open files of a mount.  A handle keeps the cache file of  *)
(* the blob it reads open and serves later reads from it without looking   *)
(* its path up again.  Operations that change a path close these files     *)
(* before and after; a change of HEAD makes them stale by the generation's *)
(* number; and a read that was looking the path up meanwhile must not      *)
(* leave behind a file that all this has overtaken.                        *)
(*                                                                         *)
(* A step of a read is what FileHandle.read does under the handle's mutex, *)
(* or one lookup of a row or a node.  The steps an operation takes inside  *)
(* the overlay, and the rows a refresh drops, are the subject of Overlay:  *)
(* here a row is what the path shows through it.  Regular files only.      *)
(***************************************************************************)
EXTENDS Naturals, Sequences

CONSTANTS
  Handles, Readers, Writers, Paths,
  Oids,      \* blobs, each standing for its content and its cache file
  Absent,    \* what a path shows that has no file
  NoRow, Deleted,   \* a path without a row, a whiteout
  Error,     \* a read that fails
  None,
  MaxGen,    \* bound on the generations
  MaxOps     \* bound on the operations that change files

Contents == Oids \cup (0..MaxOps)    \* a blob, what a write left, 0 an empty file
Nodes    == Oids \cup {Absent}
Answers  == Contents \cup {Absent}
CacheFiles == [oid : Oids, gen : 1..MaxGen]

ASSUME FileHandleAssumption ==
  /\ MaxGen \in Nat \ {0} /\ MaxOps \in Nat
  /\ {NoRow, Deleted, Absent, Error} \cap Contents = {}
  /\ NoRow # Deleted /\ Error # Absent
  /\ None \notin Paths \cup Handles \cup CacheFiles \cup Answers \cup {Error}

VARIABLES
  tree, gen,     \* the tree the resolver serves, and its generation
  coming,        \* the tree a refresh has published, or None
  row,           \* overlay_entries with the backing files
  path,          \* FileHandle.path of the open handles, None of the others
  cache,         \* cacheFile and cacheGeneration of a handle, or None
  rpc, rh,       \* where each read is, and its handle
  started,       \* the generation a read began with
  current,       \* invalidateSeq of the read's handle is what it took
  got,           \* the cache file a read has opened
  ans,           \* what a read returns
  wpc, op,       \* where each operation is, and what it does
  list, todo,    \* paths whose handles it has yet to list, handles to close
  ops,           \* how many operations there have been
  window, may,   \* history: what a path, a read may show; see ReadsAreCurrent
  unsure         \* history: paths whose last operation failed or was overtaken

refreshVars == <<tree, gen, coming>>
readVars    == <<rpc, rh, started, got, ans>>
writeVars   == <<wpc, op, list, todo, ops>>
history     == <<window, may, unsure>>
vars == <<refreshVars, row, path, cache, current, readVars, writeVars, history>>

Deeds == {"write", "truncate", "touch", "unlink", "rename"}
NoOp  == [do |-> "none", path |-> None, to |-> None]
InRead == {"enter", "again", "base", "node", "install", "row", "file", "resolve", "blob"}

Uses(w) == {op[w].path, op[w].to} \cap Paths
Busy    == UNION {Uses(w) : w \in Writers}

(* Resolver.ResolvePath, and what a read returns.                          *)
View(p) == IF row[p] = NoRow THEN tree[p] ELSE IF row[p] = Deleted THEN Absent ELSE row[p]

TypeOK ==
  /\ tree \in [Paths -> Nodes] /\ gen \in 1..MaxGen
  /\ coming \in [Paths -> Nodes] \cup {None}
  /\ row \in [Paths -> Contents \cup {NoRow, Deleted}]
  /\ path \in [Handles -> Paths \cup {None}]
  /\ cache \in [Handles -> CacheFiles \cup {None}]
  /\ \A h \in Handles : path[h] = None => cache[h] = None
  /\ rpc \in [Readers -> InRead \cup {"idle", "answered"}]
  /\ rh \in [Readers -> Handles \cup {None}]
  /\ \A r \in Readers : rpc[r] \in InRead => rh[r] # None /\ path[rh[r]] # None
  /\ started \in [Readers -> 0..MaxGen]
  /\ current \in [Readers -> BOOLEAN]
  /\ got \in [Readers -> CacheFiles \cup {None}]
  /\ ans \in [Readers -> Answers \cup {Error, None}]
  /\ wpc \in [Writers -> {"idle", "before", "change", "create", "after"}]
  /\ op \in [Writers -> [do : Deeds \cup {"create", "none"}, path : Paths \cup {None},
                         to : Paths \cup {None}]]
  /\ list \in [Writers -> Seq(Paths)] /\ todo \in [Writers -> SUBSET Handles]
  /\ ops \in 0..MaxOps
  /\ window \in [Paths -> SUBSET Answers] /\ may \in [Readers -> SUBSET Answers]
  /\ unsure \subseteq Paths

Init ==
  /\ tree \in [Paths -> Nodes] /\ gen = 1 /\ coming = None
  /\ row = [p \in Paths |-> NoRow]
  /\ path = [h \in Handles |-> None]
  /\ cache = [h \in Handles |-> None]
  /\ rpc = [r \in Readers |-> "idle"] /\ rh = [r \in Readers |-> None]
  /\ started = [r \in Readers |-> 0] /\ current = [r \in Readers |-> FALSE]
  /\ got = [r \in Readers |-> None] /\ ans = [r \in Readers |-> None]
  /\ wpc = [w \in Writers |-> "idle"] /\ op = [w \in Writers |-> NoOp]
  /\ list = [w \in Writers |-> <<>>] /\ todo = [w \in Writers |-> {}]
  /\ ops = 0
  /\ window = [p \in Paths |-> {View(p)}] /\ may = [r \in Readers |-> {}]
  /\ unsure = {}

(* The history of what is shown.  A path that nobody changes may only show *)
(* what it shows, another one also what it has shown since it was changed. *)
Quiet(p) == p \notin Busy \cup unsure

Note ==
  /\ window' = [p \in Paths |-> IF Quiet(p)' THEN {View(p)'} ELSE window[p] \cup {View(p)'}]
  /\ may' = [r \in Readers |-> IF rpc[r] \in InRead THEN may[r] \cup {View(path[rh[r]])'} ELSE may[r]]

-----------------------------------------------------------------------------
(* Handles.  The kernel releases a handle that nobody uses; numbers are    *)
(* not used again, so nobody is about to close the file of a new handle.   *)

OpenFile(h, p) ==
  /\ path[h] = None
  /\ \A w \in Writers : h \notin todo[w]
  /\ path' = [path EXCEPT ![h] = p]
  /\ UNCHANGED <<refreshVars, row, cache, current, readVars, writeVars, history>>

Unread(h) == \A r \in Readers : rpc[r] \in InRead => rh[r] # h

(* Mutant of ReleaseFileHandle: the cached file is forgotten.              *)
ReleaseWithoutClosing(h) ==
  /\ path[h] # None
  /\ Unread(h)
  /\ path' = [path EXCEPT ![h] = None]
  /\ UNCHANGED <<refreshVars, row, cache, current, readVars, writeVars, history>>

ReleaseFileHandle(h) ==
  /\ path[h] # None
  /\ Unread(h)
  /\ path' = [path EXCEPT ![h] = None]
  /\ cache' = [cache EXCEPT ![h] = None]
  /\ UNCHANGED <<refreshVars, row, current, readVars, writeVars, history>>

-----------------------------------------------------------------------------
(* FileHandle.read.                                                        *)

To(r, step) == rpc' = [rpc EXCEPT ![r] = step]

Invalidate(h) == [r \in Readers |-> current[r] /\ rh[r] # h]

Answer(r, what) ==
  /\ To(r, "answered")
  /\ ans' = [ans EXCEPT ![r] = what]
  /\ got' = [got EXCEPT ![r] = None]
  /\ started' = [started EXCEPT ![r] = 0]
  /\ UNCHANGED <<refreshVars, row, path, rh, writeVars, history>>

Reply(r, what) == Answer(r, what) /\ UNCHANGED <<cache, current>>

Step(r, to) ==
  /\ To(r, to)
  /\ UNCHANGED <<refreshVars, row, path, rh, started, ans, writeVars, history>>

Look(r, to) == Step(r, to) /\ UNCHANGED <<cache, current, got>>

ReadFile(r, h) ==
  /\ rpc[r] = "idle"
  /\ path[h] # None
  /\ To(r, "enter")
  /\ rh' = [rh EXCEPT ![r] = h]
  /\ started' = [started EXCEPT ![r] = gen]
  /\ may' = [may EXCEPT ![r] = window[path[h]]]
  /\ UNCHANGED <<refreshVars, row, path, cache, current, got, ans, writeVars, window, unsure>>

Return(r) ==
  /\ rpc[r] = "answered"
  /\ To(r, "idle")
  /\ rh' = [rh EXCEPT ![r] = None]
  /\ ans' = [ans EXCEPT ![r] = None]
  /\ current' = [current EXCEPT ![r] = FALSE]
  /\ may' = [may EXCEPT ![r] = {}]
  /\ UNCHANGED <<refreshVars, row, path, cache, started, got, writeVars, window, unsure>>

(* Mutant of UseCached: the generation of the file is not compared.        *)
UseCachedOfAny(r) ==
  /\ rpc[r] = "enter"
  /\ cache[rh[r]] # None
  /\ Reply(r, cache[rh[r]].oid)

(* The file is of the generation that was served when the read began.      *)
UseCached(r) ==
  /\ rpc[r] = "enter"
  /\ cache[rh[r]] # None
  /\ cache[rh[r]].gen = started[r]
  /\ Reply(r, cache[rh[r]].oid)

(* It is of another one: it is closed, with the mutex released.            *)
DropCached(r) ==
  /\ rpc[r] = "enter"
  /\ cache[rh[r]] # None
  /\ cache[rh[r]].gen # started[r]
  /\ cache' = [cache EXCEPT ![rh[r]] = None]
  /\ current' = Invalidate(rh[r])
  /\ Step(r, "again") /\ UNCHANGED got

TakeSeq(r) ==
  /\ rpc[r] = "again" \/ (rpc[r] = "enter" /\ cache[rh[r]] = None)
  /\ current' = [current EXCEPT ![r] = TRUE]
  /\ Step(r, "base") /\ UNCHANGED <<cache, got>>

(* BaseCachePath: the row, then the generation with its node.              *)
BaseRow(r) ==
  LET e == row[path[rh[r]]] IN
  /\ rpc[r] = "base"
  /\ CASE e = NoRow   -> Look(r, "node")
       [] e = Deleted -> Reply(r, Absent)
       [] OTHER       -> Look(r, "row")

BaseNode(r) ==
  LET n == tree[path[rh[r]]] IN
  /\ rpc[r] = "node"
  /\ IF n = Absent
       THEN Reply(r, Absent)
       ELSE \/ /\ Step(r, "install")
               /\ got' = [got EXCEPT ![r] = [oid |-> n, gen |-> gen]]
               /\ UNCHANGED <<cache, current>>
            \/ Reply(r, Error)

(* Mutant of Overtaken: only the generation is compared.                   *)
OvertakenByRefresh(r) == got[r].gen # gen

Overtaken(r) == ~current[r] \/ got[r].gen # gen

(* The opened file becomes the handle's, unless another read was faster.   *)
Install(r) ==
  LET h == rh[r] IN
  /\ rpc[r] = "install"
  /\ CASE Overtaken(r) ->
            Step(r, "row") /\ got' = [got EXCEPT ![r] = None] /\ UNCHANGED <<cache, current>>
       [] ~Overtaken(r) /\ cache[h] # None /\ cache[h].gen = got[r].gen ->
            Reply(r, cache[h].oid)
       [] OTHER ->
            Answer(r, got[r].oid) /\ cache' = [cache EXCEPT ![h] = got[r]] /\ UNCHANGED current

(* Engine.Read: the row and its backing file; without a row, ResolvePath,  *)
(* which looks for the row again and hands on no object id if there is one.*)
(* The backing file may be gone already.                                   *)
ReadRow(r) ==
  LET e == row[path[rh[r]]] IN
  /\ rpc[r] = "row"
  /\ CASE e = NoRow   -> Look(r, "resolve")
       [] e = Deleted -> Reply(r, Absent)
       [] OTHER       -> Look(r, "file")

ReadBacking(r) ==
  LET e == row[path[rh[r]]] IN
  /\ rpc[r] = "file"
  /\ \/ e \in Contents /\ Reply(r, e)
     \/ Reply(r, Error)

Resolve(r) ==
  LET e == row[path[rh[r]]] IN
  /\ rpc[r] = "resolve"
  /\ CASE e = NoRow   -> Look(r, "blob")
       [] e = Deleted -> Reply(r, Absent)
       [] OTHER       -> Reply(r, Error)

ReadBlob(r) ==
  /\ rpc[r] = "blob"
  /\ Reply(r, tree[path[rh[r]]]) \/ Reply(r, Error)

FoundNoRow(r) == rpc[r] \in {"node", "blob"}

-----------------------------------------------------------------------------
(* Operations that change files.                                           *)

Put(p, e) == row' = [row EXCEPT ![p] = e]

(* The kernel runs one of them at a time on a path.                        *)
Begin(w, do, p, q) ==
  /\ wpc[w] = "idle" /\ ops < MaxOps
  /\ {p, q} \cap Busy = {}
  /\ IF do = "rename" THEN q \in Paths \ {p} ELSE q = None
  /\ ops' = ops + 1
  /\ wpc' = [wpc EXCEPT ![w] = "before"]
  /\ op' = [op EXCEPT ![w] = [do |-> do, path |-> p, to |-> q]]
  /\ list' = [list EXCEPT ![w] = IF do = "rename" THEN <<p, q>> ELSE <<p>>]
  /\ UNCHANGED <<refreshVars, row, path, cache, current, readVars, todo, unsure>>
  /\ Note

(* closeCachedFilesForPath lists the handles, then closes one by one.      *)
ListHandles(w) ==
  /\ wpc[w] \in {"before", "after"}
  /\ todo[w] = {} /\ list[w] # <<>>
  /\ todo' = [todo EXCEPT ![w] = {h \in Handles : path[h] = Head(list[w])}]
  /\ list' = [list EXCEPT ![w] = Tail(list[w])]
  /\ UNCHANGED <<refreshVars, row, path, cache, current, readVars, wpc, op, ops, history>>

(* Mutant of CloseCachedFile: the reads under way are not told.            *)
CloseCachedFileSilently(w, h) ==
  /\ h \in todo[w]
  /\ cache' = [cache EXCEPT ![h] = None]
  /\ todo' = [todo EXCEPT ![w] = @ \ {h}]
  /\ UNCHANGED <<refreshVars, row, path, current, readVars, wpc, op, list, ops, history>>

CloseCachedFile(w, h) ==
  /\ h \in todo[w]
  /\ cache' = [cache EXCEPT ![h] = None]
  /\ current' = Invalidate(h)
  /\ todo' = [todo EXCEPT ![w] = @ \ {h}]
  /\ UNCHANGED <<refreshVars, row, path, readVars, wpc, op, list, ops, history>>

Closed(w, when) == wpc[w] = when /\ list[w] = <<>> /\ todo[w] = {}

End(w) ==
  /\ wpc' = [wpc EXCEPT ![w] = "idle"]
  /\ op' = [op EXCEPT ![w] = NoOp]
  /\ list' = [list EXCEPT ![w] = <<>>]
  /\ UNCHANGED <<refreshVars, path, cache, current, readVars, todo, ops>>

Fail(w) == End(w) /\ unsure' = unsure \cup Uses(w)

GoOn(w, to) ==
  /\ wpc' = [wpc EXCEPT ![w] = to]
  /\ UNCHANGED <<refreshVars, path, cache, current, readVars, op, todo, ops, unsure>>

(* ensureOverlay.  A write to a path that does not exist creates it.       *)
EnsureOverlay(w) ==
  LET p == op[w].path IN
  /\ Closed(w, "before")
  /\ \/ /\ op[w].do = "unlink" \/ row[p] # NoRow
        /\ GoOn(w, "change") /\ UNCHANGED <<row, list>>
     \/ /\ op[w].do # "unlink" /\ row[p] = NoRow
        /\ tree[p] # Absent \/ op[w].do = "write"
        /\ Put(p, IF tree[p] # Absent THEN tree[p] ELSE 0)
        /\ GoOn(w, "change") /\ UNCHANGED list
     \/ /\ op[w].do # "unlink" /\ row[p] = NoRow
        /\ Fail(w) /\ UNCHANGED row
  /\ Note

(* The rows after the change.  A rename leaves a whiteout, or nothing when *)
(* the file was created in the mount.                                      *)
Changed(w) ==
  LET p == op[w].path IN
  CASE op[w].do \in {"write", "truncate"} -> {[row EXCEPT ![p] = ops]}
    [] op[w].do = "touch"  -> {row}
    [] op[w].do = "unlink" -> {[row EXCEPT ![p] = Deleted]}
    [] op[w].do = "rename" -> {[row EXCEPT ![op[w].to] = row[p], ![p] = left] : left \in {Deleted, NoRow}}

Able(w) == op[w].do \in {"unlink", "touch"} \/ row[op[w].path] \in Contents

(* Mutant of Change: the files are closed before the change only.          *)
ChangeAndEnd(w) ==
  /\ wpc[w] = "change"
  /\ \/ Able(w) /\ row' \in Changed(w) /\ End(w) /\ unsure' = unsure \ Uses(w)
     \/ Able(w) /\ row' \in Changed(w) /\ Fail(w)
     \/ Fail(w) /\ UNCHANGED row
  /\ Note

(* An error may leave the change half done; nothing is closed after it.    *)
Change(w) ==
  /\ wpc[w] = "change"
  /\ \/ /\ Able(w)
        /\ row' \in Changed(w)
        /\ list' = [list EXCEPT ![w] = IF op[w].to = None THEN <<op[w].path>> ELSE <<op[w].path, op[w].to>>]
        /\ GoOn(w, "after")
     \/ Able(w) /\ row' \in Changed(w) /\ Fail(w)
     \/ Fail(w) /\ UNCHANGED row
  /\ Note

Succeed(w) ==
  /\ Closed(w, "after")
  /\ End(w)
  /\ unsure' = unsure \ Uses(w)
  /\ UNCHANGED row
  /\ Note

(* The kernel creates a file that it has just looked for in vain.          *)
LookUpForCreate(w, p) ==
  /\ wpc[w] = "idle" /\ ops < MaxOps
  /\ p \notin Busy /\ View(p) = Absent
  /\ ops' = ops + 1
  /\ wpc' = [wpc EXCEPT ![w] = "create"]
  /\ op' = [op EXCEPT ![w] = [do |-> "create", path |-> p, to |-> None]]
  /\ UNCHANGED <<refreshVars, row, path, cache, current, readVars, list, todo, unsure>>
  /\ Note

(* CreateFile closes nothing: where a handle of an earlier file has the    *)
(* name open, and a refresh brings a file under it, nothing is promised.   *)
CreateFile(w) ==
  LET p == op[w].path IN
  /\ wpc[w] = "create"
  /\ Put(p, 0)
  /\ End(w)
  /\ unsure' = IF \E h \in Handles : path[h] = p THEN unsure \cup {p} ELSE unsure \ {p}
  /\ Note

-----------------------------------------------------------------------------
(* The refresh: onHEADChanged publishes, Reconcile drops rows while the old*)
(* generation is served, then the new one is.                              *)

Publish(t) ==
  /\ coming = None /\ gen < MaxGen
  /\ coming' = t
  /\ UNCHANGED <<tree, gen, row, path, cache, current, readVars, writeVars, history>>

DropRow(p) ==
  /\ coming # None
  /\ row[p] # NoRow
  /\ Put(p, NoRow)
  /\ UNCHANGED <<refreshVars, path, cache, current, readVars, writeVars, unsure>>
  /\ Note

(* A change of the path may hide the new file from then on, but not from a *)
(* read that has found no row already.                                     *)
SetGeneration ==
  /\ coming # None
  /\ tree' = coming /\ gen' = gen + 1 /\ coming' = None
  /\ UNCHANGED <<row, path, cache, current, readVars, writeVars, unsure>>
  /\ window' = [p \in Paths |-> IF Quiet(p) THEN {View(p)'} ELSE window[p] \cup {View(p)', coming[p]}]
  /\ may' = [r \in Readers |->
       CASE rpc[r] \in InRead -> may[r] \cup {View(path[rh[r]])'}
                                 \cup (IF FoundNoRow(r) THEN {coming[path[rh[r]]]} ELSE {})
         [] OTHER -> may[r]]

-----------------------------------------------------------------------------
Read(r) ==
  \/ \E h \in Handles : ReadFile(r, h)
  \/ UseCached(r) \/ DropCached(r) \/ TakeSeq(r) \/ BaseRow(r) \/ BaseNode(r)
  \/ Install(r) \/ ReadRow(r) \/ ReadBacking(r) \/ Resolve(r) \/ ReadBlob(r) \/ Return(r)

Operate(w) ==
  \/ \E do \in Deeds, p \in Paths, q \in Paths \cup {None} : Begin(w, do, p, q)
  \/ ListHandles(w) \/ EnsureOverlay(w) \/ Change(w) \/ Succeed(w)
  \/ \E h \in Handles : CloseCachedFile(w, h)
  \/ CreateFile(w) \/ \E p \in Paths : LookUpForCreate(w, p)

Next ==
  \/ \E h \in Handles : ReleaseFileHandle(h) \/ \E p \in Paths : OpenFile(h, p)
  \/ \E r \in Readers : Read(r)
  \/ \E w \in Writers : Operate(w)
  \/ (\E t \in [Paths -> Nodes] : Publish(t)) \/ SetGeneration \/ \E p \in Paths : DropRow(p)

Spec == Init /\ [][Next]_vars

-----------------------------------------------------------------------------
(* A handle's open file that the next read will use holds what the path    *)
(* shows, or may still show because an operation on it is under way, failed*)
(* or was overtaken by a refresh.  With the second close, an operation that*)
(* succeeds leaves no handle with a base file over its rows, even one with *)
(* the same content.                                                       *)
CacheIsCurrent ==
  \A h \in Handles :
    cache[h] # None /\ cache[h].gen = gen =>
      /\ cache[h].oid \in window[path[h]]
      /\ Quiet(path[h]) => row[path[h]] = NoRow

(* A read returns what its path shows at some time between its begin and   *)
(* its end, or what it showed before an operation that had not succeeded   *)
(* when the read began.  So a read that begins after a write has returned  *)
(* sees that write, through whichever handle.                              *)
ReadsAreCurrent ==
  \A r \in Readers :
    rpc[r] = "answered" => ans[r] \in may[r] \cup {Error}
=============================================================================
