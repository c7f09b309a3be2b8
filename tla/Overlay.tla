------------------------------ MODULE Overlay ------------------------------
(***************************************************************************)
(* The writable overlay of one mount: the rows of overlay_entries, the     *)
(* backing files under upper/, the filesystem operations that change them  *)
(* (fusefs.Engine over overlay.Store), and the refresh that follows a HEAD *)
(* change (daemon.onHEADChanged), which reconciles the overlay with the    *)
(* new tree while operations go on.                                        *)
(*                                                                         *)
(* A row and its backing file change in separate steps, with no lock       *)
(* around them; a step is one statement or transaction of the database, or *)
(* one call on the backing file.  The kernel runs one operation at a time  *)
(* on a file (the mount turns writeback caching off), so operations on one *)
(* path exclude each other; nothing excludes the refresh, and the process  *)
(* may crash anywhere.  Regular files only.                                *)
(***************************************************************************)
EXTENDS Naturals, FiniteSets

CONSTANTS
  Clients,   \* operations in flight
  Paths,     \* paths of regular files
  Oids,      \* object ids, each standing for the content of its blob
  Trees,     \* the trees HEAD may point at
  Absent,    \* the value of a path a tree or a view lacks
  NoRow,     \* a path has no row
  NoFile,    \* a path has no backing file
  NoPath,    \* an empty target_path or source_oid
  MaxClock,  \* bound on the time stamps, one per change of a row
  MaxRefreshes   \* bound on the HEAD changes and the crashes

Times    == 1..MaxClock
Contents == Oids \cup (0..MaxClock)   \* a blob, or what a write left; 0 is an empty file
Rows     == [kind : {"create", "modify", "rename", "delete"}, mtime : Times,
             src : Oids \cup {NoPath}, target : Paths \cup {NoPath}]

ASSUME OverlayAssumption ==
  /\ Trees \subseteq [Paths -> Oids \cup {Absent}]
  /\ MaxClock \in Nat /\ MaxRefreshes \in Nat
  /\ Absent \notin Contents /\ NoFile \notin Contents
  /\ NoRow \notin Rows
  /\ NoPath \notin Paths \cup Oids

VARIABLES
  row,       \* overlay_entries
  disk,      \* the backing files
  head,      \* the tree of the newest published generation
  shown,     \* the tree of the generation the resolver serves
  clock,     \* the latest time stamp
  mounted,   \* the file system serves operations
  pc, op,    \* where each operation is, and what it does
  ent,       \* the row an operation has read
  rpc,       \* where the refresh is
  refreshes, \* how many there have been
  seen,      \* the rows Reconcile has listed
  doomed,    \* the backing files Reconcile has yet to remove
  want,      \* history: what each path should show
  removed,   \* history: paths whose listed row this refresh has removed
  touched,   \* history: paths operated on since the refresh listed the rows
  exposed    \* history: paths of which no promise is kept, see KeepsWork

clientVars  == <<pc, op, ent>>
refreshVars == <<rpc, refreshes, seen, doomed, head, shown, mounted>>
history     == <<want, removed, touched, exposed>>
vars == <<row, disk, head, shown, clock, mounted, pc, op, ent,
          rpc, refreshes, seen, doomed, want, removed, touched, exposed>>

NoOp == [do |-> "none", path |-> NoPath, to |-> NoPath, base |-> NoPath]
Deeds == {"write", "truncate", "touch", "create", "unlink", "rename", "mark"}

TypeOK ==
  /\ row \in [Paths -> Rows \cup {NoRow}]
  /\ disk \in [Paths -> Contents \cup {NoFile}]
  /\ {head, shown} \subseteq Trees
  /\ clock \in 0..MaxClock
  /\ mounted \in BOOLEAN
  /\ pc \in [Clients -> {"idle", "ensure", "cow", "cowrow", "create", "createrow",
                         "get", "io", "upsert", "tx", "move", "unlink", "unlinkrow"}]
  /\ op \in [Clients -> [do : Deeds \cup {"none"}, path : Paths \cup {NoPath},
                         to : Paths \cup {NoPath}, base : Oids \cup {NoPath}]]
  /\ ent \in [Clients -> Rows \cup {NoRow}]
  /\ rpc \in {"idle", "list", "delete", "remove"}
  /\ refreshes \in 0..MaxRefreshes
  /\ seen \in [Paths -> Rows \cup {NoRow}]
  /\ want \in [Paths -> Contents \cup {Absent, NoFile}]
  /\ doomed \cup removed \cup touched \cup exposed \subseteq Paths

Live(r) == r # NoRow /\ r.kind # "delete"

(* Resolver.ResolvePath, and what a read returns.                          *)
View(p) == IF row[p] = NoRow THEN shown[p] ELSE IF Live(row[p]) THEN disk[p] ELSE Absent

Init ==
  /\ row = [p \in Paths |-> NoRow]
  /\ disk = [p \in Paths |-> NoFile]
  /\ head \in Trees
  /\ shown = head
  /\ clock = 0
  /\ mounted = TRUE
  /\ pc = [c \in Clients |-> "idle"]
  /\ op = [c \in Clients |-> NoOp]
  /\ ent = [c \in Clients |-> NoRow]
  /\ rpc = "idle"
  /\ refreshes = 0
  /\ seen = row
  /\ doomed = {}
  /\ want = shown
  /\ removed = {} /\ touched = {} /\ exposed = {}

-----------------------------------------------------------------------------
(* The operations.                                                         *)

Uses(c) == IF pc[c] = "idle" THEN {} ELSE {op[c].path, op[c].to} \cap Paths
Busy    == UNION {Uses(c) : c \in Clients}

At(c, step)  == pc[c] = step
Goto(c, to)  == pc' = [pc EXCEPT ![c] = to]

Start == [write |-> "ensure", truncate |-> "ensure", touch |-> "ensure",
          rename |-> "ensure", create |-> "create", unlink |-> "unlink"]

(* The kernel sends an operation.  It looks a name up before it creates    *)
(* it; the others may come through an open file or a cached name.          *)
Begin(c, do, p, q) ==
  /\ mounted /\ At(c, "idle")
  /\ {p, q} \cap Busy = {}
  /\ (do = "rename") => (q \in Paths /\ p # q)
  /\ (do # "rename") => q = NoPath
  /\ (do = "create") => View(p) = Absent
  /\ Goto(c, Start[do])
  /\ op' = [op EXCEPT ![c] = [do |-> do, path |-> p, to |-> q, base |-> NoPath]]
  /\ touched' = IF rpc \in {"idle", "list"} THEN touched ELSE touched \cup ({p, q} \cap Paths)
  /\ exposed' = exposed \cup ({p, q} \cap doomed)
  /\ UNCHANGED <<row, disk, clock, ent, refreshVars, want, removed>>

End(c) ==
  /\ Goto(c, "idle")
  /\ op' = [op EXCEPT ![c] = NoOp]
  /\ ent' = [ent EXCEPT ![c] = NoRow]

(* The operation ends with an error and has changed nothing.               *)
Fail(c) == End(c) /\ UNCHANGED <<row, disk, clock, refreshVars, history>>

(* The operation succeeds, and the caller expects the paths of shows to    *)
(* hold what it did.                                                       *)
Succeed(c, shows) ==
  /\ End(c)
  /\ want' = [p \in Paths |-> IF p \in DOMAIN shows THEN shows[p] ELSE want[p]]
  /\ removed' = removed \ DOMAIN shows
  /\ UNCHANGED <<refreshVars, touched, exposed>>

SetRow(p, r)  == row' = [row EXCEPT ![p] = r]
Tick          == clock < MaxClock /\ clock' = clock + 1
Show(p, what) == [x \in {p} |-> what]

(* ensureOverlay looks for a row, then for the path in the base tree; the  *)
(* operations that follow look again for themselves.                       *)
Found(c) ==
  /\ At(c, "ensure")
  /\ row[op[c].path] # NoRow
  /\ Goto(c, "get")
  /\ LET marks == op[c].do = "rename" /\ row[op[c].path].kind = "create"
                  /\ shown[op[c].to] # Absent
     IN  op' = IF marks THEN [op EXCEPT ![c].do = "mark", ![c].base = shown[op[c].to]] ELSE op
  /\ UNCHANGED <<row, disk, clock, ent, refreshVars, history>>

(* Mutant of Hydrate: the object id is not handed on.                      *)
HydrateUnnamed(c) ==
  /\ At(c, "ensure")
  /\ row[op[c].path] = NoRow
  /\ shown[op[c].path] # Absent
  /\ \/ Goto(c, "cow") /\ UNCHANGED <<row, disk, clock, op, ent, refreshVars, history>>
     \/ Fail(c)

Hydrate(c) ==
  /\ At(c, "ensure")
  /\ row[op[c].path] = NoRow
  /\ shown[op[c].path] # Absent
  /\ \/ /\ Goto(c, "cow")
        /\ op' = [op EXCEPT ![c].base = shown[op[c].path]]
        /\ UNCHANGED <<row, disk, clock, ent, refreshVars, history>>
     \/ Fail(c)

NotFound(c) ==
  /\ At(c, "ensure")
  /\ row[op[c].path] = NoRow
  /\ shown[op[c].path] = Absent
  /\ IF op[c].do = "write"
     THEN /\ Goto(c, "create")
          /\ UNCHANGED <<row, disk, clock, op, ent, refreshVars, history>>
     ELSE Fail(c)

(* EnsureCopyOnWrite: the copy is renamed into place, then gets its row.   *)
(* A path whose row was removed shows the old tree until the new is served.*)
CopyOnWrite(c) ==
  /\ At(c, "cow")
  /\ Goto(c, "cowrow")
  /\ disk' = [disk EXCEPT ![op[c].path] = op[c].base]
  /\ UNCHANGED <<row, clock, op, ent, refreshVars, history>>

CopyRow(c) ==
  LET p == op[c].path
  IN  /\ At(c, "cowrow")
      /\ Goto(c, "get")
      /\ Tick
      /\ SetRow(p, [kind |-> "modify", mtime |-> clock + 1, src |-> op[c].base, target |-> NoPath])
      /\ want' = IF p \in removed THEN [want EXCEPT ![p] = disk[p]] ELSE want
      /\ removed' = removed \ {p}
      /\ UNCHANGED <<disk, op, ent, refreshVars, touched, exposed>>

(* CreateFile, on its own or for a write to a path that does not exist.    *)
CreateFile(c) ==
  /\ At(c, "create")
  /\ Goto(c, "createrow")
  /\ disk' = [disk EXCEPT ![op[c].path] = 0]
  /\ UNCHANGED <<row, clock, op, ent, refreshVars, history>>

CreateRow(c) ==
  LET p == op[c].path
  IN  /\ At(c, "createrow")
      /\ Tick
      /\ SetRow(p, [kind |-> "create", mtime |-> clock + 1, src |-> NoPath, target |-> NoPath])
      /\ UNCHANGED disk
      /\ IF op[c].do = "create"
         THEN Succeed(c, Show(p, 0))
         ELSE Goto(c, "get") /\ UNCHANGED <<op, ent, refreshVars, history>>

(* WriteFile, Truncate, Rename and RenameAndMarkModifiedFromBase start by  *)
(* reading the row.  A touch updates it, whatever it is.                   *)
Get(c) ==
  LET p == op[c].path
  IN  /\ At(c, "get")
      /\ op[c].do # "touch"
      /\ IF Live(row[p])
         THEN /\ Goto(c, IF op[c].do \in {"write", "truncate"} THEN "io" ELSE "tx")
              /\ ent' = [ent EXCEPT ![c] = row[p]]
              /\ UNCHANGED <<row, disk, clock, op, refreshVars, history>>
         ELSE Fail(c)

(* SetMtime stores the time the caller likes: the present, or an old one.  *)
SetMtime(c) ==
  LET p == op[c].path
  IN  /\ At(c, "get")
      /\ op[c].do = "touch"
      /\ End(c)
      /\ Tick
      /\ \E t \in {1, clock + 1} :
           /\ row' = IF row[p] = NoRow THEN row ELSE [row EXCEPT ![p].mtime = t]
           /\ exposed' = IF rpc = "delete" /\ t # clock + 1 THEN exposed \cup {p} ELSE exposed
      /\ UNCHANGED <<disk, refreshVars, want, removed, touched>>

(* A write creates a backing file that is missing, a truncation fails.     *)
WriteAt(c) ==
  LET p == op[c].path
  IN  /\ At(c, "io")
      /\ IF op[c].do = "truncate" /\ disk[p] = NoFile
         THEN Fail(c)
         ELSE /\ Goto(c, "upsert")
              /\ clock < MaxClock
              /\ disk' = [disk EXCEPT ![p] = clock + 1]
              /\ UNCHANGED <<row, clock, op, ent, refreshVars, history>>

(* The write's row is the one it read before, with a new kind and time.    *)
Upsert(c) ==
  LET p == op[c].path
  IN  /\ At(c, "upsert")
      /\ Tick
      /\ SetRow(p, [ent[c] EXCEPT !.kind = IF @ = "create" THEN "create" ELSE "modify",
                                  !.mtime = clock + 1])
      /\ UNCHANGED disk
      /\ Succeed(c, Show(p, disk[p]))

(* Remove.                                                                 *)
RemoveFile(c) ==
  LET p == op[c].path
  IN  /\ At(c, "unlink")
      /\ Goto(c, "unlinkrow")
      /\ disk' = IF Live(row[p]) THEN [disk EXCEPT ![p] = NoFile] ELSE disk
      /\ UNCHANGED <<row, clock, op, ent, refreshVars, history>>

Whiteout(target) == [kind |-> "delete", mtime |-> clock + 1, src |-> NoPath, target |-> target]

RemoveRow(c) ==
  /\ At(c, "unlinkrow")
  /\ Tick
  /\ SetRow(op[c].path, Whiteout(NoPath))
  /\ UNCHANGED disk
  /\ Succeed(c, Show(op[c].path, Absent))

(* The transaction of a rename: the row moves, and the source keeps a      *)
(* whiteout unless it was a file the user created.  A marked rename puts a *)
(* created file over a tracked one.  Neither can replace a row.            *)
Moved(c) ==
  LET e == ent[c]
      origin == IF e.kind = "rename" /\ e.target # NoPath THEN e.target ELSE op[c].path
  IN  IF op[c].do = "mark" THEN [e EXCEPT !.kind = "modify", !.src = op[c].base, !.target = NoPath]
      ELSE IF e.kind = "create" THEN [e EXCEPT !.target = NoPath]
      ELSE [e EXCEPT !.kind = "rename", !.target = origin]

(* Mutant of RenameTx: no whiteout is left at the source.                  *)
RenameTxBare(c) ==
  LET p == op[c].path
      q == op[c].to
  IN  /\ At(c, "tx")
      /\ IF row[q] # NoRow
         THEN Fail(c)
         ELSE /\ Goto(c, "move")
              /\ Tick
              /\ row' = [row EXCEPT ![q] = Moved(c), ![p] = NoRow]
              /\ UNCHANGED <<disk, op, ent, refreshVars, history>>

(* What the DELETE of Reconcile tells rows apart by.                       *)
Alike(r, s) == r.kind = s.kind /\ r.src = s.src /\ r.mtime = s.mtime

RenameTx(c) ==
  LET p == op[c].path
      q == op[c].to
      hidden   == IF shown[p] # Absent THEN {p} ELSE {}
      mistaken == IF rpc = "delete" /\ seen[q] \notin {NoRow, Moved(c)} /\ Alike(Moved(c), seen[q])
                  THEN {q} ELSE {}
      left == IF Moved(c).kind = "rename" THEN Whiteout(Moved(c).target) ELSE NoRow
  IN  /\ At(c, "tx")
      /\ IF row[q] # NoRow
         THEN Fail(c)
         ELSE /\ Goto(c, "move")
              /\ Tick
              /\ row' = [row EXCEPT ![q] = Moved(c), ![p] = left]
              /\ exposed' = exposed \cup mistaken \cup (IF left = NoRow THEN hidden ELSE {})
              /\ UNCHANGED <<disk, op, ent, refreshVars, want, removed, touched>>

(* Mutant of Move: the backing file stays where it is.                     *)
MoveForgotten(c) ==
  /\ At(c, "move")
  /\ UNCHANGED <<row, disk, clock>>
  /\ Succeed(c, [x \in {op[c].path, op[c].to} |->
                           IF x = op[c].to THEN disk[op[c].path] ELSE Absent])

(* The backing file follows; if it is gone the rows are put back.          *)
Move(c) ==
  LET p == op[c].path
      q == op[c].to
  IN  /\ At(c, "move")
      /\ UNCHANGED clock
      /\ IF disk[p] = NoFile
         THEN /\ End(c)
              /\ row' = [row EXCEPT ![q] = NoRow, ![p] = ent[c]]
              /\ UNCHANGED <<disk, refreshVars, history>>
         ELSE /\ disk' = [disk EXCEPT ![q] = disk[p], ![p] = NoFile]
              /\ UNCHANGED row
              /\ Succeed(c, [x \in {p, q} |-> IF x = q THEN disk[p] ELSE Absent])

Step(c) == Found(c) \/ Hydrate(c) \/ NotFound(c) \/ CopyOnWrite(c) \/ CopyRow(c)
           \/ CreateFile(c) \/ CreateRow(c) \/ Get(c) \/ SetMtime(c) \/ WriteAt(c)
           \/ Upsert(c) \/ RemoveFile(c) \/ RemoveRow(c) \/ RenameTx(c) \/ Move(c)

-----------------------------------------------------------------------------
(* The refresh: the watcher sees HEAD move and the new tree is published.  *)
Publish ==
  /\ rpc = "idle" /\ mounted
  /\ head' \in Trees \ {head}
  /\ rpc' = "list"
  /\ refreshes < MaxRefreshes /\ refreshes' = refreshes + 1
  /\ UNCHANGED <<row, disk, clock, clientVars, seen, doomed, shown, mounted, history>>

(* Reconcile, from its query to the removal of the last backing file.      *)
ListRows ==
  /\ rpc = "list"
  /\ rpc' = "delete"
  /\ seen' = row
  /\ touched' = Busy
  /\ UNCHANGED <<row, disk, clock, clientVars, refreshes, doomed, head, shown, mounted, want, removed, exposed>>

(* The entries of rows that are stale in the tree.                         *)
Source(p, r) == IF r.target = NoPath THEN p ELSE r.target
Outdated(r, p, tree) == tree[p] = Absent \/ r.src # tree[p]

(* Mutant of Stale: a rename is compared with the base at its new path.    *)
StaleInPlace(rows, tree) ==
  LET Kind(k)  == {p \in Paths : rows[p] # NoRow /\ rows[p].kind = k}
      renames  == {p \in Kind("rename") : Outdated(rows[p], p, tree)}
      modified == {p \in Kind("modify") : Outdated(rows[p], p, tree)}
      sources  == {Source(p, rows[p]) : p \in renames}
  IN  modified \cup renames
      \cup {p \in Kind("create") : tree[p] # Absent}
      \cup {p \in Kind("delete") : tree[p] = Absent \/ {p, rows[p].target} \cap sources # {}}

Stale(rows, tree) ==
  LET Kind(k)  == {p \in Paths : rows[p] # NoRow /\ rows[p].kind = k}
      renames  == {p \in Kind("rename") : Outdated(rows[p], Source(p, rows[p]), tree)}
      modified == {p \in Kind("modify") : Outdated(rows[p], p, tree)}
      sources  == {Source(p, rows[p]) : p \in renames}
  IN  modified \cup renames
      \cup {p \in Kind("create") : tree[p] # Absent}
      \cup {p \in Kind("delete") : tree[p] = Absent \/ {p, rows[p].target} \cap sources # {}}

(* Mutant of Guarded: the DELETE names the path only.                      *)
GuardedByPath(p) == row[p] # NoRow

(* The DELETE names the kind, source_oid and mtime the row had when it was *)
(* listed.                                                                 *)
Guarded(p) == row[p] # NoRow /\ Alike(row[p], seen[p])

DeleteRows ==
  LET gone == {p \in Stale(seen, head) : Guarded(p)}
  IN  /\ rpc = "delete"
      /\ rpc' = "remove"
      /\ row' = [p \in Paths |-> IF p \in gone THEN NoRow ELSE row[p]]
      /\ doomed' = {p \in gone : seen[p].kind # "delete"}
      /\ removed' = removed \cup {p \in gone : row[p] = seen[p]}
      /\ exposed' = exposed \cup (Busy \cap gone)
      /\ seen' = [p \in Paths |-> NoRow]
      /\ UNCHANGED <<disk, clock, clientVars, refreshes, head, shown, mounted, want, touched>>

(* A refresh of a mounted tree goes on when Reconcile fails; a mount does   *)
(* not.                                                                    *)
ReconcileFails ==
  /\ rpc \in {"list", "delete"} /\ mounted
  /\ rpc' = "remove"
  /\ seen' = [p \in Paths |-> NoRow]
  /\ touched' = Paths
  /\ UNCHANGED <<row, disk, clock, clientVars, refreshes, doomed, head, shown, mounted, want, removed, exposed>>

RemoveBacking(p) ==
  /\ rpc = "remove"
  /\ p \in doomed
  /\ doomed' = doomed \ {p}
  /\ disk' = [disk EXCEPT ![p] = NoFile]
  /\ UNCHANGED <<row, clock, clientVars, refreshes, rpc, seen, head, shown, mounted, history>>

(* The resolver serves the new tree; the user expects what was committed   *)
(* at every path without a row, or which a rename may yet leave so.        *)
Bare == {p \in Paths : row[p] = NoRow \/ \E c \in Clients : At(c, "move") /\ op[c].to = p}

SetGeneration ==
  /\ rpc = "remove" /\ doomed = {}
  /\ rpc' = "idle"
  /\ shown' = head
  /\ mounted' = TRUE
  /\ want' = [p \in Paths |-> IF p \in Bare THEN head[p] ELSE want[p]]
  /\ removed' = {} /\ touched' = {}
  /\ exposed' = exposed \cup {p \in Busy : row[p] = NoRow}
  /\ UNCHANGED <<row, disk, clock, clientVars, refreshes, seen, doomed, head>>

(* The process dies; whatever HEAD is when it comes back, the mount starts *)
(* with a refresh that no operation overlaps.                              *)
Crash ==
  /\ mounted
  /\ mounted' = FALSE
  /\ refreshes < MaxRefreshes /\ refreshes' = refreshes + 1
  /\ head' \in Trees
  /\ rpc' = "list"
  /\ pc' = [c \in Clients |-> "idle"]
  /\ op' = [c \in Clients |-> NoOp]
  /\ ent' = [c \in Clients |-> NoRow]
  /\ doomed' = {}
  /\ seen' = [p \in Paths |-> NoRow]
  /\ exposed' = exposed \cup Busy
  /\ touched' = {}
  /\ UNCHANGED <<row, disk, clock, shown, want, removed>>

Refresh == Publish \/ ListRows \/ DeleteRows \/ ReconcileFails
           \/ (\E p \in Paths : RemoveBacking(p)) \/ SetGeneration

Next ==
  \/ \E c \in Clients, do \in DOMAIN Start, p \in Paths, q \in Paths \cup {NoPath} : Begin(c, do, p, q)
  \/ \E c \in Clients : Step(c)
  \/ Refresh
  \/ Crash

Spec == Init /\ [][Next]_vars

-----------------------------------------------------------------------------
(* Properties.                                                             *)

(* What becomes of a path is certain unless an operation on it was under   *)
(* way when Reconcile deleted its row or a crash stopped it, began before  *)
(* its backing file was removed, set back its mtime under Reconcile's      *)
(* eyes, renamed a file that hid a tracked one, or moved there a file with *)
(* the kind, blob and (set back) mtime of the row Reconcile has listed.    *)
Certain == Paths \ (exposed \cup Busy)

(* Every live row has its backing file, through crashes between the steps  *)
(* of other operations and refreshes that overlap them.                    *)
RowsHaveFiles == \A p \in Certain : Live(row[p]) => disk[p] # NoFile

(* Each path shows what the last successful operation on it left there,    *)
(* failed operations change nothing, and a write that ends while Reconcile *)
(* is between its query and its DELETE is not lost.                        *)
KeepsWork == \A p \in Certain \ removed : View(p) = want[p]

(* When a refresh is about to serve the new tree, the row of a path nobody *)
(* touched meanwhile still means something: an edit was made to the blob   *)
(* the tree has, a created file hides none and a whiteout hides one.       *)
Current(p, r) ==
  /\ r.kind = "modify" => r.src = head[p]
  /\ r.kind = "rename" => r.src = head[Source(p, r)]
  /\ r.kind = "create" => head[p] = Absent
  /\ r.kind = "delete" => head[p] # Absent

NothingStale ==
  rpc = "remove" => \A p \in Paths \ touched : row[p] # NoRow => Current(p, row[p])

(* A rename whose source exists gives it its new name.                     *)
RenameSupported ==
  [][ \A c \in Clients : At(c, "tx") /\ ~At(c, "tx")' /\ mounted' => row'[op[c].to] \notin {NoRow, row[op[c].to]} ]_vars

(* Reconcile does not go on to remove the file that a write under way has  *)
(* just written: a write between its query and its DELETE is not lost.     *)
ConcurrentWriteKept ==
  \A c \in Clients : At(c, "upsert") => op[c].path \notin doomed
=============================================================================
