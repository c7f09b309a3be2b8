---------------------------- MODULE OverlayProofs ----------------------------
(***************************************************************************)
(* Safety of the overlay for any number of operations, paths, blobs,       *)
(* trees, refreshes and crashes: the shape of the state, the exclusion of  *)
(* operations on one path, what a refresh knows of the rows it listed, and *)
(* what each path shows and stores at every step of an operation on it.    *)
(***************************************************************************)
EXTENDS Overlay, TLAPS

USE OverlayAssumption

-----------------------------------------------------------------------------
(* The inductive invariant.                                                *)

Renames == {"rename", "mark"}
PCs == {"idle", "ensure", "cow", "cowrow", "create", "createrow", "get", "io", "upsert",
        "tx", "move", "unlink", "unlinkrow"}

(* What an operation in flight is, at each of its steps.                   *)
OpShape(c) ==
  IF pc[c] = "idle" THEN op[c] = NoOp
  ELSE /\ op[c].path \in Paths /\ op[c].do \in Deeds
       /\ IF op[c].do \in Renames THEN op[c].to \in Paths \ {op[c].path} ELSE op[c].to = NoPath
       /\ op[c].do = "mark" \/ pc[c] \in {"cow", "cowrow"} => op[c].base \in Oids
       /\ op[c].do = "mark" => pc[c] \in {"get", "tx", "move"}
       /\ pc[c] \in {"io", "upsert"} => op[c].do \in {"write", "truncate"}
       /\ pc[c] \in {"tx", "move"} => op[c].do \in Renames
       /\ pc[c] \in {"create", "createrow"} => op[c].do \in {"create", "write"}
       /\ pc[c] \in {"unlink", "unlinkrow"} => op[c].do = "unlink"
       /\ pc[c] \in {"ensure", "cow", "cowrow", "get"} => op[c].do \notin {"create", "unlink"}
       /\ pc[c] \in {"io", "upsert", "tx", "move"} => ent[c] \in Rows /\ ent[c].kind # "delete"

Exclusive == \A c, d \in Clients : c # d => Uses(c) \cap Uses(d) = {}

(* No row is newer than the clock.                                         *)
PastRow(r) == r # NoRow => r.mtime <= clock

Past == /\ \A p \in Paths : PastRow(row[p]) /\ PastRow(seen[p])
        /\ \A c \in Clients : PastRow(ent[c])

(* What the refresh may rely on: nobody has touched the paths outside      *)
(* touched since it listed the rows, a row that looks like the one it      *)
(* listed is that row, and the files it will remove belong to no row.      *)
Listed ==
  /\ rpc \in {"delete", "remove"} => Busy \subseteq touched
  /\ rpc = "delete" =>
       /\ \A p \in Paths \ touched : row[p] = seen[p]
       /\ \A p \in Paths \ exposed : (row[p] # NoRow /\ seen[p] # NoRow /\ Alike(row[p], seen[p]))
                                       => row[p] = seen[p]
  /\ \A p \in doomed \ exposed : rpc = "remove" /\ row[p] = NoRow /\ p \notin Busy

(* A path at rest.                                                         *)
Settled(p) ==
  /\ Live(row[p]) => disk[p] # NoFile
  /\ p \notin removed => View(p) = want[p]
  /\ p \in removed => row[p] = NoRow

AtRest == \A p \in Certain : Settled(p)

(* The path of an operation, at each of its steps.                         *)
SourceKept(c) ==
  LET p == op[c].path
      do == op[c].do
  IN  /\ pc[c] \in {"ensure", "tx"}               => Settled(p)
      /\ pc[c] = "get" /\ do # "write"           => Settled(p)
      /\ pc[c] = "io" /\ do = "truncate"         => Settled(p)
      /\ pc[c] = "get" => Live(row[p]) \/ Settled(p)
      /\ pc[c] \in {"cow", "cowrow"}              => row[p] = NoRow
      /\ pc[c] \in {"cow", "cowrow"} /\ p \notin removed => want[p] = op[c].base
      /\ pc[c] = "cowrow"                         => disk[p] = op[c].base
      /\ pc[c] = "createrow"                      => disk[p] = 0
      /\ pc[c] \in {"upsert", "move"}             => disk[p] # NoFile
      /\ pc[c] = "tx"                             => row[p] = ent[c]
      /\ pc[c] = "move" => ~Live(row[p]) /\ (row[p] = NoRow => shown[p] = Absent)

(* The new name of a rename.                                               *)
TargetKept(c) ==
  LET q == op[c].to
  IN  IF pc[c] = "move"
      THEN Live(row[q]) /\ (q \notin removed => want[q] = shown[q])
      ELSE Settled(q)

Kept(c) ==
  /\ (pc[c] # "idle" /\ op[c].path \notin exposed) => SourceKept(c)
  /\ (op[c].do \in Renames /\ op[c].to \notin exposed) => TargetKept(c)

Types == TypeOK /\ (\A c \in Clients : OpShape(c)) /\ Exclusive
Knows == Past /\ Listed
Works == AtRest /\ \A c \in Clients : Kept(c)
IInv  == Types /\ Knows /\ Works /\ NothingStale

-----------------------------------------------------------------------------
(* The types.                                                              *)

(* Times are positive, and a tick gives the next one.                      *)
LEMMA TickTime ==
  ASSUME TypeOK, Tick
  PROVE  clock' = clock + 1 /\ clock + 1 \in Times /\ clock \in Nat
BY DEF TypeOK, Tick, Times

(* A tree has at each path a blob or nothing.                              *)
LEMMA TreeSort ==
  ASSUME NEW t \in Trees, NEW p \in Paths
  PROVE  t[p] \in Oids \cup {Absent}
OBVIOUS

(* The record of an operation at work names a path, and so on.             *)
LEMMA OpSort ==
  ASSUME TypeOK, NEW c \in Clients, OpShape(c), pc[c] # "idle"
  PROVE  /\ op[c].path \in Paths /\ op[c].do \in Deeds
         /\ op[c].to \in Paths \cup {NoPath} /\ op[c].base \in Oids \cup {NoPath}
         /\ op[c] \in [do : Deeds \cup {"none"}, path : Paths \cup {NoPath},
                       to : Paths \cup {NoPath}, base : Oids \cup {NoPath}]
         /\ op[c].do \in Renames => op[c].to \in Paths /\ op[c].to # op[c].path
         /\ op[c].do \notin Renames => op[c].to = NoPath
BY DEF TypeOK, OpShape

(* Ending an operation leaves no trace of it in the client.                *)
LEMMA EndTypes ==
  ASSUME TypeOK, NEW c \in Clients, End(c)
  PROVE  /\ pc' \in [Clients -> PCs] /\ ent' \in [Clients -> Rows \cup {NoRow}]
         /\ op' \in [Clients -> [do : Deeds \cup {"none"}, path : Paths \cup {NoPath},
                                to : Paths \cup {NoPath}, base : Oids \cup {NoPath}]]
         /\ pc'[c] = "idle" /\ op'[c] = NoOp /\ ent'[c] = NoRow
         /\ OpShape(c)'
         /\ \A d \in Clients \ {c} : pc'[d] = pc[d] /\ op'[d] = op[d] /\ ent'[d] = ent[d]
<1>1. NoOp \in [do : Deeds \cup {"none"}, path : Paths \cup {NoPath},
               to : Paths \cup {NoPath}, base : Oids \cup {NoPath}]
  BY DEF NoOp
<1>2. pc' \in [Clients -> PCs] /\ pc'[c] = "idle"
  BY DEF TypeOK, End, Goto, PCs
<1>3. ent' \in [Clients -> Rows \cup {NoRow}] /\ ent'[c] = NoRow
  BY DEF TypeOK, End
<1>4. /\ op' \in [Clients -> [do : Deeds \cup {"none"}, path : Paths \cup {NoPath},
                              to : Paths \cup {NoPath}, base : Oids \cup {NoPath}]]
      /\ op'[c] = NoOp
  BY <1>1 DEF TypeOK, End
<1>5. \A d \in Clients \ {c} : pc'[d] = pc[d] /\ op'[d] = op[d] /\ ent'[d] = ent[d]
  BY DEF TypeOK, End, Goto
<1>. QED
  BY <1>2, <1>3, <1>4, <1>5 DEF OpShape

(* The next step of an operation.                                          *)
LEMMA GotoTypes ==
  ASSUME TypeOK, NEW c \in Clients, NEW to \in PCs, Goto(c, to)
  PROVE  /\ pc' \in [Clients -> PCs] /\ pc'[c] = to
         /\ \A d \in Clients \ {c} : pc'[d] = pc[d]
BY DEF TypeOK, Goto, PCs

(* Only the refresh changes its own state.                                 *)
LEMMA RefreshKept ==
  ASSUME TypeOK, UNCHANGED refreshVars
  PROVE  /\ {head', shown'} \subseteq Trees /\ mounted' \in BOOLEAN
         /\ rpc' \in {"idle", "list", "delete", "remove"}
         /\ refreshes' \in 0..MaxRefreshes
         /\ seen' \in [Paths -> Rows \cup {NoRow}] /\ doomed' \subseteq Paths
         /\ rpc' = rpc /\ seen' = seen /\ doomed' = doomed /\ head' = head /\ shown' = shown
BY DEF TypeOK, refreshVars

-----------------------------------------------------------------------------
(* A step of an operation stays within its paths.                          *)

(* What a step of c leaves alone: the other operations, the refresh, and   *)
(* all that is known of the paths c does not use.                          *)
Frame(c) ==
  /\ \A d \in Clients \ {c} : pc'[d] = pc[d] /\ op'[d] = op[d] /\ ent'[d] = ent[d]
  /\ Uses(c)' \subseteq Uses(c)
  /\ \A p \in Paths \ Uses(c) :
       /\ row'[p] = row[p] /\ disk'[p] = disk[p] /\ want'[p] = want[p]
       /\ p \in removed' <=> p \in removed
       /\ p \in exposed' <=> p \in exposed
  /\ exposed \subseteq exposed'
  /\ UNCHANGED <<refreshVars, touched>>

Stays(c) == TypeOK' /\ OpShape(c)' /\ Frame(c)

(* The paths of an operation at work.                                      *)
LEMMA UsesOf ==
  ASSUME TypeOK, NEW c \in Clients, OpShape(c), pc[c] # "idle"
  PROVE  /\ Uses(c) \subseteq Paths /\ op[c].path \in Uses(c)
         /\ op[c].do \in Renames => op[c].to \in Uses(c)
         /\ op[c].to \in Paths => op[c].to \in Uses(c)
BY OpSort DEF Uses

(* The paths of an operation that has ended.                               *)
LEMMA EndUses ==
  ASSUME TypeOK, NEW c \in Clients, End(c)
  PROVE  Uses(c)' = {}
BY EndTypes DEF Uses

(* A failed operation has left everything alone.                           *)
LEMMA FailStays ==
  ASSUME TypeOK, NEW c \in Clients, OpShape(c), Fail(c)
  PROVE  Stays(c)
<1>1. End(c) /\ UNCHANGED <<row, disk, clock, refreshVars, history>>
  BY DEF Fail
<1>2. TypeOK'
  BY <1>1, EndTypes, RefreshKept DEF TypeOK, PCs, history
<1>3. Frame(c)
  BY <1>1, EndTypes, EndUses DEF Frame, history
<1>. QED
  BY <1>1, <1>2, <1>3, EndTypes DEF Stays

(* A successful one tells its caller of its own paths.                     *)
LEMMA SucceedStays ==
  ASSUME TypeOK, NEW c \in Clients, OpShape(c), pc[c] # "idle",
         NEW shows, DOMAIN shows \subseteq Uses(c),
         \A p \in DOMAIN shows : shows[p] \in Contents \cup {Absent, NoFile},
         Succeed(c, shows),
         row' \in [Paths -> Rows \cup {NoRow}], disk' \in [Paths -> Contents \cup {NoFile}],
         clock' \in 0..MaxClock,
         \A p \in Paths \ Uses(c) : row'[p] = row[p] /\ disk'[p] = disk[p]
  PROVE  Stays(c)
<1>1. End(c) /\ UNCHANGED <<refreshVars, touched, exposed>>
  BY DEF Succeed
<1>2. want' \in [Paths -> Contents \cup {Absent, NoFile}] /\ removed' \subseteq Paths
  BY DEF Succeed, TypeOK
<1>3. TypeOK'
  BY <1>1, <1>2, EndTypes, RefreshKept DEF TypeOK, PCs
<1>4. \A p \in Paths \ Uses(c) : want'[p] = want[p] /\ (p \in removed' <=> p \in removed)
  BY DEF Succeed
<1>5. Frame(c)
  BY <1>1, <1>4, EndTypes, EndUses DEF Frame
<1>. QED
  BY <1>1, <1>3, <1>5, EndTypes DEF Stays

(* A step on the way, which changes the paths of its operation.            *)
LEMMA OnwardStays ==
  ASSUME TypeOK, NEW c \in Clients, OpShape(c), pc[c] # "idle",
         NEW to \in PCs, Goto(c, to), OpShape(c)',
         op' \in [Clients -> [do : Deeds \cup {"none"}, path : Paths \cup {NoPath},
                              to : Paths \cup {NoPath}, base : Oids \cup {NoPath}]],
         op'[c].path = op[c].path, op'[c].to = op[c].to,
         ent' \in [Clients -> Rows \cup {NoRow}],
         \A d \in Clients \ {c} : op'[d] = op[d] /\ ent'[d] = ent[d],
         row' \in [Paths -> Rows \cup {NoRow}], disk' \in [Paths -> Contents \cup {NoFile}],
         clock' \in 0..MaxClock,
         want' \in [Paths -> Contents \cup {Absent, NoFile}], removed' \subseteq Paths,
         exposed' \subseteq Paths, exposed \subseteq exposed',
         UNCHANGED <<refreshVars, touched>>,
         \A p \in Paths \ Uses(c) : /\ row'[p] = row[p] /\ disk'[p] = disk[p] /\ want'[p] = want[p]
                                    /\ p \in removed' <=> p \in removed
                                    /\ p \in exposed' <=> p \in exposed
  PROVE  Stays(c)
<1>1. TypeOK'
  BY GotoTypes, RefreshKept DEF TypeOK, PCs
<1>2. Uses(c)' \subseteq Uses(c)
  BY DEF Uses
<1>3. Frame(c)
  BY <1>2, GotoTypes DEF Frame
<1>. QED
  BY <1>1, <1>3 DEF Stays

(* A step on the way that changes nothing but the row and the file of the  *)
(* path of the operation.                                                  *)
LEMMA QuietStays ==
  ASSUME TypeOK, NEW c \in Clients, OpShape(c), pc[c] # "idle",
         NEW to \in PCs, Goto(c, to), OpShape(c)',
         row' \in [Paths -> Rows \cup {NoRow}], disk' \in [Paths -> Contents \cup {NoFile}],
         clock' \in 0..MaxClock,
         UNCHANGED <<op, ent, refreshVars, history>>,
         \A p \in Paths \ Uses(c) : row'[p] = row[p] /\ disk'[p] = disk[p]
  PROVE  Stays(c)
<1>1. /\ want' \in [Paths -> Contents \cup {Absent, NoFile}] /\ removed' \subseteq Paths
      /\ exposed' \subseteq Paths /\ exposed \subseteq exposed'
      /\ op' \in [Clients -> [do : Deeds \cup {"none"}, path : Paths \cup {NoPath},
                              to : Paths \cup {NoPath}, base : Oids \cup {NoPath}]]
      /\ ent' \in [Clients -> Rows \cup {NoRow}]
  BY DEF history, TypeOK
<1>2. /\ want' = want /\ removed' = removed /\ exposed' = exposed /\ op' = op /\ ent' = ent
      /\ UNCHANGED <<refreshVars, touched>>
  BY DEF history
<1>. QED
  BY <1>1, <1>2, OnwardStays

-----------------------------------------------------------------------------
(* Every step of an operation keeps its shape and its paths.               *)

LEMMA FoundStays ==
  ASSUME TypeOK, NEW c \in Clients, OpShape(c), Found(c)
  PROVE  Stays(c)
<1> DEFINE marks == op[c].do = "rename" /\ row[op[c].path].kind = "create"
                    /\ shown[op[c].to] # Absent
           marked == [op[c] EXCEPT !.do = "mark", !.base = shown[op[c].to]]
<1>1. /\ pc[c] = "ensure" /\ Goto(c, "get") /\ UNCHANGED <<row, disk, clock, ent, refreshVars, history>>
      /\ op' = IF marks THEN [op EXCEPT ![c] = marked] ELSE op
  BY DEF Found, At
<1>2. op[c].do # "mark"
  BY <1>1 DEF OpShape
<1>3. pc'[c] = "get"
  BY <1>1, GotoTypes DEF PCs
<1>4. CASE ~marks
  <2>1. OpShape(c)'
    BY <1>1, <1>2, <1>3, <1>4 DEF OpShape
  <2>. QED
    BY <1>1, <1>3, <1>4, <2>1, QuietStays DEF PCs, TypeOK, history
<1>5. CASE marks
  <2>1. op[c].to \in Paths \ {op[c].path} /\ op[c].path \in Paths
    BY <1>1, <1>5, OpSort DEF Renames
  <2>2. shown[op[c].to] \in Oids
    BY <1>5, <2>1, TreeSort DEF TypeOK
  <2>3. /\ marked.do = "mark" /\ marked.path = op[c].path /\ marked.to = op[c].to
        /\ marked.base \in Oids
        /\ marked \in [do : Deeds \cup {"none"}, path : Paths \cup {NoPath},
                       to : Paths \cup {NoPath}, base : Oids \cup {NoPath}]
    BY <1>1, <2>1, <2>2, OpSort DEF Deeds
  <2> HIDE DEF marked
  <2>4. /\ op'[c] = marked /\ \A d \in Clients \ {c} : op'[d] = op[d]
        /\ op' \in [Clients -> [do : Deeds \cup {"none"}, path : Paths \cup {NoPath},
                                to : Paths \cup {NoPath}, base : Oids \cup {NoPath}]]
    BY <1>1, <1>5, <2>3 DEF TypeOK
  <2>5. OpShape(c)'
    BY <1>3, <2>1, <2>3, <2>4 DEF OpShape, Renames, Deeds
  <2>6. /\ want' \in [Paths -> Contents \cup {Absent, NoFile}] /\ removed' \subseteq Paths
        /\ exposed' \subseteq Paths /\ exposed \subseteq exposed'
        /\ UNCHANGED <<refreshVars, touched, row, disk, clock, ent, want, removed, exposed>>
    BY <1>1 DEF history, TypeOK
  <2>7. /\ row' \in [Paths -> Rows \cup {NoRow}] /\ disk' \in [Paths -> Contents \cup {NoFile}]
        /\ clock' \in 0..MaxClock /\ ent' \in [Clients -> Rows \cup {NoRow}]
    BY <2>6 DEF TypeOK
  <2>. QED
    BY <1>1, <2>3, <2>4, <2>5, <2>6, <2>7, OnwardStays DEF PCs
<1>. QED
  BY <1>4, <1>5

LEMMA HydrateStays ==
  ASSUME TypeOK, NEW c \in Clients, OpShape(c), Hydrate(c)
  PROVE  Stays(c)
<1> DEFINE based == [op[c] EXCEPT !.base = shown[op[c].path]]
<1>1. pc[c] = "ensure" /\ shown[op[c].path] # Absent
  BY DEF Hydrate, At
<1>2. CASE Fail(c)
  BY <1>2, FailStays
<1>3. CASE /\ Goto(c, "cow")
           /\ op' = [op EXCEPT ![c] = based]
           /\ UNCHANGED <<row, disk, clock, ent, refreshVars, history>>
  <2>1. op[c].path \in Paths /\ op[c].do # "mark"
    BY <1>1, OpSort DEF OpShape
  <2>2. shown[op[c].path] \in Oids
    BY <1>1, <2>1, TreeSort DEF TypeOK
  <2>3. /\ based.do = op[c].do /\ based.path = op[c].path /\ based.to = op[c].to
        /\ based.base \in Oids
        /\ based \in [do : Deeds \cup {"none"}, path : Paths \cup {NoPath},
                       to : Paths \cup {NoPath}, base : Oids \cup {NoPath}]
    BY <1>1, <2>1, <2>2, OpSort DEF Deeds
  <2> HIDE DEF based
  <2>4. /\ op'[c] = based /\ \A d \in Clients \ {c} : op'[d] = op[d]
        /\ op' \in [Clients -> [do : Deeds \cup {"none"}, path : Paths \cup {NoPath},
                                to : Paths \cup {NoPath}, base : Oids \cup {NoPath}]]
    BY <1>3, <2>3 DEF TypeOK
  <2>5. pc'[c] = "cow"
    BY <1>3, GotoTypes DEF PCs
  <2>6. OpShape(c)'
    BY <1>1, <2>1, <2>3, <2>4, <2>5 DEF OpShape
  <2>7. /\ want' \in [Paths -> Contents \cup {Absent, NoFile}] /\ removed' \subseteq Paths
        /\ exposed' \subseteq Paths /\ exposed \subseteq exposed'
        /\ UNCHANGED <<refreshVars, touched, row, disk, clock, ent, want, removed, exposed>>
    BY <1>3 DEF history, TypeOK
  <2>8. /\ row' \in [Paths -> Rows \cup {NoRow}] /\ disk' \in [Paths -> Contents \cup {NoFile}]
        /\ clock' \in 0..MaxClock /\ ent' \in [Clients -> Rows \cup {NoRow}]
    BY <2>7 DEF TypeOK
  <2>. QED
    BY <1>1, <1>3, <2>3, <2>4, <2>6, <2>7, <2>8, OnwardStays DEF PCs
<1>. QED
  BY <1>2, <1>3 DEF Hydrate

LEMMA NotFoundStays ==
  ASSUME TypeOK, NEW c \in Clients, OpShape(c), NotFound(c)
  PROVE  Stays(c)
<1>1. CASE Fail(c)
  BY <1>1, FailStays
<1>2. CASE op[c].do = "write" /\ Goto(c, "create")
           /\ UNCHANGED <<row, disk, clock, op, ent, refreshVars, history>>
  <2>1. pc[c] = "ensure"
    BY DEF NotFound, At
  <2>2. pc'[c] = "create" /\ op' = op
    BY <1>2, GotoTypes DEF PCs
  <2>3. OpShape(c)'
    BY <1>2, <2>1, <2>2 DEF OpShape
  <2>. QED
    BY <1>2, <2>1, <2>3, QuietStays DEF PCs, TypeOK
<1>. QED
  BY <1>1, <1>2 DEF NotFound

(* A step that only writes the backing file.                               *)
LEMMA FileStays ==
  ASSUME TypeOK, NEW c \in Clients, OpShape(c), pc[c] # "idle",
         NEW to \in PCs, Goto(c, to), OpShape(c)',
         NEW what \in Contents \cup {NoFile}, disk' = [disk EXCEPT ![op[c].path] = what],
         UNCHANGED <<row, clock, op, ent, refreshVars, history>>
  PROVE  Stays(c)
<1>1. op[c].path \in Uses(c) /\ op[c].path \in Paths
  BY UsesOf, OpSort
<1>2. /\ disk' \in [Paths -> Contents \cup {NoFile}]
      /\ \A p \in Paths \ Uses(c) : row'[p] = row[p] /\ disk'[p] = disk[p]
      /\ row' \in [Paths -> Rows \cup {NoRow}] /\ clock' \in 0..MaxClock
  BY <1>1 DEF TypeOK
<1>. QED
  BY <1>2, QuietStays

LEMMA CopyOnWriteStays ==
  ASSUME TypeOK, NEW c \in Clients, OpShape(c), CopyOnWrite(c)
  PROVE  Stays(c)
<1>1. /\ pc[c] = "cow" /\ Goto(c, "cowrow") /\ disk' = [disk EXCEPT ![op[c].path] = op[c].base]
      /\ UNCHANGED <<row, clock, op, ent, refreshVars, history>>
  BY DEF CopyOnWrite, At
<1>2. pc'[c] = "cowrow"
  BY <1>1, GotoTypes DEF PCs
<1>3. OpShape(c)' /\ op[c].base \in Contents
  BY <1>1, <1>2 DEF OpShape, Contents
<1>. QED
  BY <1>1, <1>3, FileStays DEF PCs

LEMMA CreateFileStays ==
  ASSUME TypeOK, NEW c \in Clients, OpShape(c), CreateFile(c)
  PROVE  Stays(c)
<1>1. /\ pc[c] = "create" /\ Goto(c, "createrow") /\ disk' = [disk EXCEPT ![op[c].path] = 0]
      /\ UNCHANGED <<row, clock, op, ent, refreshVars, history>>
  BY DEF CreateFile, At
<1>2. pc'[c] = "createrow"
  BY <1>1, GotoTypes DEF PCs
<1>3. OpShape(c)' /\ 0 \in Contents
  BY <1>1, <1>2 DEF OpShape, Contents
<1>. QED
  BY <1>1, <1>3, FileStays DEF PCs

LEMMA WriteAtStays ==
  ASSUME TypeOK, NEW c \in Clients, OpShape(c), WriteAt(c)
  PROVE  Stays(c)
<1>1. CASE Fail(c)
  BY <1>1, FailStays
<1>2. CASE /\ Goto(c, "upsert") /\ clock < MaxClock /\ disk' = [disk EXCEPT ![op[c].path] = clock + 1]
           /\ UNCHANGED <<row, clock, op, ent, refreshVars, history>>
  <2>1. pc[c] = "io"
    BY DEF WriteAt, At
  <2>2. pc'[c] = "upsert"
    BY <1>2, GotoTypes DEF PCs
  <2>3. OpShape(c)' /\ clock + 1 \in Contents
    BY <1>2, <2>1, <2>2 DEF OpShape, Contents, TypeOK
  <2>. QED
    BY <1>2, <2>1, <2>3, FileStays DEF PCs
<1>. QED
  BY <1>1, <1>2 DEF WriteAt

LEMMA RemoveFileStays ==
  ASSUME TypeOK, NEW c \in Clients, OpShape(c), RemoveFile(c)
  PROVE  Stays(c)
<1>1. /\ pc[c] = "unlink" /\ Goto(c, "unlinkrow")
      /\ UNCHANGED <<row, clock, op, ent, refreshVars, history>>
      /\ disk' = IF Live(row[op[c].path]) THEN [disk EXCEPT ![op[c].path] = NoFile] ELSE disk
  BY DEF RemoveFile, At
<1>2. pc'[c] = "unlinkrow"
  BY <1>1, GotoTypes DEF PCs
<1>3. OpShape(c)'
  BY <1>1, <1>2 DEF OpShape
<1>4. CASE Live(row[op[c].path])
  BY <1>1, <1>3, <1>4, FileStays DEF PCs
<1>5. CASE ~Live(row[op[c].path])
  BY <1>1, <1>3, <1>5, QuietStays DEF PCs, TypeOK
<1>. QED
  BY <1>4, <1>5

-----------------------------------------------------------------------------
(* The same of the steps that change rows.                                 *)

LEMMA RowAt ==
  ASSUME TypeOK, NEW p \in Paths, NEW r \in Rows \cup {NoRow}, row' = [row EXCEPT ![p] = r]
  PROVE  /\ row' \in [Paths -> Rows \cup {NoRow}] /\ row'[p] = r
         /\ \A x \in Paths \ {p} : row'[x] = row[x]
BY DEF TypeOK

LEMMA CopyRowStays ==
  ASSUME TypeOK, NEW c \in Clients, OpShape(c), CopyRow(c)
  PROVE  /\ Stays(c) /\ op[c].path \in Paths /\ pc[c] = "cowrow" /\ pc'[c] = "get"
         /\ row'[op[c].path].kind = "modify" /\ row'[op[c].path].mtime = clock + 1
         /\ row'[op[c].path] \in Rows
<1> DEFINE p == op[c].path
           r == [kind |-> "modify", mtime |-> clock + 1, src |-> op[c].base, target |-> NoPath]
<1>1. /\ pc[c] = "cowrow" /\ Goto(c, "get") /\ Tick /\ row' = [row EXCEPT ![p] = r]
      /\ UNCHANGED <<disk, op, ent, refreshVars, touched, exposed>>
      /\ want' = IF p \in removed THEN [want EXCEPT ![p] = disk[p]] ELSE want
      /\ removed' = removed \ {p}
  BY DEF CopyRow, SetRow, At
<1>2. /\ pc'[c] = "get" /\ p \in Paths /\ p \in Uses(c) /\ op[c].base \in Oids
      /\ clock' = clock + 1 /\ clock + 1 \in Times
  BY <1>1, GotoTypes, OpSort, UsesOf, TickTime DEF PCs, OpShape
<1>3. r \in Rows /\ r.kind = "modify" /\ r.mtime = clock + 1
  BY <1>2 DEF Rows
<1> HIDE DEF r
<1>4. row' \in [Paths -> Rows \cup {NoRow}] /\ row'[p] = r /\ \A x \in Paths \ {p} : row'[x] = row[x]
  BY <1>1, <1>2, <1>3, RowAt
<1>5. OpShape(c)'
  BY <1>1, <1>2 DEF OpShape
<1>6. /\ want' \in [Paths -> Contents \cup {Absent, NoFile}] /\ removed' \subseteq Paths
      /\ \A x \in Paths \ {p} : want'[x] = want[x] /\ (x \in removed' <=> x \in removed)
  BY <1>1, <1>2 DEF TypeOK
<1>7. /\ disk' \in [Paths -> Contents \cup {NoFile}] /\ clock' \in 0..MaxClock /\ disk' = disk
      /\ exposed' \subseteq Paths /\ exposed' = exposed
      /\ op' = op /\ ent' = ent
      /\ op' \in [Clients -> [do : Deeds \cup {"none"}, path : Paths \cup {NoPath},
                              to : Paths \cup {NoPath}, base : Oids \cup {NoPath}]]
      /\ ent' \in [Clients -> Rows \cup {NoRow}]
      /\ UNCHANGED <<refreshVars, touched>>
  BY <1>1, <1>2 DEF TypeOK, Times
<1>8. Stays(c)
  BY <1>1, <1>2, <1>4, <1>5, <1>6, <1>7, OnwardStays DEF PCs
<1>. QED
  BY <1>1, <1>2, <1>3, <1>4, <1>8

LEMMA CreateRowStays ==
  ASSUME TypeOK, NEW c \in Clients, OpShape(c), CreateRow(c)
  PROVE  /\ Stays(c) /\ op[c].path \in Paths /\ pc[c] = "createrow"
         /\ row'[op[c].path].kind = "create" /\ row'[op[c].path].mtime = clock + 1
         /\ row'[op[c].path] \in Rows
<1> DEFINE p == op[c].path
           r == [kind |-> "create", mtime |-> clock + 1, src |-> NoPath, target |-> NoPath]
<1>1. /\ pc[c] = "createrow" /\ Tick /\ row' = [row EXCEPT ![p] = r] /\ disk' = disk
  BY DEF CreateRow, SetRow, At
<1>2. p \in Paths /\ p \in Uses(c) /\ clock' = clock + 1 /\ clock + 1 \in Times
  BY <1>1, OpSort, UsesOf, TickTime
<1>3. r \in Rows /\ r.kind = "create" /\ r.mtime = clock + 1
  BY <1>2 DEF Rows
<1> HIDE DEF r
<1>4. row' \in [Paths -> Rows \cup {NoRow}] /\ row'[p] = r /\ \A x \in Paths \ {p} : row'[x] = row[x]
  BY <1>1, <1>2, <1>3, RowAt
<1>5. disk' \in [Paths -> Contents \cup {NoFile}] /\ clock' \in 0..MaxClock
  BY <1>1, <1>2 DEF TypeOK, Times
<1>6. CASE Succeed(c, Show(p, 0))
  <2>1. DOMAIN Show(p, 0) = {p} /\ \A x \in DOMAIN Show(p, 0) : Show(p, 0)[x] \in Contents
    BY DEF Show, Contents
  <2>2. Stays(c)
    BY <1>1, <1>2, <1>4, <1>5, <1>6, <2>1, SucceedStays
  <2>. QED
    BY <2>2, <1>1, <1>2, <1>3, <1>4
<1>7. CASE op[c].do # "create" /\ Goto(c, "get") /\ UNCHANGED <<op, ent, refreshVars, history>>
  <2>1. pc'[c] = "get" /\ op' = op
    BY <1>7, GotoTypes DEF PCs
  <2>2. OpShape(c)'
    BY <1>1, <1>7, <2>1 DEF OpShape
  <2>3. Stays(c)
    BY <1>1, <1>2, <1>4, <1>5, <1>7, <2>2, QuietStays DEF PCs
  <2>. QED
    BY <2>3, <1>1, <1>2, <1>3, <1>4
<1>. QED
  BY <1>6, <1>7 DEF CreateRow

LEMMA GetStays ==
  ASSUME TypeOK, NEW c \in Clients, OpShape(c), Get(c)
  PROVE  Stays(c)
<1> DEFINE p == op[c].path
           to == IF op[c].do \in {"write", "truncate"} THEN "io" ELSE "tx"
<1>1. pc[c] = "get" /\ op[c].do # "touch"
  BY DEF Get, At
<1>2. p \in Paths
  BY <1>1, OpSort
<1>3. CASE Fail(c)
  BY <1>3, FailStays
<1>4. CASE /\ Live(row[p]) /\ Goto(c, to)
           /\ ent' = [ent EXCEPT ![c] = row[p]]
           /\ UNCHANGED <<row, disk, clock, op, refreshVars, history>>
  <2>1. row[p] \in Rows /\ row[p].kind # "delete"
    BY <1>2, <1>4 DEF TypeOK, Live
  <2>2. /\ ent'[c] = row[p] /\ \A d \in Clients \ {c} : ent'[d] = ent[d]
        /\ ent' \in [Clients -> Rows \cup {NoRow}]
    BY <1>4, <2>1 DEF TypeOK
  <2>3. to \in PCs /\ pc'[c] = to /\ op' = op
    BY <1>4, GotoTypes DEF PCs
  <2>4. OpShape(c)'
    BY <1>1, <2>1, <2>2, <2>3 DEF OpShape, Renames, Deeds
  <2>5. /\ UNCHANGED <<refreshVars, touched, row, disk, clock, op, want, removed, exposed>>
    BY <1>4 DEF history
  <2>6. /\ row' \in [Paths -> Rows \cup {NoRow}] /\ disk' \in [Paths -> Contents \cup {NoFile}]
        /\ clock' \in 0..MaxClock
        /\ want' \in [Paths -> Contents \cup {Absent, NoFile}] /\ removed' \subseteq Paths
        /\ exposed' \subseteq Paths /\ exposed \subseteq exposed'
        /\ op' \in [Clients -> [do : Deeds \cup {"none"}, path : Paths \cup {NoPath},
                                to : Paths \cup {NoPath}, base : Oids \cup {NoPath}]]
    BY <2>5 DEF TypeOK
  <2> HIDE DEF to
  <2>. QED
    BY <1>1, <1>4, <2>2, <2>3, <2>4, <2>5, <2>6, OnwardStays
<1>. QED
  BY <1>3, <1>4 DEF Get

-----------------------------------------------------------------------------
(* The steps that end operations, and the rename.                          *)

LEMMA SetMtimeStays ==
  ASSUME TypeOK, NEW c \in Clients, OpShape(c), SetMtime(c)
  PROVE  Stays(c)
<1> DEFINE p == op[c].path
<1>1. pc[c] = "get" /\ End(c) /\ Tick /\ UNCHANGED <<disk, refreshVars, want, removed, touched>>
  BY DEF SetMtime, At
<1>2. p \in Paths /\ p \in Uses(c) /\ clock' = clock + 1 /\ clock + 1 \in Times
  BY <1>1, OpSort, UsesOf, TickTime
<1>3. /\ row' \in [Paths -> Rows \cup {NoRow}] /\ \A x \in Paths \ {p} : row'[x] = row[x]
      /\ exposed' \subseteq Paths /\ exposed \subseteq exposed'
      /\ \A x \in Paths \ {p} : x \in exposed' <=> x \in exposed
  <2>1. PICK t \in {1, clock + 1} :
           /\ row' = IF row[p] = NoRow THEN row ELSE [row EXCEPT ![p].mtime = t]
           /\ exposed' = IF rpc = "delete" /\ t # clock + 1 THEN exposed \cup {p} ELSE exposed
    BY DEF SetMtime
  <2>2. t \in Times
    BY <1>2 DEF Times, TypeOK
  <2>3. row[p] # NoRow => [row[p] EXCEPT !.mtime = t] \in Rows
    BY <1>2, <2>2 DEF Rows, TypeOK
  <2>4. row' \in [Paths -> Rows \cup {NoRow}] /\ \A x \in Paths \ {p} : row'[x] = row[x]
    BY <1>2, <2>1, <2>3 DEF TypeOK
  <2>. QED
    BY <1>2, <2>1, <2>4 DEF TypeOK
<1>4. TypeOK'
  BY <1>1, <1>2, <1>3, EndTypes, RefreshKept DEF TypeOK, PCs, Times
<1>5. Frame(c)
  BY <1>1, <1>2, <1>3, EndTypes, EndUses DEF Frame
<1>. QED
  BY <1>1, <1>4, <1>5, EndTypes DEF Stays

LEMMA UpsertStays ==
  ASSUME TypeOK, NEW c \in Clients, OpShape(c), Upsert(c)
  PROVE  /\ Stays(c) /\ op[c].path \in Paths /\ pc[c] = "upsert"
         /\ Live(row'[op[c].path]) /\ row'[op[c].path].mtime = clock + 1
         /\ row'[op[c].path] \in Rows
<1> DEFINE p == op[c].path
           r == [ent[c] EXCEPT !.kind = IF @ = "create" THEN "create" ELSE "modify",
                               !.mtime = clock + 1]
<1>1. /\ pc[c] = "upsert" /\ Tick /\ row' = [row EXCEPT ![p] = r] /\ disk' = disk
      /\ Succeed(c, Show(p, disk[p]))
  BY DEF Upsert, SetRow, At
<1>2. p \in Paths /\ p \in Uses(c) /\ clock' = clock + 1 /\ clock + 1 \in Times
  BY <1>1, OpSort, UsesOf, TickTime
<1>3. ent[c] \in Rows
  BY <1>1 DEF OpShape
<1>4. r \in Rows /\ r.kind \in {"create", "modify"} /\ r.mtime = clock + 1
  BY <1>2, <1>3 DEF Rows
<1> HIDE DEF r
<1>5. row' \in [Paths -> Rows \cup {NoRow}] /\ row'[p] = r /\ \A x \in Paths \ {p} : row'[x] = row[x]
  BY <1>1, <1>2, <1>4, RowAt
<1>6. disk' \in [Paths -> Contents \cup {NoFile}] /\ clock' \in 0..MaxClock
  BY <1>1, <1>2 DEF TypeOK, Times
<1>7. DOMAIN Show(p, disk[p]) = {p}
      /\ \A x \in DOMAIN Show(p, disk[p]) : Show(p, disk[p])[x] \in Contents \cup {NoFile}
  BY <1>2 DEF Show, TypeOK
<1>8. Stays(c)
  BY <1>1, <1>2, <1>5, <1>6, <1>7, SucceedStays
<1>. QED
  BY <1>1, <1>2, <1>4, <1>5, <1>8 DEF Live

LEMMA WhiteoutSort ==
  ASSUME Tick, TypeOK, NEW target \in Paths \cup {NoPath}
  PROVE  Whiteout(target) \in Rows /\ Whiteout(target).kind = "delete"
         /\ Whiteout(target).mtime = clock + 1
<1>1. clock + 1 \in Times
  BY TickTime
<1>. QED
  BY <1>1 DEF Whiteout, Rows

LEMMA RemoveRowStays ==
  ASSUME TypeOK, NEW c \in Clients, OpShape(c), RemoveRow(c)
  PROVE  /\ Stays(c) /\ op[c].path \in Paths /\ pc[c] = "unlinkrow"
         /\ row'[op[c].path].kind = "delete" /\ row'[op[c].path].mtime = clock + 1
         /\ row'[op[c].path] \in Rows
<1> DEFINE p == op[c].path
<1>1. /\ pc[c] = "unlinkrow" /\ Tick /\ row' = [row EXCEPT ![p] = Whiteout(NoPath)] /\ disk' = disk
      /\ Succeed(c, Show(p, Absent))
  BY DEF RemoveRow, SetRow, At
<1>2. p \in Paths /\ p \in Uses(c) /\ clock' = clock + 1 /\ clock + 1 \in Times
  BY <1>1, OpSort, UsesOf, TickTime
<1>3. /\ Whiteout(NoPath) \in Rows /\ Whiteout(NoPath).kind = "delete"
      /\ Whiteout(NoPath).mtime = clock + 1
  BY <1>1, WhiteoutSort
<1>4. /\ row' \in [Paths -> Rows \cup {NoRow}] /\ row'[p] = Whiteout(NoPath)
      /\ \A x \in Paths \ {p} : row'[x] = row[x]
  BY <1>1, <1>2, <1>3, RowAt
<1>5. disk' \in [Paths -> Contents \cup {NoFile}] /\ clock' \in 0..MaxClock
  BY <1>1, <1>2 DEF TypeOK, Times
<1>6. DOMAIN Show(p, Absent) = {p} /\ \A x \in DOMAIN Show(p, Absent) : Show(p, Absent)[x] = Absent
  BY DEF Show
<1>7. Stays(c)
  BY <1>1, <1>2, <1>4, <1>5, <1>6, SucceedStays
<1>. QED
  BY <1>1, <1>2, <1>3, <1>4, <1>7

(* The row a rename leaves at the new name.                                *)
LEMMA MovedSort ==
  ASSUME TypeOK, NEW c \in Clients, OpShape(c), pc[c] = "tx"
  PROVE  /\ Moved(c) \in Rows /\ Moved(c).kind # "delete"
         /\ Moved(c).kind = "rename" => Moved(c).target \in Paths
<1>1. /\ ent[c] \in Rows /\ ent[c].kind # "delete" /\ op[c].path \in Paths
      /\ op[c].do = "mark" => op[c].base \in Oids
  BY DEF OpShape
<1> DEFINE e == ent[c]
           origin == IF e.kind = "rename" /\ e.target # NoPath THEN e.target ELSE op[c].path
<1>2. origin \in Paths
  BY <1>1 DEF Rows
<1>3. CASE op[c].do = "mark"
  BY <1>1, <1>3 DEF Moved, Rows
<1>4. CASE op[c].do # "mark" /\ e.kind = "create"
  BY <1>1, <1>4 DEF Moved, Rows
<1>5. CASE op[c].do # "mark" /\ e.kind # "create"
  <2>1. Moved(c) = [e EXCEPT !.kind = "rename", !.target = origin]
    BY <1>5 DEF Moved
  <2> HIDE DEF origin
  <2>. QED
    BY <1>1, <1>2, <2>1 DEF Rows
<1>. QED
  BY <1>3, <1>4, <1>5

(* What the transaction of a rename does, when it commits.                 *)
Left(c) == IF Moved(c).kind = "rename" THEN Whiteout(Moved(c).target) ELSE NoRow

LEMMA RenameTxStays ==
  ASSUME TypeOK, NEW c \in Clients, OpShape(c), RenameTx(c), ~Fail(c)
  PROVE  /\ Stays(c) /\ pc[c] = "tx" /\ pc'[c] = "move" /\ op' = op /\ ent' = ent
         /\ op[c].path \in Paths /\ op[c].to \in Paths \ {op[c].path} /\ op[c].do \in Renames
         /\ row[op[c].to] = NoRow
         /\ row'[op[c].to] = Moved(c) /\ row'[op[c].path] = Left(c)
         /\ Left(c) # NoRow => Left(c) \in Rows /\ Left(c).kind = "delete" /\ Left(c).mtime = clock + 1
         /\ Moved(c) \in Rows /\ Moved(c).kind # "delete"
         /\ clock' = clock + 1 /\ clock \in Nat
<1> DEFINE p == op[c].path
           q == op[c].to
           hidden   == IF shown[p] # Absent THEN {p} ELSE {}
           mistaken == IF rpc = "delete" /\ seen[q] \notin {NoRow, Moved(c)} /\ Alike(Moved(c), seen[q])
                       THEN {q} ELSE {}
<1>1. /\ pc[c] = "tx" /\ row[q] = NoRow /\ Goto(c, "move") /\ Tick
      /\ row' = [row EXCEPT ![q] = Moved(c), ![p] = Left(c)]
      /\ exposed' = exposed \cup mistaken \cup (IF Left(c) = NoRow THEN hidden ELSE {})
      /\ UNCHANGED <<disk, op, ent, refreshVars, want, removed, touched>>
  BY DEF RenameTx, At, Left
<1>2. op[c].do \in Renames
  BY <1>1 DEF OpShape
<1>3. p \in Paths /\ q \in Paths \ {p} /\ p \in Uses(c) /\ q \in Uses(c) /\ pc'[c] = "move"
  BY <1>1, <1>2, OpSort, UsesOf, GotoTypes DEF PCs
<1>4. clock' = clock + 1 /\ clock + 1 \in Times /\ clock \in Nat
  BY <1>1, TickTime
<1>5. /\ Moved(c) \in Rows /\ Moved(c).kind # "delete"
      /\ Moved(c).kind = "rename" => Moved(c).target \in Paths
  BY <1>1, MovedSort
<1>6. Left(c) # NoRow => Left(c) \in Rows /\ Left(c).kind = "delete" /\ Left(c).mtime = clock + 1
  BY <1>1, <1>5, WhiteoutSort DEF Left
<1>7. /\ row' \in [Paths -> Rows \cup {NoRow}] /\ row'[q] = Moved(c) /\ row'[p] = Left(c)
      /\ \A x \in Paths \ {p, q} : row'[x] = row[x]
  <2> DEFINE first == [row EXCEPT ![q] = Moved(c)]
  <2>1. /\ first \in [Paths -> Rows \cup {NoRow}] /\ first[q] = Moved(c)
        /\ \A x \in Paths \ {q} : first[x] = row[x]
    BY <1>3, <1>5 DEF TypeOK
  <2>2. row' = [first EXCEPT ![p] = Left(c)]
    BY <1>1
  <2> HIDE DEF first
  <2>. QED
    BY <1>3, <1>6, <2>1, <2>2
<1>8. /\ exposed' \subseteq Paths /\ exposed \subseteq exposed'
      /\ \A x \in Paths \ {p, q} : x \in exposed' <=> x \in exposed
  <2>1. mistaken \subseteq {q} /\ hidden \subseteq {p}
    OBVIOUS
  <2> HIDE DEF mistaken, hidden
  <2>. QED
    BY <1>1, <1>3, <2>1 DEF TypeOK
<1>9. /\ want' \in [Paths -> Contents \cup {Absent, NoFile}] /\ removed' \subseteq Paths
      /\ disk' \in [Paths -> Contents \cup {NoFile}] /\ clock' \in 0..MaxClock
      /\ op' \in [Clients -> [do : Deeds \cup {"none"}, path : Paths \cup {NoPath},
                              to : Paths \cup {NoPath}, base : Oids \cup {NoPath}]]
      /\ ent' \in [Clients -> Rows \cup {NoRow}]
  BY <1>1, <1>4 DEF TypeOK, Times
<1>10. OpShape(c)'
  BY <1>1, <1>2, <1>3 DEF OpShape
<1>11. UNCHANGED <<refreshVars, touched, disk, want, removed, op, ent>>
  BY <1>1
<1> HIDE DEF mistaken, hidden
<1>12. Stays(c)
  BY <1>1, <1>3, <1>7, <1>8, <1>9, <1>10, <1>11, OnwardStays, SMTT(30) DEF PCs
<1>. QED
  BY <1>1, <1>2, <1>3, <1>4, <1>5, <1>6, <1>7, <1>12

LEMMA MoveStays ==
  ASSUME TypeOK, NEW c \in Clients, OpShape(c), Move(c)
  PROVE  /\ Stays(c) /\ pc[c] = "move"
         /\ op[c].path \in Paths /\ op[c].to \in Paths \ {op[c].path} /\ op[c].do \in Renames
<1> DEFINE p == op[c].path
           q == op[c].to
<1>1. pc[c] = "move" /\ clock' = clock
  BY DEF Move, At
<1>2. op[c].do \in Renames /\ ent[c] \in Rows
  BY <1>1 DEF OpShape
<1>3. p \in Paths /\ q \in Paths \ {p} /\ p \in Uses(c) /\ q \in Uses(c)
  BY <1>1, <1>2, OpSort, UsesOf
<1>4. CASE /\ disk[p] = NoFile /\ End(c)
           /\ row' = [row EXCEPT ![q] = NoRow, ![p] = ent[c]]
           /\ UNCHANGED <<disk, refreshVars, history>>
  <2>1. /\ row' \in [Paths -> Rows \cup {NoRow}] /\ \A x \in Paths \ {p, q} : row'[x] = row[x]
    BY <1>2, <1>3, <1>4 DEF TypeOK
  <2>2. TypeOK'
    BY <1>1, <1>4, <2>1, EndTypes, RefreshKept DEF TypeOK, PCs, history
  <2>3. Frame(c)
    BY <1>3, <1>4, <2>1, EndTypes, EndUses DEF Frame, history
  <2>. QED
    BY <1>1, <1>2, <1>3, <1>4, <2>2, <2>3, EndTypes DEF Stays
<1>5. CASE /\ disk[p] # NoFile
           /\ disk' = [disk EXCEPT ![q] = disk[p], ![p] = NoFile]
           /\ UNCHANGED row
           /\ Succeed(c, [x \in {p, q} |-> IF x = q THEN disk[p] ELSE Absent])
  <2>1. /\ disk' \in [Paths -> Contents \cup {NoFile}] /\ \A x \in Paths \ {p, q} : disk'[x] = disk[x]
    BY <1>3, <1>5 DEF TypeOK
  <2> DEFINE shows == [x \in {p, q} |-> IF x = q THEN disk[p] ELSE Absent]
  <2>2. /\ DOMAIN shows = {p, q}
        /\ \A x \in DOMAIN shows : shows[x] \in Contents \cup {Absent, NoFile}
    BY <1>3 DEF TypeOK
  <2>3. /\ row' \in [Paths -> Rows \cup {NoRow}] /\ clock' \in 0..MaxClock /\ row' = row
        /\ Succeed(c, shows)
    BY <1>1, <1>5 DEF TypeOK
  <2> HIDE DEF shows
  <2>4. DOMAIN shows \subseteq Uses(c) /\ \A x \in Paths \ Uses(c) : row'[x] = row[x] /\ disk'[x] = disk[x]
    BY <1>3, <2>1, <2>2, <2>3
  <2>5. Stays(c)
    BY <1>1, <2>1, <2>2, <2>3, <2>4, SucceedStays
  <2>. QED
    BY <1>1, <1>2, <1>3, <2>5
<1>. QED
  BY <1>4, <1>5 DEF Move

-----------------------------------------------------------------------------
(* Types and exclusion are kept by every step.                             *)

LEMMA StepStays ==
  ASSUME TypeOK, NEW c \in Clients, OpShape(c), Step(c)
  PROVE  Stays(c)
<1>1. Found(c) => Stays(c)         BY FoundStays
<1>2. Hydrate(c) => Stays(c)       BY HydrateStays
<1>3. NotFound(c) => Stays(c)      BY NotFoundStays
<1>4. CopyOnWrite(c) => Stays(c)   BY CopyOnWriteStays
<1>5. CopyRow(c) => Stays(c)       BY CopyRowStays
<1>6. CreateFile(c) => Stays(c)    BY CreateFileStays
<1>7. CreateRow(c) => Stays(c)     BY CreateRowStays
<1>8. Get(c) => Stays(c)           BY GetStays
<1>9. SetMtime(c) => Stays(c)      BY SetMtimeStays
<1>10. WriteAt(c) => Stays(c)      BY WriteAtStays
<1>11. Upsert(c) => Stays(c)       BY UpsertStays
<1>12. RemoveFile(c) => Stays(c)   BY RemoveFileStays
<1>13. RemoveRow(c) => Stays(c)    BY RemoveRowStays
<1>14. RenameTx(c) => Stays(c)     BY RenameTxStays, FailStays
<1>15. Move(c) => Stays(c)         BY MoveStays
<1>. QED
  BY <1>1, <1>2, <1>3, <1>4, <1>5, <1>6, <1>7, <1>8, <1>9, <1>10, <1>11, <1>12, <1>13, <1>14,
     <1>15 DEF Step

(* A step of an operation keeps the exclusion, and the shape of the others.*)
LEMMA StepTypes ==
  ASSUME Types, NEW c \in Clients, Step(c)
  PROVE  Types'
<1>1. Stays(c)
  BY StepStays DEF Types
<1>2. \A d \in Clients : OpShape(d)'
  BY <1>1 DEF Types, Stays, Frame, OpShape
<1>3. \A d \in Clients \ {c} : Uses(d)' = Uses(d)
  BY <1>1 DEF Stays, Frame, Uses
<1>4. Exclusive'
  <2> SUFFICES ASSUME NEW d \in Clients, NEW e \in Clients, d # e PROVE Uses(d)' \cap Uses(e)' = {}
    BY DEF Exclusive
  <2>1. Uses(d) \cap Uses(e) = {}
    BY DEF Types, Exclusive
  <2>2. Uses(d)' \subseteq Uses(d) /\ Uses(e)' \subseteq Uses(e)
    BY <1>1, <1>3 DEF Stays, Frame
  <2>. QED
    BY <2>1, <2>2
<1>. QED
  BY <1>1, <1>2, <1>4 DEF Types, Stays

(* The operations the kernel may send, and where they start.               *)
LEMMA StartAt ==
  ASSUME NEW do \in DOMAIN Start
  PROVE  /\ do \in {"write", "truncate", "touch", "rename", "create", "unlink"} /\ do \in Deeds
         /\ Start[do] \in {"ensure", "create", "unlink"}
         /\ Start[do] = "create" <=> do = "create"
         /\ Start[do] = "unlink" <=> do = "unlink"
         /\ do \in Renames <=> do = "rename"
BY DEF Start, Deeds, Renames

LEMMA BeginTypes ==
  ASSUME Types, NEW c \in Clients, NEW do \in DOMAIN Start, NEW p \in Paths,
         NEW q \in Paths \cup {NoPath}, Begin(c, do, p, q)
  PROVE  /\ Types' /\ pc'[c] = Start[do] /\ op'[c] = [do |-> do, path |-> p, to |-> q, base |-> NoPath]
         /\ \A d \in Clients \ {c} : pc'[d] = pc[d] /\ op'[d] = op[d] /\ ent'[d] = ent[d]
         /\ Uses(c)' = {p, q} \cap Paths
         /\ do = "rename" => q \in Paths /\ p # q
         /\ do # "rename" => q = NoPath
<1> DEFINE new == [do |-> do, path |-> p, to |-> q, base |-> NoPath]
<1>1. /\ pc[c] = "idle" /\ {p, q} \cap Busy = {} /\ Goto(c, Start[do])
      /\ op' = [op EXCEPT ![c] = new]
      /\ do = "rename" => q \in Paths /\ p # q
      /\ do # "rename" => q = NoPath
      /\ touched' = IF rpc \in {"idle", "list"} THEN touched ELSE touched \cup ({p, q} \cap Paths)
      /\ exposed' = exposed \cup ({p, q} \cap doomed)
      /\ UNCHANGED <<row, disk, clock, ent, refreshVars, want, removed>>
  BY DEF Begin, At
<1>2. TypeOK
  BY DEF Types
<1>3. Start[do] \in PCs /\ Start[do] # "idle"
  BY StartAt DEF PCs
<1>4. pc'[c] = Start[do] /\ \A d \in Clients \ {c} : pc'[d] = pc[d]
  BY <1>1, <1>2, <1>3, GotoTypes
<1>5. /\ new.do = do /\ new.path = p /\ new.to = q /\ new.base = NoPath
      /\ new \in [do : Deeds \cup {"none"}, path : Paths \cup {NoPath},
                  to : Paths \cup {NoPath}, base : Oids \cup {NoPath}]
  BY StartAt
<1>6. new = [do |-> do, path |-> p, to |-> q, base |-> NoPath]
  OBVIOUS
<1> HIDE DEF new
<1>7. /\ op'[c] = new /\ \A d \in Clients \ {c} : op'[d] = op[d]
      /\ op' \in [Clients -> [do : Deeds \cup {"none"}, path : Paths \cup {NoPath},
                              to : Paths \cup {NoPath}, base : Oids \cup {NoPath}]]
  BY <1>1, <1>2, <1>5 DEF TypeOK
<1>8. \A d \in Clients \ {c} : ent'[d] = ent[d]
  BY <1>1
<1>9. pc' \in [Clients -> PCs]
  BY <1>1, <1>2, <1>3, GotoTypes
<1>10. TypeOK'
  <2>1. doomed \cup removed \cup touched \cup exposed \subseteq Paths
    BY <1>2 DEF TypeOK
  <2>2. doomed' \cup removed' \cup touched' \cup exposed' \subseteq Paths
    BY <1>1, <2>1 DEF refreshVars
  <2>. QED
    BY <1>1, <1>2, <1>7, <1>9, <2>2, RefreshKept DEF TypeOK, PCs
<1>11. OpShape(c)'
  <2>1. /\ op'[c].do = do /\ op'[c].path = p /\ op'[c].to = q
    BY <1>5, <1>7
  <2>2. IF do \in Renames THEN q \in Paths \ {p} ELSE q = NoPath
    BY <1>1, StartAt
  <2>. QED
    BY <1>3, <1>4, <2>1, <2>2, StartAt DEF OpShape, Deeds
<1>12. \A d \in Clients : OpShape(d)'
  BY <1>4, <1>7, <1>8, <1>11 DEF Types, OpShape
<1>13. Uses(c)' = {p, q} \cap Paths
  BY <1>3, <1>4, <1>5, <1>7 DEF Uses
<1>14. \A d \in Clients \ {c} : Uses(d)' = Uses(d) /\ Uses(d) \cap {p, q} = {}
  BY <1>1, <1>4, <1>7 DEF Uses, Busy
<1>15. Exclusive'
  BY <1>13, <1>14 DEF Types, Exclusive
<1>. QED
  BY <1>1, <1>4, <1>6, <1>7, <1>8, <1>10, <1>12, <1>13, <1>15 DEF Types

-----------------------------------------------------------------------------
(* The refresh and a crash keep them.                                      *)

LEMMA ClientsKept ==
  ASSUME Types, UNCHANGED clientVars
  PROVE  /\ \A c \in Clients : OpShape(c)'
         /\ Exclusive' /\ Busy' = Busy
         /\ \A c \in Clients : Uses(c)' = Uses(c)
BY DEF Types, clientVars, OpShape, Exclusive, Busy, Uses

LEMMA PublishTypes ==
  ASSUME Types, Publish
  PROVE  Types'
<1>1. TypeOK'
  BY DEF Types, TypeOK, Publish, clientVars, history
<1>2. UNCHANGED clientVars
  BY DEF Publish
<1>. QED
  BY <1>1, <1>2, ClientsKept DEF Types

LEMMA ListRowsTypes ==
  ASSUME Types, ListRows
  PROVE  Types'
<1>1. UNCHANGED clientVars
  BY DEF ListRows
<1>2. Busy \subseteq Paths
  BY DEF Busy, Uses
<1>3. TypeOK'
  BY <1>2 DEF Types, TypeOK, ListRows, clientVars
<1>. QED
  BY <1>1, <1>3, ClientsKept DEF Types

LEMMA DeleteRowsTypes ==
  ASSUME Types, DeleteRows
  PROVE  Types'
<1> DEFINE gone == {p \in Stale(seen, head) : Guarded(p)}
<1>1. /\ rpc' = "remove"
      /\ row' = [p \in Paths |-> IF p \in gone THEN NoRow ELSE row[p]]
      /\ doomed' = {p \in gone : seen[p].kind # "delete"}
      /\ removed' = removed \cup {p \in gone : row[p] = seen[p]}
      /\ exposed' = exposed \cup (Busy \cap gone)
      /\ seen' = [p \in Paths |-> NoRow]
      /\ UNCHANGED <<disk, clock, clientVars, refreshes, head, shown, mounted, want, touched>>
  BY DEF DeleteRows
<1>2. gone \subseteq Paths
  BY DEF Stale
<1> HIDE DEF gone
<1>3. row' \in [Paths -> Rows \cup {NoRow}]
  BY <1>1 DEF Types, TypeOK
<1>4. doomed' \cup removed' \cup touched' \cup exposed' \subseteq Paths
  BY <1>1, <1>2 DEF Types, TypeOK
<1>5. seen' \in [Paths -> Rows \cup {NoRow}]
  BY <1>1
<1>6. TypeOK'
  BY <1>1, <1>3, <1>4, <1>5 DEF Types, TypeOK, clientVars
<1>. QED
  BY <1>1, <1>6, ClientsKept DEF Types

LEMMA ReconcileFailsTypes ==
  ASSUME Types, ReconcileFails
  PROVE  Types'
<1>1. UNCHANGED clientVars
  BY DEF ReconcileFails
<1>2. TypeOK'
  BY DEF Types, TypeOK, ReconcileFails, clientVars
<1>. QED
  BY <1>1, <1>2, ClientsKept DEF Types

LEMMA RemoveBackingTypes ==
  ASSUME Types, NEW p \in Paths, RemoveBacking(p)
  PROVE  Types'
<1>1. UNCHANGED clientVars
  BY DEF RemoveBacking
<1>2. TypeOK'
  BY DEF Types, TypeOK, RemoveBacking, clientVars, history
<1>. QED
  BY <1>1, <1>2, ClientsKept DEF Types

LEMMA SetGenerationTypes ==
  ASSUME Types, SetGeneration
  PROVE  Types'
<1>1. UNCHANGED clientVars
  BY DEF SetGeneration
<1>2. \A p \in Paths : head[p] \in Oids \cup {Absent}
  BY TreeSort DEF Types, TypeOK
<1>3. want' = [p \in Paths |-> IF p \in Bare THEN head[p] ELSE want[p]]
  BY DEF SetGeneration
<1>4. want' \in [Paths -> Contents \cup {Absent, NoFile}]
  BY <1>2, <1>3 DEF Types, TypeOK, Contents
<1>5. Busy \subseteq Paths
  BY DEF Busy, Uses
<1>6. TypeOK'
  BY <1>4, <1>5 DEF Types, TypeOK, SetGeneration, clientVars
<1>. QED
  BY <1>1, <1>6, ClientsKept DEF Types

LEMMA CrashTypes ==
  ASSUME Types, Crash
  PROVE  Types' /\ \A c \in Clients : pc'[c] = "idle" /\ op'[c] = NoOp /\ Uses(c)' = {}
<1>1. /\ pc' = [c \in Clients |-> "idle"] /\ op' = [c \in Clients |-> NoOp]
      /\ ent' = [c \in Clients |-> NoRow]
  BY DEF Crash
<1>2. NoOp \in [do : Deeds \cup {"none"}, path : Paths \cup {NoPath},
               to : Paths \cup {NoPath}, base : Oids \cup {NoPath}]
  BY DEF NoOp
<1>3. /\ pc' \in [Clients -> PCs] /\ ent' \in [Clients -> Rows \cup {NoRow}]
      /\ op' \in [Clients -> [do : Deeds \cup {"none"}, path : Paths \cup {NoPath},
                              to : Paths \cup {NoPath}, base : Oids \cup {NoPath}]]
  BY <1>1, <1>2 DEF PCs
<1>4. doomed' \cup removed' \cup touched' \cup exposed' \subseteq Paths
  BY DEF Types, TypeOK, Crash, Busy, Uses
<1>5. TypeOK'
  <2>1. /\ mounted' = FALSE /\ rpc' = "list" /\ seen' = [p \in Paths |-> NoRow]
        /\ refreshes < MaxRefreshes /\ refreshes' = refreshes + 1
        /\ head' \in Trees /\ UNCHANGED <<row, disk, clock, shown, want>>
    BY DEF Crash
  <2>2. seen' \in [Paths -> Rows \cup {NoRow}] /\ refreshes' \in 0..MaxRefreshes
    BY <2>1 DEF Types, TypeOK
  <2>. QED
    BY <1>3, <1>4, <2>1, <2>2 DEF Types, TypeOK, PCs
<1>6. \A c \in Clients : pc'[c] = "idle" /\ op'[c] = NoOp
  BY <1>1
<1>7. \A c \in Clients : OpShape(c)' /\ Uses(c)' = {}
  BY <1>6 DEF OpShape, Uses
<1>. QED
  BY <1>5, <1>6, <1>7 DEF Types, Exclusive

(* The disjuncts of the next-state relation.                               *)
LEMMA NextCases ==
  ASSUME [Next]_vars
  PROVE  \/ \E c \in Clients, do \in DOMAIN Start, p \in Paths, q \in Paths \cup {NoPath} :
              Begin(c, do, p, q)
         \/ \E c \in Clients : Step(c)
         \/ Publish \/ ListRows \/ DeleteRows \/ ReconcileFails
         \/ \E p \in Paths : RemoveBacking(p)
         \/ SetGeneration \/ Crash
         \/ UNCHANGED vars
BY DEF Next, Refresh

LEMMA InitTypes ==
  ASSUME Init
  PROVE  Types
<1>1. \A t \in Trees : t \in [Paths -> Contents \cup {Absent, NoFile}]
  BY DEF Contents
<1>2. NoOp \in [do : Deeds \cup {"none"}, path : Paths \cup {NoPath},
               to : Paths \cup {NoPath}, base : Oids \cup {NoPath}]
  BY DEF NoOp
<1>3. op \in [Clients -> [do : Deeds \cup {"none"}, path : Paths \cup {NoPath},
                          to : Paths \cup {NoPath}, base : Oids \cup {NoPath}]]
  BY <1>2 DEF Init
<1>4. TypeOK
  BY <1>1, <1>3 DEF Init, TypeOK
<1>5. \A c \in Clients : pc[c] = "idle" /\ op[c] = NoOp
  BY DEF Init
<1>6. \A c \in Clients : OpShape(c) /\ Uses(c) = {}
  BY <1>5 DEF OpShape, Uses
<1>. QED
  BY <1>4, <1>6 DEF Types, Exclusive

LEMMA TypesInvariant == Spec => []Types
<1>1. Types /\ [Next]_vars => Types'
  <2> SUFFICES ASSUME Types, [Next]_vars PROVE Types'
    OBVIOUS
  <2>1. CASE UNCHANGED vars
    BY <2>1 DEF vars, Types, TypeOK, OpShape, Exclusive, Uses
  <2>. QED
    BY <2>1, NextCases, BeginTypes, StepTypes, PublishTypes, ListRowsTypes, DeleteRowsTypes,
       ReconcileFailsTypes, RemoveBackingTypes, SetGenerationTypes, CrashTypes
<1>. QED
  BY <1>1, InitTypes, PTL DEF Spec

(* Every variable of the overlay keeps its type: rows have whole fields,   *)
(* an operation names paths that exist and an object id where it copies.   *)
THEOREM OverlayTypes == Spec => []TypeOK
<1>1. Types => TypeOK
  BY DEF Types
<1>. QED
  BY <1>1, TypesInvariant, PTL

-----------------------------------------------------------------------------
(* What the refresh knows of the rows it listed.                           *)

(* After a step of c no row is newer than the clock, and a row that looks  *)
(* like the one the refresh has listed is that row.                        *)
Recent(r) == r # NoRow => r.mtime <= clock'

Unmistaken(p) ==
  (rpc = "delete" /\ p \notin exposed' /\ row'[p] # NoRow /\ seen[p] # NoRow /\ Alike(row'[p], seen[p]))
     => row'[p] = seen[p]

Fresh(c) ==
  /\ clock' \in {clock, clock + 1}
  /\ Recent(ent'[c])
  /\ \A p \in Paths : Recent(row'[p]) /\ Unmistaken(p)

(* Times are naturals, and so are the clocks.                              *)
LEMMA RowTime ==
  ASSUME TypeOK
  PROVE  /\ clock \in Nat
         /\ \A r \in Rows : r.mtime \in Nat
         /\ \A p \in Paths : row[p] \in Rows \cup {NoRow} /\ seen[p] \in Rows \cup {NoRow}
         /\ \A c \in Clients : ent[c] \in Rows \cup {NoRow}
BY DEF TypeOK, Rows, Times

(* What was in the past remains there.                                     *)
LEMMA StillRecent ==
  ASSUME TypeOK, clock' \in {clock, clock + 1}, NEW r \in Rows \cup {NoRow}, PastRow(r)
  PROVE  Recent(r)
BY RowTime DEF PastRow, Recent

(* A row that has not changed is still not taken for another.              *)
LEMMA SameUnmistaken ==
  ASSUME Knows, NEW p \in Paths, row'[p] \in {row[p], NoRow}, exposed \subseteq exposed'
  PROVE  Unmistaken(p)
BY DEF Knows, Listed, Unmistaken

(* A new row is newer than every row that was listed.                      *)
LEMMA NewUnmistaken ==
  ASSUME TypeOK, Knows, NEW p \in Paths, row'[p] = NoRow \/ row'[p].mtime = clock + 1
  PROVE  Unmistaken(p)
<1>1. CASE row'[p] = NoRow
  BY <1>1 DEF Unmistaken
<1>2. CASE row'[p].mtime = clock + 1
  <2>1. seen[p] # NoRow => seen[p].mtime <= clock /\ seen[p].mtime \in Nat /\ clock \in Nat
    BY RowTime DEF Knows, Past, PastRow
  <2>. QED
    BY <1>2, <2>1 DEF Unmistaken, Alike
<1>. QED
  BY <1>1, <1>2

(* A step that changes no row, and reads at most one.                      *)
LEMMA FreshSame ==
  ASSUME TypeOK, Knows, NEW c \in Clients, row' = row, exposed \subseteq exposed',
         clock' \in {clock, clock + 1},
         ent'[c] \in {NoRow, ent[c]} \/ \E p \in Paths : ent'[c] = row[p]
  PROVE  Fresh(c)
<1>1. \A p \in Paths : Recent(row'[p]) /\ Unmistaken(p)
  <2> SUFFICES ASSUME NEW p \in Paths PROVE Recent(row'[p]) /\ Unmistaken(p)
    OBVIOUS
  <2>1. row'[p] = row[p] /\ row[p] \in Rows \cup {NoRow} /\ PastRow(row[p])
    BY RowTime DEF Knows, Past
  <2>2. Recent(row[p])
    BY <2>1, StillRecent
  <2>. QED
    BY <2>1, <2>2, SameUnmistaken
<1>2. Recent(ent'[c])
  <2>1. CASE ent'[c] = NoRow
    BY <2>1 DEF Recent
  <2>2. CASE ent'[c] = ent[c]
    <3>1. ent[c] \in Rows \cup {NoRow} /\ PastRow(ent[c])
      BY RowTime DEF Knows, Past
    <3>2. Recent(ent[c])
      BY <3>1, StillRecent
    <3>. QED
      BY <2>2, <3>2
  <2>3. ASSUME NEW p \in Paths, ent'[c] = row[p] PROVE Recent(ent'[c])
    <3>1. row[p] \in Rows \cup {NoRow} /\ PastRow(row[p])
      BY RowTime DEF Knows, Past
    <3>2. Recent(row[p])
      BY <3>1, StillRecent
    <3>. QED
      BY <2>3, <3>2
  <2>. QED
    BY <2>1, <2>2, <2>3
<1>. QED
  BY <1>1, <1>2 DEF Fresh

(* A step that gives a path a new row.                                     *)
LEMMA FreshOne ==
  ASSUME TypeOK, Knows, NEW c \in Clients, NEW p \in Paths, exposed \subseteq exposed',
         clock' = clock + 1, row'[p].mtime = clock + 1, \A x \in Paths \ {p} : row'[x] = row[x],
         ent'[c] \in {NoRow, ent[c]}
  PROVE  Fresh(c)
<1>1. \A x \in Paths : Recent(row'[x]) /\ Unmistaken(x)
  <2> SUFFICES ASSUME NEW x \in Paths PROVE Recent(row'[x]) /\ Unmistaken(x)
    OBVIOUS
  <2>1. CASE x = p
    <3>1. Recent(row'[p])
      BY RowTime DEF Recent
    <3>. QED
      BY <2>1, <3>1, NewUnmistaken
  <2>2. CASE x # p
    <3>1. row'[x] = row[x] /\ row[x] \in Rows \cup {NoRow} /\ PastRow(row[x])
      BY <2>2, RowTime DEF Knows, Past
    <3>2. Recent(row[x])
      BY <3>1, StillRecent
    <3>. QED
      BY <3>1, <3>2, SameUnmistaken
  <2>. QED
    BY <2>1, <2>2
<1>2. Recent(ent'[c])
  <2>1. ent[c] \in Rows \cup {NoRow} /\ PastRow(ent[c])
    BY RowTime DEF Knows, Past
  <2>2. Recent(ent[c])
    BY <2>1, StillRecent
  <2>. QED
    BY <2>2 DEF Recent
<1>. QED
  BY <1>1, <1>2 DEF Fresh

-----------------------------------------------------------------------------
(* Every step of an operation leaves the rows recent and unmistaken.       *)

LEMMA SetRowElsewhere ==
  ASSUME TypeOK, NEW p, NEW r, SetRow(p, r)
  PROVE  \A x \in Paths \ {p} : row'[x] = row[x]
BY DEF TypeOK, SetRow

LEMMA SetMtimeFresh ==
  ASSUME TypeOK, Knows, NEW c \in Clients, OpShape(c), SetMtime(c)
  PROVE  Fresh(c)
<1> DEFINE p == op[c].path
<1>1. pc[c] = "get" /\ End(c) /\ Tick
  BY DEF SetMtime, At
<1>2. /\ p \in Paths /\ clock' = clock + 1 /\ clock \in Nat
      /\ ent'[c] = NoRow
  BY <1>1, OpSort, TickTime, EndTypes
<1>3. PICK t \in {1, clock + 1} :
         /\ row' = IF row[p] = NoRow THEN row ELSE [row EXCEPT ![p].mtime = t]
         /\ exposed' = IF rpc = "delete" /\ t # clock + 1 THEN exposed \cup {p} ELSE exposed
  BY DEF SetMtime
<1>4. exposed \subseteq exposed'
  BY <1>3
<1>5. CASE row[p] = NoRow
  <2>1. row' = row
    BY <1>3, <1>5
  <2>. QED
    BY <1>2, <1>4, <2>1, FreshSame
<1>6. CASE row[p] # NoRow
  <2>1. /\ row[p] \in Rows /\ \A x \in Paths \ {p} : row'[x] = row[x]
        /\ row'[p] = [row[p] EXCEPT !.mtime = t]
    BY <1>2, <1>3, <1>6 DEF TypeOK
  <2>2. row'[p].mtime = t
    BY <2>1 DEF Rows
  <2>3. CASE t = clock + 1
    BY <1>2, <1>4, <2>1, <2>2, <2>3, FreshOne
  <2>4. CASE t # clock + 1
    <3>1. \A x \in Paths : Recent(row'[x]) /\ Unmistaken(x)
      <4> SUFFICES ASSUME NEW x \in Paths PROVE Recent(row'[x]) /\ Unmistaken(x)
        OBVIOUS
      <4>1. CASE x = p
        <5>1. Recent(row'[p])
          BY <1>2, <2>2, <2>4 DEF Recent
        <5>2. Unmistaken(p)
          BY <1>3, <2>4 DEF Unmistaken
        <5>. QED
          BY <4>1, <5>1, <5>2
      <4>2. CASE x # p
        <5>1. row'[x] = row[x] /\ row[x] \in Rows \cup {NoRow} /\ PastRow(row[x])
          BY <2>1, <4>2, RowTime DEF Knows, Past
        <5>2. Recent(row[x])
          BY <1>2, <5>1, StillRecent
        <5>. QED
          BY <1>4, <5>1, <5>2, SameUnmistaken
      <4>. QED
        BY <4>1, <4>2
    <3>. QED
      BY <1>2, <3>1 DEF Fresh, Recent
  <2>. QED
    BY <2>3, <2>4
<1>. QED
  BY <1>5, <1>6

(* The new name gets a row with an old time stamp, which the refresh may   *)
(* take for the one it has listed: then no promise of that path is kept.   *)
LEMMA RenameTxFresh ==
  ASSUME TypeOK, Knows, NEW c \in Clients, OpShape(c), RenameTx(c), ~Fail(c)
  PROVE  Fresh(c)
<1> DEFINE p == op[c].path
           q == op[c].to
<1>1. /\ Stays(c) /\ pc[c] = "tx" /\ ent' = ent /\ p \in Paths /\ q \in Paths \ {p}
      /\ row'[q] = Moved(c) /\ row'[p] = Left(c)
      /\ Left(c) # NoRow => Left(c).mtime = clock + 1
      /\ Moved(c) \in Rows /\ clock' = clock + 1 /\ clock \in Nat
  BY RenameTxStays
<1>2. \A x \in Paths \ {p, q} : row'[x] = row[x]
  BY DEF RenameTx, Fail, TypeOK
<1>3. exposed \subseteq exposed'
  BY <1>1 DEF Stays, Frame
<1>4. ent[c] \in Rows /\ PastRow(ent[c]) /\ ent[c] # NoRow
  BY <1>1 DEF OpShape, Knows, Past
<1>5. Moved(c).mtime = ent[c].mtime
  BY <1>4 DEF Moved, Rows
<1>6. Recent(ent[c]) /\ Recent(ent'[c])
  BY <1>1, <1>4, StillRecent
<1>7. \A x \in Paths : Recent(row'[x]) /\ Unmistaken(x)
  <2> SUFFICES ASSUME NEW x \in Paths PROVE Recent(row'[x]) /\ Unmistaken(x)
    OBVIOUS
  <2>1. CASE x = q
    <3>1. Recent(row'[q])
      BY <1>1, <1>4, <1>5, <1>6 DEF Recent
    <3>2. Unmistaken(q)
      <4> SUFFICES ASSUME rpc = "delete", q \notin exposed', seen[q] # NoRow,
                          Alike(row'[q], seen[q]), row'[q] # seen[q]
                   PROVE  FALSE
        BY DEF Unmistaken
      <4>1. q \in (IF rpc = "delete" /\ seen[q] \notin {NoRow, Moved(c)} /\ Alike(Moved(c), seen[q])
                   THEN {q} ELSE {})
        BY <1>1
      <4>2. q \in exposed'
        BY <4>1 DEF RenameTx, Fail
      <4>. QED
        BY <4>2
    <3>. QED
      BY <2>1, <3>1, <3>2
  <2>2. CASE x = p
    <3>1. row'[p] = NoRow \/ row'[p].mtime = clock + 1
      BY <1>1
    <3>2. Recent(row'[p])
      BY <1>1, <3>1 DEF Recent
    <3>. QED
      BY <1>1, <2>2, <3>1, <3>2, NewUnmistaken
  <2>3. CASE x \notin {p, q}
    <3>1. row'[x] = row[x] /\ row[x] \in Rows \cup {NoRow} /\ PastRow(row[x])
      BY <1>2, <2>3, RowTime DEF Knows, Past
    <3>2. Recent(row[x])
      BY <1>1, <3>1, StillRecent
    <3>. QED
      BY <1>3, <3>1, <3>2, SameUnmistaken
  <2>. QED
    BY <2>1, <2>2, <2>3
<1>. QED
  BY <1>1, <1>6, <1>7 DEF Fresh

(* The rows are put back only where the file was lost.                     *)
LEMMA MoveFresh ==
  ASSUME TypeOK, Knows, NEW c \in Clients, OpShape(c), Kept(c), Move(c)
  PROVE  Fresh(c)
<1> DEFINE p == op[c].path
           q == op[c].to
<1>1. /\ Stays(c) /\ pc[c] = "move" /\ p \in Paths /\ q \in Paths \ {p}
  BY MoveStays
<1>2. exposed \subseteq exposed' /\ clock' = clock /\ clock \in Nat /\ End(c)
  BY <1>1, RowTime DEF Stays, Frame, Move, Succeed
<1>3. ent'[c] = NoRow
  BY <1>2, EndTypes
<1>4. CASE row' = row
  BY <1>2, <1>3, <1>4, FreshSame
<1>5. CASE /\ disk[p] = NoFile
           /\ row' = [row EXCEPT ![q] = NoRow, ![p] = ent[c]]
           /\ UNCHANGED <<disk, refreshVars, history>>
  <2>1. p \in exposed'
    BY <1>1, <1>5 DEF Kept, SourceKept, history
  <2>2. /\ row'[q] = NoRow /\ row'[p] = ent[c] /\ \A x \in Paths \ {p, q} : row'[x] = row[x]
    BY <1>1, <1>5 DEF TypeOK
  <2>3. \A x \in Paths : Recent(row'[x]) /\ Unmistaken(x)
    <3> SUFFICES ASSUME NEW x \in Paths PROVE Recent(row'[x]) /\ Unmistaken(x)
      OBVIOUS
    <3>1. CASE x = p
      <4>1. ent[c] \in Rows \cup {NoRow} /\ PastRow(ent[c])
        BY RowTime DEF Knows, Past
      <4>2. Recent(row'[p])
        BY <1>2, <2>2, <4>1, StillRecent
      <4>3. Unmistaken(p)
        BY <2>1 DEF Unmistaken
      <4>. QED
        BY <3>1, <4>2, <4>3
    <3>2. CASE x # p
      <4>1. row'[x] \in {row[x], NoRow} /\ row[x] \in Rows \cup {NoRow} /\ PastRow(row[x])
        BY <2>2, <3>2, RowTime DEF Knows, Past
      <4>2. Recent(row[x])
        BY <1>2, <4>1, StillRecent
      <4>3. Recent(row'[x])
        BY <4>1, <4>2 DEF Recent
      <4>. QED
        BY <1>2, <4>1, <4>3, SameUnmistaken
    <3>. QED
      BY <3>1, <3>2
  <2>. QED
    BY <1>2, <1>3, <2>3 DEF Fresh, Recent
<1>. QED
  BY <1>4, <1>5 DEF Move

LEMMA StepFresh ==
  ASSUME TypeOK, Knows, NEW c \in Clients, OpShape(c), Kept(c), Step(c)
  PROVE  Fresh(c)
<1>1. Stays(c) /\ exposed \subseteq exposed' /\ clock \in Nat
  BY StepStays, RowTime DEF Stays, Frame
<1>2. End(c) => ent'[c] = NoRow
  BY EndTypes
<1>3. ASSUME row' = row, clock' \in {clock, clock + 1}, End(c) \/ ent' = ent PROVE Fresh(c)
  BY <1>1, <1>2, <1>3, FreshSame
<1>4. Fail(c) => Fresh(c)
  BY <1>3 DEF Fail
<1>5. Found(c) => Fresh(c)
  BY <1>3 DEF Found
<1>6. Hydrate(c) \/ NotFound(c) => Fresh(c)
  BY <1>3, <1>4 DEF Hydrate, NotFound
<1>7. CopyOnWrite(c) \/ CreateFile(c) \/ RemoveFile(c) => Fresh(c)
  BY <1>3 DEF CopyOnWrite, CreateFile, RemoveFile
<1>8. WriteAt(c) => Fresh(c)
  BY <1>3, <1>4 DEF WriteAt
<1>9. Get(c) => Fresh(c)
  <2> SUFFICES ASSUME Get(c), ~Fail(c) PROVE Fresh(c)
    BY <1>4
  <2>1. op[c].path \in Paths
    BY OpSort DEF Get, At
  <2>2. row' = row /\ clock' = clock /\ ent' = [ent EXCEPT ![c] = row[op[c].path]]
    BY DEF Get
  <2>3. ent'[c] = row[op[c].path]
    BY <2>2 DEF TypeOK
  <2>. QED
    BY <1>1, <2>1, <2>2, <2>3, FreshSame
<1>10. CopyRow(c) => Fresh(c)
  <2> SUFFICES ASSUME CopyRow(c) PROVE Fresh(c)
    OBVIOUS
  <2>1. op[c].path \in Paths /\ row'[op[c].path].mtime = clock + 1
    BY CopyRowStays
  <2>2. clock' = clock + 1 /\ ent' = ent /\ \A x \in Paths \ {op[c].path} : row'[x] = row[x]
    BY TickTime, SetRowElsewhere DEF CopyRow
  <2>. QED
    BY <1>1, <2>1, <2>2, FreshOne
<1>11. CreateRow(c) => Fresh(c)
  <2> SUFFICES ASSUME CreateRow(c) PROVE Fresh(c)
    OBVIOUS
  <2>1. op[c].path \in Paths /\ row'[op[c].path].mtime = clock + 1
    BY CreateRowStays
  <2>2. clock' = clock + 1 /\ \A x \in Paths \ {op[c].path} : row'[x] = row[x]
    BY TickTime, SetRowElsewhere DEF CreateRow
  <2>3. ent'[c] \in {NoRow, ent[c]}
    BY <1>2 DEF CreateRow, Succeed
  <2>. QED
    BY <1>1, <2>1, <2>2, <2>3, FreshOne
<1>12. Upsert(c) => Fresh(c)
  <2> SUFFICES ASSUME Upsert(c) PROVE Fresh(c)
    OBVIOUS
  <2>1. op[c].path \in Paths /\ row'[op[c].path].mtime = clock + 1
    BY UpsertStays
  <2>2. clock' = clock + 1 /\ \A x \in Paths \ {op[c].path} : row'[x] = row[x]
    BY TickTime, SetRowElsewhere DEF Upsert
  <2>3. ent'[c] \in {NoRow, ent[c]}
    BY <1>2 DEF Upsert, Succeed
  <2>. QED
    BY <1>1, <2>1, <2>2, <2>3, FreshOne
<1>13. RemoveRow(c) => Fresh(c)
  <2> SUFFICES ASSUME RemoveRow(c) PROVE Fresh(c)
    OBVIOUS
  <2>1. op[c].path \in Paths /\ row'[op[c].path].mtime = clock + 1
    BY RemoveRowStays
  <2>2. clock' = clock + 1 /\ \A x \in Paths \ {op[c].path} : row'[x] = row[x]
    BY TickTime, SetRowElsewhere DEF RemoveRow
  <2>3. ent'[c] \in {NoRow, ent[c]}
    BY <1>2 DEF RemoveRow, Succeed
  <2>. QED
    BY <1>1, <2>1, <2>2, <2>3, FreshOne
<1>. QED
  BY <1>4, <1>5, <1>6, <1>7, <1>8, <1>9, <1>10, <1>11, <1>12, <1>13, SetMtimeFresh, RenameTxFresh,
     MoveFresh DEF Step

-----------------------------------------------------------------------------
(* What is known is kept by every step, and nothing stale is served.       *)

LEMMA StepKnows ==
  ASSUME Types, Knows, NothingStale, NEW c \in Clients, Kept(c), Step(c)
  PROVE  Knows' /\ NothingStale'
<1>1. /\ TypeOK /\ OpShape(c) /\ Stays(c) /\ Fresh(c) /\ Types' /\ Listed /\ Past
  BY StepStays, StepFresh, StepTypes DEF Types, Knows
<1>2. /\ Uses(c)' \subseteq Uses(c) /\ Uses(c) \subseteq Busy
      /\ \A d \in Clients \ {c} : ent'[d] = ent[d] /\ Uses(d)' = Uses(d)
      /\ \A p \in Paths \ Uses(c) : row'[p] = row[p] /\ (p \in exposed' <=> p \in exposed)
      /\ exposed \subseteq exposed'
      /\ rpc' = rpc /\ seen' = seen /\ doomed' = doomed /\ head' = head /\ touched' = touched
  <2>1. \A d \in Clients \ {c} : pc'[d] = pc[d] /\ op'[d] = op[d] /\ ent'[d] = ent[d]
    BY <1>1 DEF Stays, Frame
  <2>2. \A d \in Clients \ {c} : ent'[d] = ent[d] /\ Uses(d)' = Uses(d)
    BY <2>1 DEF Uses
  <2>3. Uses(c) \subseteq Busy
    BY DEF Busy
  <2>. QED
    BY <1>1, <2>2, <2>3 DEF Stays, Frame, refreshVars
<1>3. Busy' \subseteq Busy
  BY <1>2 DEF Busy
<1>4. Past'
  <2>1. \A p \in Paths : PastRow(row[p])' /\ PastRow(seen[p])'
    <3> SUFFICES ASSUME NEW p \in Paths PROVE PastRow(row[p])' /\ PastRow(seen[p])'
      OBVIOUS
    <3>1. Recent(row'[p]) /\ clock' \in {clock, clock + 1}
      BY <1>1 DEF Fresh
    <3>2. seen[p] \in Rows \cup {NoRow} /\ PastRow(seen[p])
      BY <1>1, RowTime DEF Past
    <3>3. Recent(seen[p])
      BY <1>1, <3>1, <3>2, StillRecent
    <3>. QED
      BY <1>2, <3>1, <3>3 DEF Recent, PastRow
  <2>2. \A d \in Clients : PastRow(ent[d])'
    <3> SUFFICES ASSUME NEW d \in Clients PROVE PastRow(ent[d])'
      OBVIOUS
    <3>1. clock' \in {clock, clock + 1} /\ Recent(ent'[c])
      BY <1>1 DEF Fresh
    <3>2. ent[d] \in Rows \cup {NoRow} /\ PastRow(ent[d])
      BY <1>1, RowTime DEF Past
    <3>3. Recent(ent[d])
      BY <1>1, <3>1, <3>2, StillRecent
    <3>. QED
      BY <1>2, <3>1, <3>3 DEF Recent, PastRow
  <2>. QED
    BY <2>1, <2>2 DEF Past, PastRow
<1>5. Listed'
  <2>1. rpc' \in {"delete", "remove"} => Busy' \subseteq touched'
    BY <1>1, <1>2, <1>3 DEF Listed
  <2>2. ASSUME rpc' = "delete", NEW p \in Paths \ touched' PROVE row'[p] = seen'[p]
    BY <1>1, <1>2, <2>2 DEF Listed
  <2>3. ASSUME rpc' = "delete", NEW p \in Paths \ exposed',
               row'[p] # NoRow, seen'[p] # NoRow, Alike(row'[p], seen'[p])
        PROVE  row'[p] = seen'[p]
    BY <1>1, <1>2, <2>3 DEF Fresh, Unmistaken
  <2>4. ASSUME NEW p \in doomed' \ exposed' PROVE rpc' = "remove" /\ row'[p] = NoRow /\ p \notin Busy'
    <3>1. p \in doomed \ exposed /\ p \in Paths
      BY <1>1, <1>2, <2>4 DEF TypeOK
    <3>. QED
      BY <1>1, <1>2, <1>3, <3>1 DEF Listed
  <2>. QED
    BY <2>1, <2>2, <2>3, <2>4 DEF Listed, Alike
<1>6. NothingStale'
  <2> SUFFICES ASSUME rpc' = "remove", NEW p \in Paths \ touched', row'[p] # NoRow
               PROVE  Current(p, row[p])'
    BY DEF NothingStale, Current, Source
  <2>1. rpc = "remove" /\ p \notin touched /\ row'[p] = row[p]
    BY <1>1, <1>2 DEF Listed
  <2>2. Current(p, row[p])
    BY <2>1 DEF NothingStale
  <2>. QED
    BY <1>2, <2>1, <2>2 DEF Current, Source
<1>. QED
  BY <1>4, <1>5, <1>6 DEF Knows

LEMMA BeginKnows ==
  ASSUME Types, Knows, NothingStale, NEW c \in Clients, NEW do \in DOMAIN Start, NEW p \in Paths,
         NEW q \in Paths \cup {NoPath}, Begin(c, do, p, q)
  PROVE  Knows' /\ NothingStale'
<1>1. /\ touched' = IF rpc \in {"idle", "list"} THEN touched ELSE touched \cup ({p, q} \cap Paths)
      /\ exposed' = exposed \cup ({p, q} \cap doomed)
      /\ row' = row /\ clock' = clock /\ ent' = ent /\ rpc' = rpc /\ seen' = seen
      /\ doomed' = doomed /\ head' = head
  BY DEF Begin, refreshVars
<1>2. /\ Uses(c)' = {p, q} \cap Paths
      /\ \A d \in Clients \ {c} : Uses(d)' = Uses(d)
  BY BeginTypes, ZenonT(40) DEF Uses
<1>3. Busy' \subseteq Busy \cup ({p, q} \cap Paths)
  BY <1>2 DEF Busy
<1>4. Past'
  BY <1>1 DEF Knows, Past, PastRow
<1>5. Listed'
  <2>1. rpc' \in {"delete", "remove"} => Busy' \subseteq touched'
    BY <1>1, <1>3 DEF Knows, Listed
  <2>2. ASSUME NEW x \in doomed' \ exposed' PROVE rpc' = "remove" /\ row'[x] = NoRow /\ x \notin Busy'
    BY <1>1, <1>3, <2>2 DEF Knows, Listed
  <2>. QED
    BY <1>1, <2>1, <2>2 DEF Knows, Listed, Alike
<1>6. NothingStale'
  BY <1>1 DEF NothingStale, Current, Source
<1>. QED
  BY <1>4, <1>5, <1>6 DEF Knows

(* A step of the refresh that only moves it on.                            *)
LEMMA IdleKnows ==
  ASSUME Types, Knows, UNCHANGED <<row, clock, clientVars>>, exposed \subseteq exposed',
         \A p \in Paths : seen'[p] \in {seen[p], row[p], NoRow},
         rpc' \in {"idle", "list"},
         doomed' \subseteq exposed'
  PROVE  Knows' /\ NothingStale'
<1>1. Past'
  <2>1. \A p \in Paths : PastRow(row[p])' /\ PastRow(seen[p])'
    BY DEF Knows, Past, PastRow
  <2>2. \A d \in Clients : PastRow(ent[d])'
    BY DEF Knows, Past, PastRow, clientVars
  <2>. QED
    BY <2>1, <2>2 DEF Past, PastRow
<1>2. Listed'
  BY DEF Listed
<1>. QED
  BY <1>1, <1>2 DEF Knows, NothingStale

LEMMA RefreshKnows ==
  ASSUME Types, Knows, NothingStale,
         Publish \/ ListRows \/ ReconcileFails \/ SetGeneration \/ \E p \in Paths : RemoveBacking(p)
  PROVE  Knows' /\ NothingStale'
<1>1. rpc # "remove" => doomed \subseteq exposed
  BY DEF Knows, Listed
<1>2. CASE Publish
  BY <1>1, <1>2, IdleKnows DEF Publish, history
<1>3. CASE SetGeneration
  <2>1. doomed' = {} /\ rpc' = "idle" /\ exposed \subseteq exposed' /\ seen' = seen
        /\ UNCHANGED <<row, clock, clientVars>>
    BY <1>3 DEF SetGeneration
  <2>. QED
    BY <2>1, IdleKnows
<1>4. CASE ListRows
  <2>1. /\ rpc = "list" /\ rpc' = "delete" /\ seen' = row /\ touched' = Busy
        /\ row' = row /\ clock' = clock /\ ent' = ent /\ doomed' = doomed /\ exposed' = exposed
        /\ UNCHANGED clientVars
    BY <1>4 DEF ListRows, clientVars
  <2>2. Busy' = Busy
    BY <2>1, ClientsKept
  <2>3. Past'
    BY <2>1 DEF Knows, Past, PastRow
  <2>4. Listed'
    BY <1>1, <2>1, <2>2 DEF Listed
  <2>. QED
    BY <2>1, <2>3, <2>4 DEF Knows, NothingStale
<1>5. CASE ReconcileFails
  <2>1. /\ rpc \in {"list", "delete"} /\ rpc' = "remove" /\ seen' = [p \in Paths |-> NoRow]
        /\ touched' = Paths
        /\ row' = row /\ clock' = clock /\ ent' = ent /\ doomed' = doomed /\ exposed' = exposed
        /\ UNCHANGED clientVars
    BY <1>5 DEF ReconcileFails, clientVars
  <2>2. Busy' \subseteq Paths
    BY DEF Busy, Uses
  <2>3. Past'
    BY <2>1 DEF Knows, Past, PastRow
  <2>4. Listed'
    BY <1>1, <2>1, <2>2 DEF Listed
  <2>5. NothingStale'
    BY <2>1 DEF NothingStale
  <2>. QED
    BY <2>3, <2>4, <2>5 DEF Knows
<1>6. ASSUME NEW p \in Paths, RemoveBacking(p) PROVE Knows' /\ NothingStale'
  <2>1. /\ rpc = "remove" /\ rpc' = rpc /\ seen' = seen /\ touched' = touched /\ doomed' \subseteq doomed
        /\ row' = row /\ clock' = clock /\ ent' = ent /\ exposed' = exposed /\ head' = head
        /\ UNCHANGED clientVars
    BY <1>6 DEF RemoveBacking, clientVars, history
  <2>2. Busy' = Busy
    BY <2>1, ClientsKept
  <2>3. Past'
    BY <2>1 DEF Knows, Past, PastRow
  <2>4. Listed'
    BY <2>1, <2>2 DEF Knows, Listed
  <2>5. NothingStale'
    BY <2>1 DEF NothingStale, Current, Source
  <2>. QED
    BY <2>3, <2>4, <2>5 DEF Knows
<1>. QED
  BY <1>2, <1>3, <1>4, <1>5, <1>6

(* The rows that are stale in the tree are those that mean nothing there.  *)
LEMMA StaleRows ==
  ASSUME Types, NEW p \in Paths, seen[p] \in Rows, p \notin Stale(seen, head)
  PROVE  Current(p, seen[p])
<1> DEFINE renames == {x \in {y \in Paths : seen[y] # NoRow /\ seen[y].kind = "rename"} :
                         Outdated(seen[x], Source(x, seen[x]), head)}
<1>1. /\ seen[p].kind = "modify" => ~Outdated(seen[p], p, head)
      /\ seen[p].kind = "rename" => ~Outdated(seen[p], Source(p, seen[p]), head)
      /\ seen[p].kind = "create" => head[p] = Absent
      /\ seen[p].kind = "delete" => head[p] # Absent
  BY DEF Stale
<1>. QED
  BY <1>1 DEF Current, Outdated

LEMMA DeleteRowsKnows ==
  ASSUME Types, Knows, DeleteRows
  PROVE  Knows' /\ NothingStale'
<1> DEFINE gone == {p \in Stale(seen, head) : Guarded(p)}
<1>1. /\ rpc = "delete" /\ rpc' = "remove"
      /\ row' = [p \in Paths |-> IF p \in gone THEN NoRow ELSE row[p]]
      /\ doomed' = {p \in gone : seen[p].kind # "delete"}
      /\ exposed' = exposed \cup (Busy \cap gone)
      /\ seen' = [p \in Paths |-> NoRow]
      /\ clock' = clock /\ ent' = ent /\ head' = head /\ touched' = touched
      /\ UNCHANGED clientVars
  BY DEF DeleteRows, clientVars
<1>2. gone \subseteq Paths
  BY DEF Stale
<1>3. Busy' = Busy
  BY <1>1, ClientsKept
<1>4. Past'
  BY <1>1 DEF Knows, Past, PastRow
<1>5. Listed'
  <2>1. \A p \in doomed' \ exposed' : row'[p] = NoRow /\ p \notin Busy'
    BY <1>1, <1>2, <1>3
  <2>. QED
    BY <1>1, <1>3, <2>1 DEF Knows, Listed
<1>6. NothingStale'
  <2> SUFFICES ASSUME NEW p \in Paths \ touched, row'[p] # NoRow PROVE Current(p, row[p])'
    BY <1>1 DEF NothingStale, Current, Source
  <2>1. row[p] = seen[p]
    BY <1>1 DEF Knows, Listed
  <2>2. p \notin gone /\ row'[p] = row[p] /\ row[p] # NoRow
    BY <1>1
  <2>3. Guarded(p)
    BY <2>1, <2>2 DEF Guarded, Alike
  <2>4. p \notin Stale(seen, head)
    BY <2>2, <2>3
  <2>5. seen[p] \in Rows
    BY <2>1, <2>2 DEF Types, TypeOK
  <2>6. Current(p, seen[p])
    BY <2>4, <2>5, StaleRows
  <2>. QED
    BY <1>1, <2>1, <2>2, <2>6 DEF Current, Source
<1>. QED
  BY <1>4, <1>5, <1>6 DEF Knows

LEMMA CrashKnows ==
  ASSUME Types, Knows, Crash
  PROVE  Knows' /\ NothingStale'
<1>1. /\ rpc' = "list" /\ doomed' = {} /\ row' = row /\ clock' = clock
      /\ seen' = [p \in Paths |-> NoRow] /\ ent' = [c \in Clients |-> NoRow]
  BY DEF Crash
<1>2. Past'
  BY <1>1 DEF Knows, Past, PastRow
<1>3. Listed'
  BY <1>1 DEF Listed
<1>. QED
  BY <1>1, <1>2, <1>3 DEF Knows, NothingStale

-----------------------------------------------------------------------------
(* A step of an operation settles the paths it leaves and keeps what it    *)
(* needs of the others.                                                    *)

Handled(c) ==
  /\ Kept(c)'
  /\ \A p \in Uses(c) \ Uses(c)' : p \notin exposed' => Settled(p)'

LEMMA SettledSame ==
  ASSUME NEW p, Settled(p), row'[p] = row[p], disk'[p] = disk[p], want'[p] = want[p],
         p \in removed' <=> p \in removed, shown'[p] = shown[p]
  PROVE  Settled(p)'
BY DEF Settled, Live, View

(* The paths of an operation at work, and what is kept of them.            *)
LEMMA PathsOf ==
  ASSUME Types, NEW c \in Clients, pc[c] # "idle"
  PROVE  /\ op[c].path \in Paths
         /\ op[c].do \in Renames => op[c].to \in Paths \ {op[c].path} /\ Uses(c) = {op[c].path, op[c].to}
         /\ op[c].do \notin Renames => Uses(c) = {op[c].path}
BY OpSort DEF Types, Uses

LEMMA StepWorks ==
  ASSUME Types, Works, NEW c \in Clients, Stays(c), Handled(c)
  PROVE  Works'
<1>1. /\ \A d \in Clients \ {c} : pc'[d] = pc[d] /\ op'[d] = op[d] /\ ent'[d] = ent[d]
      /\ Uses(c)' \subseteq Uses(c)
      /\ \A p \in Paths \ Uses(c) :
           /\ row'[p] = row[p] /\ disk'[p] = disk[p] /\ want'[p] = want[p]
           /\ p \in removed' <=> p \in removed
           /\ p \in exposed' <=> p \in exposed
      /\ exposed \subseteq exposed' /\ shown' = shown
  BY DEF Stays, Frame, refreshVars
<1>2. \A d \in Clients \ {c} : Uses(d)' = Uses(d)
  BY <1>1 DEF Uses
<1>3. AtRest'
  <2> SUFFICES ASSUME NEW p \in Certain' PROVE Settled(p)'
    BY DEF AtRest
  <2>1. p \in Paths /\ p \notin exposed' /\ p \notin Busy'
    BY DEF Certain
  <2>2. CASE p \in Uses(c)
    <3>1. p \notin Uses(c)'
      BY <2>1 DEF Busy
    <3>. QED
      BY <2>1, <2>2, <3>1 DEF Handled
  <2>3. CASE p \notin Uses(c)
    <3>1. p \in Certain
      BY <1>1, <1>2, <2>1, <2>3 DEF Certain, Busy
    <3>2. Settled(p)
      BY <3>1 DEF Works, AtRest
    <3>. QED
      BY <1>1, <2>1, <2>3, <3>2, SettledSame
  <2>. QED
    BY <2>2, <2>3
<1>4. \A d \in Clients : Kept(d)'
  <2> SUFFICES ASSUME NEW d \in Clients \ {c} PROVE Kept(d)'
    BY DEF Handled
  <2>1. Kept(d)
    BY DEF Works
  <2>2. Uses(d) \cap Uses(c) = {}
    BY DEF Types, Exclusive
  <2>3. CASE pc[d] = "idle"
    <3>1. op'[d].do \notin Renames /\ pc'[d] = "idle"
      BY <1>1, <2>3 DEF Types, OpShape, NoOp, Renames
    <3>. QED
      BY <3>1 DEF Kept
  <2>4. CASE pc[d] # "idle"
    <3> DEFINE p == op[d].path
               q == op[d].to
    <3>1. p \in Paths /\ p \notin Uses(c) /\ (op[d].do \in Renames => q \in Paths /\ q \notin Uses(c))
      BY <2>2, <2>4, PathsOf
    <3>2. pc'[d] = pc[d] /\ op'[d] = op[d] /\ ent'[d] = ent[d]
      BY <1>1
    <3>3. /\ row'[p] = row[p] /\ disk'[p] = disk[p] /\ want'[p] = want[p] /\ shown' = shown
          /\ p \in removed' <=> p \in removed
          /\ p \in exposed' <=> p \in exposed
      BY <1>1, <3>1
    <3>4. Settled(p) => Settled(p)'
      BY <3>2, <3>3 DEF Settled, Live, View
    <3>5. SourceKept(d) => SourceKept(d)'
      BY <3>2, <3>3, <3>4 DEF SourceKept, Live
    <3>6. ASSUME op[d].do \in Renames, TargetKept(d) PROVE TargetKept(d)'
      <4>1. /\ row'[q] = row[q] /\ disk'[q] = disk[q] /\ want'[q] = want[q] /\ shown' = shown
            /\ q \in removed' <=> q \in removed
        BY <1>1, <3>1, <3>6
      <4>2. Settled(q) => Settled(q)'
        BY <3>2, <4>1 DEF Settled, Live, View
      <4>. QED
        BY <3>2, <3>6, <4>1, <4>2 DEF TargetKept, Live
    <3>7. op[d].do \in Renames => (q \in exposed' <=> q \in exposed)
      BY <1>1, <3>1
    <3>. QED
      BY <2>1, <3>2, <3>3, <3>5, <3>6, <3>7 DEF Kept
  <2>. QED
    BY <2>3, <2>4
<1>. QED
  BY <1>3, <1>4 DEF Works

(* An operation that ends leaves each of its paths settled or exposed.     *)
LEMMA EndHandled ==
  ASSUME Types, NEW c \in Clients, End(c), \A p \in Uses(c) : p \notin exposed' => Settled(p)'
  PROVE  Handled(c)
<1>1. pc'[c] = "idle" /\ op'[c].do \notin Renames
  BY EndTypes DEF Types, NoOp, Renames
<1>2. Kept(c)'
  BY <1>1 DEF Kept
<1>. QED
  BY <1>2 DEF Handled

LEMMA FailHandled ==
  ASSUME Types, NEW c \in Clients, Fail(c), \A p \in Uses(c) : p \notin exposed => Settled(p)
  PROVE  Handled(c)
<1>1. /\ End(c) /\ row' = row /\ disk' = disk /\ want' = want /\ removed' = removed
      /\ shown' = shown /\ exposed' = exposed
  BY DEF Fail, refreshVars, history
<1>2. \A p \in Uses(c) : p \notin exposed' => Settled(p)'
  BY <1>1 DEF Settled, Live, View
<1>. QED
  BY <1>1, <1>2, EndHandled

-----------------------------------------------------------------------------
(* Each step, one by one.                                                  *)

(* A step on the way, which changes the path of the operation at most.     *)
LEMMA OnwardHandled ==
  ASSUME Types, NEW c \in Clients, Kept(c),
         pc[c] \notin {"idle", "move"}, pc'[c] \notin {"idle", "move"},
         op'[c].path = op[c].path, op'[c].to = op[c].to,
         op'[c].do \in Renames => op[c].do \in Renames, shown' = shown,
         \A x \in Paths \ {op[c].path} :
            /\ row'[x] = row[x] /\ disk'[x] = disk[x] /\ want'[x] = want[x]
            /\ x \in removed' <=> x \in removed
            /\ x \in exposed' <=> x \in exposed,
         op'[c].path \notin exposed' => SourceKept(c)'
  PROVE  Handled(c)
<1>1. ASSUME op'[c].do \in Renames, op'[c].to \notin exposed' PROVE TargetKept(c)'
  <2>1. PICK q \in Paths : q = op[c].to /\ q # op[c].path
    BY <1>1, PathsOf
  <2>2. q \notin exposed
    BY <1>1, <2>1
  <2>3. Settled(op[c].to)
    BY <1>1, <2>1, <2>2 DEF Kept, TargetKept
  <2>4. Settled(q)
    BY <2>1, <2>3
  <2>5. Settled(q)'
    BY <2>1, <2>4, SettledSame
  <2>6. q = op'[c].to
    BY <2>1
  <2>. QED
    BY <2>5, <2>6 DEF TargetKept
<1>2. Kept(c)'
  BY <1>1 DEF Kept
<1>3. Uses(c)' = Uses(c)
  BY DEF Uses
<1>. QED
  BY <1>2, <1>3 DEF Handled

(* What a client knows of its path before a step.                          *)
LEMMA SourceOf ==
  ASSUME Types, NEW c \in Clients, Kept(c), pc[c] # "idle", NEW p \in Paths, p = op[c].path,
         p \notin exposed, pc[c] = "ensure" \/ pc[c] = "tx" \/ (pc[c] = "get" /\ op[c].do # "write")
                            \/ (pc[c] = "io" /\ op[c].do = "truncate")
  PROVE  Settled(p)
<1>1. op[c].path \notin exposed
  OBVIOUS
<1>2. SourceKept(c)
  BY <1>1 DEF Kept
<1>3. Settled(op[c].path)
  BY <1>2 DEF SourceKept
<1>. QED
  BY <1>3

LEMMA TargetOf ==
  ASSUME Types, NEW c \in Clients, Kept(c), pc[c] \notin {"idle", "move"}, op[c].do \in Renames,
         NEW q \in Paths, q = op[c].to, q \notin exposed
  PROVE  Settled(q)
<1>1. Settled(op[c].to)
  BY DEF Kept, TargetKept
<1>. QED
  BY <1>1

(* The failures.                                                           *)
LEMMA FailSettled ==
  ASSUME Types, NEW c \in Clients, Kept(c), Fail(c),
         \/ pc[c] = "ensure" \/ pc[c] = "tx" \/ (pc[c] = "io" /\ op[c].do = "truncate")
         \/ pc[c] = "get" /\ ~Live(row[op[c].path])
  PROVE  Handled(c)
<1>1. PICK p \in Paths : p = op[c].path
  BY PathsOf
<1>2. p \notin exposed => Settled(p)
  <2>1. CASE pc[c] = "get" /\ ~Live(row[op[c].path])
    <3>1. p \notin exposed => Settled(op[c].path)
      BY <1>1, <2>1 DEF Kept, SourceKept
    <3>. QED
      BY <1>1, <3>1
  <2>2. CASE pc[c] # "get"
    BY <1>1, <2>2, SourceOf
  <2>. QED
    BY <2>1, <2>2
<1>3. ASSUME NEW q \in Uses(c), q \notin exposed PROVE Settled(q)
  <2>1. CASE q = p
    BY <1>2, <1>3, <2>1
  <2>2. CASE q # p
    <3>1. op[c].do \in Renames /\ q = op[c].to /\ q \in Paths
      BY <1>1, <2>2, PathsOf
    <3>. QED
      BY <1>3, <3>1, TargetOf
  <2>. QED
    BY <2>1, <2>2
<1>. QED
  BY <1>3, FailHandled

LEMMA FoundHandled ==
  ASSUME Types, NEW c \in Clients, Kept(c), Found(c)
  PROVE  Handled(c)
<1> DEFINE marks == op[c].do = "rename" /\ row[op[c].path].kind = "create"
                    /\ shown[op[c].to] # Absent
           marked == [op[c] EXCEPT !.do = "mark", !.base = shown[op[c].to]]
<1>1. PICK p \in Paths : p = op[c].path
  BY PathsOf DEF Found, At
<1>2. /\ pc[c] = "ensure" /\ Goto(c, "get") /\ row' = row /\ disk' = disk /\ want' = want
      /\ removed' = removed /\ exposed' = exposed /\ shown' = shown
      /\ op' = IF marks THEN [op EXCEPT ![c] = marked] ELSE op
  BY DEF Found, At, refreshVars, history
<1>3. pc'[c] = "get"
  BY <1>2, GotoTypes DEF Types, PCs
<1>4. /\ marked.path = op[c].path /\ marked.to = op[c].to /\ marked.do = "mark"
  BY <1>2, OpSort DEF Types
<1> HIDE DEF marked
<1>5. op'[c] = IF marks THEN marked ELSE op[c]
  BY <1>2 DEF Types, TypeOK
<1> HIDE DEF marks
<1>6. /\ op'[c].path = op[c].path /\ op'[c].to = op[c].to
  BY <1>4, <1>5
<1>7. op'[c].do \in Renames => op[c].do \in Renames
  BY <1>4, <1>5 DEF marks, Renames
<1>8. ASSUME p \notin exposed' PROVE SourceKept(c)'
  <2>1. Settled(p)
    BY <1>1, <1>2, <1>8, SourceOf
  <2>2. Settled(p)'
    BY <1>2, <2>1, SettledSame
  <2>3. p = op'[c].path
    BY <1>1, <1>6
  <2>. QED
    BY <1>3, <2>2, <2>3 DEF SourceKept
<1>. QED
  BY <1>1, <1>2, <1>3, <1>6, <1>7, <1>8, OnwardHandled

LEMMA HydrateHandled ==
  ASSUME Types, NEW c \in Clients, Kept(c), Hydrate(c)
  PROVE  Handled(c)
<1> DEFINE based == [op[c] EXCEPT !.base = shown[op[c].path]]
<1>1. pc[c] = "ensure" /\ row[op[c].path] = NoRow
  BY DEF Hydrate, At
<1>2. CASE Fail(c)
  BY <1>1, <1>2, FailSettled
<1>3. CASE /\ Goto(c, "cow")
           /\ op' = [op EXCEPT ![c] = based]
           /\ UNCHANGED <<row, disk, clock, ent, refreshVars, history>>
  <2>1. PICK p \in Paths : p = op[c].path
    BY <1>1, PathsOf
  <2>2. /\ row' = row /\ disk' = disk /\ want' = want
        /\ removed' = removed /\ exposed' = exposed /\ shown' = shown
    BY <1>3 DEF refreshVars, history
  <2>3. pc'[c] = "cow"
    BY <1>3, GotoTypes DEF Types, PCs
  <2>4. /\ based.path = op[c].path /\ based.to = op[c].to /\ based.do = op[c].do
        /\ based.base = shown[p]
    BY <1>1, <2>1, OpSort DEF Types
  <2> HIDE DEF based
  <2>5. op'[c] = based
    BY <1>3 DEF Types, TypeOK
  <2>6. ASSUME p \notin exposed' PROVE SourceKept(c)'
    <3>1. Settled(p)
      BY <1>1, <2>1, <2>2, <2>6, SourceOf
    <3>2. p \notin removed => want[p] = shown[p]
      BY <1>1, <2>1, <3>1 DEF Settled, View
    <3>3. p = op'[c].path /\ op'[c].base = shown[p]
      BY <2>1, <2>4, <2>5
    <3>. QED
      BY <1>1, <2>1, <2>2, <2>3, <3>2, <3>3 DEF SourceKept
  <2>. QED
    BY <1>1, <2>1, <2>2, <2>3, <2>4, <2>5, <2>6, OnwardHandled
<1>. QED
  BY <1>2, <1>3 DEF Hydrate

LEMMA NotFoundHandled ==
  ASSUME Types, NEW c \in Clients, Kept(c), NotFound(c)
  PROVE  Handled(c)
<1>1. pc[c] = "ensure"
  BY DEF NotFound, At
<1>2. CASE Fail(c)
  BY <1>1, <1>2, FailSettled
<1>3. CASE Goto(c, "create") /\ UNCHANGED <<row, disk, clock, op, ent, refreshVars, history>>
  <2>1. /\ row' = row /\ disk' = disk /\ want' = want /\ op' = op
        /\ removed' = removed /\ exposed' = exposed /\ shown' = shown
    BY <1>3 DEF refreshVars, history
  <2>2. pc'[c] = "create"
    BY <1>3, GotoTypes DEF Types, PCs
  <2>3. SourceKept(c)'
    BY <2>2 DEF SourceKept
  <2>. QED
    BY <1>1, <2>1, <2>2, <2>3, OnwardHandled
<1>. QED
  BY <1>2, <1>3 DEF NotFound

-----------------------------------------------------------------------------
(* The steps that copy, create, read and write.                            *)

LEMMA CopyOnWriteHandled ==
  ASSUME Types, NEW c \in Clients, Kept(c), CopyOnWrite(c)
  PROVE  Handled(c)
<1>1. PICK p \in Paths : p = op[c].path
  BY PathsOf DEF CopyOnWrite, At
<1>2. /\ pc[c] = "cow" /\ Goto(c, "cowrow") /\ disk' = [disk EXCEPT ![p] = op[c].base]
      /\ row' = row /\ want' = want /\ op' = op
      /\ removed' = removed /\ exposed' = exposed /\ shown' = shown
  BY <1>1 DEF CopyOnWrite, At, refreshVars, history
<1>3. pc'[c] = "cowrow" /\ disk'[p] = op[c].base /\ \A x \in Paths \ {p} : disk'[x] = disk[x]
  BY <1>2, GotoTypes DEF Types, TypeOK, PCs
<1>4. ASSUME p \notin exposed' PROVE SourceKept(c)'
  <2>1. row[p] = NoRow /\ (p \notin removed => want[p] = op[c].base)
    BY <1>1, <1>2, <1>4 DEF Kept, SourceKept
  <2>. QED
    BY <1>1, <1>2, <1>3, <2>1 DEF SourceKept
<1>. QED
  BY <1>1, <1>2, <1>3, <1>4, OnwardHandled

LEMMA CopyRowHandled ==
  ASSUME Types, NEW c \in Clients, Kept(c), CopyRow(c)
  PROVE  Handled(c)
<1>1. PICK p \in Paths : p = op[c].path
  BY CopyRowStays DEF Types
<1>2. /\ pc[c] = "cowrow" /\ pc'[c] = "get" /\ row'[p].kind = "modify" /\ row'[p] \in Rows
  BY <1>1, CopyRowStays DEF Types
<1>3. /\ disk' = disk /\ op' = op /\ exposed' = exposed /\ shown' = shown
      /\ want' = IF p \in removed THEN [want EXCEPT ![p] = disk[p]] ELSE want
      /\ removed' = removed \ {p}
      /\ \A x \in Paths \ {p} : row'[x] = row[x]
  BY <1>1, SetRowElsewhere DEF CopyRow, refreshVars, Types
<1>4. \A x \in Paths \ {p} : want'[x] = want[x] /\ (x \in removed' <=> x \in removed)
  BY <1>3
<1>5. ASSUME p \notin exposed' PROVE SourceKept(c)'
  <2>1. disk[p] = op[c].base /\ (p \notin removed => want[p] = op[c].base)
    BY <1>1, <1>2, <1>3, <1>5 DEF Kept, SourceKept
  <2>2. disk[p] # NoFile
    BY <1>2, <2>1 DEF Types, OpShape, Contents
  <2>3. Live(row'[p])
    BY <1>2 DEF Live
  <2>4. want'[p] = disk[p]
    BY <1>3, <2>1 DEF Types, TypeOK
  <2>5. Settled(p)'
    BY <1>3, <2>2, <2>3, <2>4 DEF Settled, View, Live
  <2>6. p = op'[c].path
    BY <1>1, <1>3
  <2>. QED
    BY <1>2, <2>5, <2>6 DEF SourceKept
<1>. QED
  BY <1>1, <1>2, <1>3, <1>4, <1>5, OnwardHandled

LEMMA CreateFileHandled ==
  ASSUME Types, NEW c \in Clients, Kept(c), CreateFile(c)
  PROVE  Handled(c)
<1>1. PICK p \in Paths : p = op[c].path
  BY PathsOf DEF CreateFile, At
<1>2. /\ pc[c] = "create" /\ Goto(c, "createrow") /\ disk' = [disk EXCEPT ![p] = 0]
      /\ row' = row /\ want' = want /\ op' = op
      /\ removed' = removed /\ exposed' = exposed /\ shown' = shown
  BY <1>1 DEF CreateFile, At, refreshVars, history
<1>3. pc'[c] = "createrow" /\ disk'[p] = 0 /\ \A x \in Paths \ {p} : disk'[x] = disk[x]
  BY <1>2, GotoTypes DEF Types, TypeOK, PCs
<1>4. SourceKept(c)'
  BY <1>1, <1>2, <1>3 DEF SourceKept
<1>. QED
  BY <1>1, <1>2, <1>3, <1>4, OnwardHandled

(* A path that shows a file it has, and what its caller was told.          *)
LEMMA ShownSettled ==
  ASSUME NEW p, Live(row'[p]), disk'[p] # NoFile, want'[p] = disk'[p], p \notin removed'
  PROVE  Settled(p)'
BY DEF Settled, View, Live

LEMMA CreateRowHandled ==
  ASSUME Types, NEW c \in Clients, Kept(c), CreateRow(c)
  PROVE  Handled(c)
<1>1. PICK p \in Paths : p = op[c].path
  BY CreateRowStays DEF Types
<1>2. /\ pc[c] = "createrow" /\ row'[p].kind = "create" /\ row'[p] \in Rows
  BY <1>1, CreateRowStays DEF Types
<1>3. Live(row'[p]) /\ disk' = disk /\ \A x \in Paths \ {p} : row'[x] = row[x]
  BY <1>1, <1>2, SetRowElsewhere DEF CreateRow, Live, Types
<1>4. p \notin exposed => disk[p] = 0 /\ disk[p] # NoFile
  BY <1>1, <1>2 DEF Kept, SourceKept, Contents
<1>5. CASE Succeed(c, Show(p, 0))
  <2>1. op[c].do \notin Renames /\ Uses(c) = {p}
    BY <1>1, <1>2, PathsOf DEF Types, OpShape, Renames
  <2>2. End(c) /\ exposed' = exposed /\ want'[p] = 0 /\ p \notin removed'
    BY <1>5 DEF Succeed, Show
  <2>3. p \notin exposed' => Settled(p)'
    BY <1>3, <1>4, <2>2, ShownSettled
  <2>. QED
    BY <2>1, <2>2, <2>3, EndHandled
<1>6. CASE Goto(c, "get") /\ UNCHANGED <<op, ent, refreshVars, history>>
  <2>1. pc'[c] = "get"
    BY <1>6, GotoTypes DEF Types, PCs
  <2>2. /\ op' = op /\ want' = want /\ removed' = removed /\ exposed' = exposed /\ shown' = shown
    BY <1>6 DEF refreshVars, history
  <2>3. CASE op[c].do = "create"
    <3>1. Succeed(c, Show(p, 0))
      BY <1>1, <2>3 DEF CreateRow
    <3>. QED
      BY <1>5, <3>1
  <2>4. CASE op[c].do # "create"
    <3>1. op[c].do = "write"
      BY <1>2, <2>4 DEF Types, OpShape
    <3>2. SourceKept(c)'
      BY <1>1, <1>3, <2>1, <2>2, <3>1 DEF SourceKept
    <3>. QED
      BY <1>1, <1>2, <1>3, <2>1, <2>2, <3>2, OnwardHandled
  <2>. QED
    BY <2>3, <2>4
<1>. QED
  BY <1>1, <1>5, <1>6 DEF CreateRow

LEMMA GetHandled ==
  ASSUME Types, NEW c \in Clients, Kept(c), Get(c)
  PROVE  Handled(c)
<1> DEFINE to == IF op[c].do \in {"write", "truncate"} THEN "io" ELSE "tx"
<1>1. PICK p \in Paths : p = op[c].path
  BY PathsOf DEF Get, At
<1>2. pc[c] = "get"
  BY DEF Get, At
<1>3. CASE ~Live(row[p])
  <2>1. Fail(c)
    BY <1>1, <1>3 DEF Get
  <2>. QED
    BY <1>1, <1>2, <1>3, <2>1, FailSettled
<1>4. CASE Live(row[p])
  <2>1. /\ Goto(c, to) /\ ent' = [ent EXCEPT ![c] = row[p]]
        /\ UNCHANGED <<row, disk, clock, op, refreshVars, history>>
    BY <1>1, <1>4 DEF Get
  <2>2. /\ row' = row /\ disk' = disk /\ want' = want /\ op' = op
        /\ removed' = removed /\ exposed' = exposed /\ shown' = shown
    BY <2>1 DEF refreshVars, history
  <2>3. pc'[c] = to /\ ent'[c] = row[p]
    BY <2>1, GotoTypes DEF Types, TypeOK, PCs
  <2>4. ASSUME p \notin exposed' PROVE SourceKept(c)'
    <3>1. op[c].do = "write" => SourceKept(c)'
      BY <2>2, <2>3 DEF SourceKept
    <3>2. op[c].do # "write" => Settled(p)
      BY <1>1, <1>2, <2>2, <2>4, SourceOf
    <3>3. Settled(p) => Settled(p)'
      BY <2>2, SettledSame
    <3>4. p = op'[c].path
      BY <1>1, <2>2
    <3>. QED
      BY <2>2, <2>3, <3>1, <3>2, <3>3, <3>4 DEF SourceKept
  <2>. QED
    BY <1>1, <1>2, <2>2, <2>3, <2>4, OnwardHandled
<1>. QED
  BY <1>3, <1>4

-----------------------------------------------------------------------------
(* The steps that set times, write, and remove.                            *)

LEMMA SetMtimeHandled ==
  ASSUME Types, NEW c \in Clients, Kept(c), SetMtime(c)
  PROVE  Handled(c)
<1>1. PICK p \in Paths : p = op[c].path
  BY PathsOf DEF SetMtime, At
<1>2. /\ pc[c] = "get" /\ op[c].do = "touch" /\ End(c)
      /\ disk' = disk /\ want' = want /\ removed' = removed /\ shown' = shown
  BY DEF SetMtime, At, refreshVars
<1>3. PICK t \in {1, clock + 1} :
         /\ row' = IF row[p] = NoRow THEN row ELSE [row EXCEPT ![p].mtime = t]
         /\ exposed' = IF rpc = "delete" /\ t # clock + 1 THEN exposed \cup {p} ELSE exposed
  BY <1>1 DEF SetMtime
<1>4. Uses(c) = {p}
  BY <1>1, <1>2, PathsOf DEF Renames
<1>5. ASSUME p \notin exposed' PROVE Settled(p)'
  <2>1. Settled(p)
    BY <1>1, <1>2, <1>3, <1>5, SourceOf
  <2>2. CASE row[p] = NoRow
    <3>1. row'[p] = row[p]
      BY <1>3, <2>2
    <3>. QED
      BY <1>2, <2>1, <3>1, SettledSame
  <2>3. CASE row[p] # NoRow
    <3>1. row[p] \in Rows /\ row'[p] = [row[p] EXCEPT !.mtime = t]
      BY <1>3, <2>3 DEF Types, TypeOK
    <3>2. row'[p].kind = row[p].kind
      BY <3>1 DEF Rows
    <3>3. t \in Times
      BY <1>2, RowTime, TickTime DEF Types, SetMtime, Times
    <3>4. row'[p] \in Rows /\ row'[p] # NoRow
      BY <3>1, <3>3 DEF Rows
    <3>. QED
      BY <1>2, <2>1, <2>3, <3>2, <3>4 DEF Settled, View, Live
  <2>. QED
    BY <2>2, <2>3
<1>. QED
  BY <1>2, <1>4, <1>5, EndHandled

LEMMA WriteAtHandled ==
  ASSUME Types, NEW c \in Clients, Kept(c), WriteAt(c)
  PROVE  Handled(c)
<1>1. PICK p \in Paths : p = op[c].path
  BY PathsOf DEF WriteAt, At
<1>2. pc[c] = "io"
  BY DEF WriteAt, At
<1>3. CASE Fail(c) /\ op[c].do = "truncate"
  BY <1>2, <1>3, FailSettled
<1>4. CASE /\ Goto(c, "upsert") /\ disk' = [disk EXCEPT ![p] = clock + 1] /\ clock < MaxClock
           /\ UNCHANGED <<row, clock, op, ent, refreshVars, history>>
  <2>1. /\ row' = row /\ want' = want /\ op' = op
        /\ removed' = removed /\ exposed' = exposed /\ shown' = shown
    BY <1>4 DEF refreshVars, history
  <2>2. pc'[c] = "upsert" /\ disk'[p] = clock + 1 /\ \A x \in Paths \ {p} : disk'[x] = disk[x]
    BY <1>4, GotoTypes DEF Types, TypeOK, PCs
  <2>3. disk'[p] # NoFile
    BY <1>4, <2>2 DEF Types, TypeOK, Contents
  <2>4. SourceKept(c)'
    BY <1>1, <2>1, <2>2, <2>3 DEF SourceKept
  <2>. QED
    BY <1>1, <1>2, <2>1, <2>2, <2>4, OnwardHandled
<1>. QED
  BY <1>1, <1>3, <1>4 DEF WriteAt

LEMMA UpsertHandled ==
  ASSUME Types, NEW c \in Clients, Kept(c), Upsert(c)
  PROVE  Handled(c)
<1>1. PICK p \in Paths : p = op[c].path
  BY UpsertStays DEF Types
<1>2. pc[c] = "upsert" /\ Live(row'[p])
  BY <1>1, UpsertStays DEF Types
<1>3. /\ End(c) /\ disk' = disk /\ exposed' = exposed /\ want'[p] = disk[p] /\ p \notin removed'
  BY <1>1 DEF Upsert, Succeed, Show
<1>4. Uses(c) = {p}
  BY <1>1, <1>2, PathsOf DEF Types, OpShape, Renames
<1>5. p \notin exposed' => disk[p] # NoFile
  BY <1>1, <1>2, <1>3 DEF Kept, SourceKept
<1>6. p \notin exposed' => Settled(p)'
  BY <1>2, <1>3, <1>5, ShownSettled
<1>. QED
  BY <1>3, <1>4, <1>6, EndHandled

LEMMA RemoveFileHandled ==
  ASSUME Types, NEW c \in Clients, Kept(c), RemoveFile(c)
  PROVE  Handled(c)
<1>1. PICK p \in Paths : p = op[c].path
  BY PathsOf DEF RemoveFile, At
<1>2. /\ pc[c] = "unlink" /\ Goto(c, "unlinkrow")
      /\ disk' = IF Live(row[p]) THEN [disk EXCEPT ![p] = NoFile] ELSE disk
      /\ row' = row /\ want' = want /\ op' = op
      /\ removed' = removed /\ exposed' = exposed /\ shown' = shown
  BY <1>1 DEF RemoveFile, At, refreshVars, history
<1>3. pc'[c] = "unlinkrow" /\ \A x \in Paths \ {p} : disk'[x] = disk[x]
  BY <1>2, GotoTypes DEF Types, TypeOK, PCs
<1>4. SourceKept(c)'
  BY <1>3 DEF SourceKept
<1>. QED
  BY <1>1, <1>2, <1>3, <1>4, OnwardHandled

LEMMA RemoveRowHandled ==
  ASSUME Types, NEW c \in Clients, Kept(c), RemoveRow(c)
  PROVE  Handled(c)
<1>1. PICK p \in Paths : p = op[c].path
  BY RemoveRowStays DEF Types
<1>2. pc[c] = "unlinkrow" /\ row'[p].kind = "delete" /\ row'[p] \in Rows
  BY <1>1, RemoveRowStays DEF Types
<1>3. /\ End(c) /\ want'[p] = Absent /\ p \notin removed'
  BY <1>1 DEF RemoveRow, Succeed, Show
<1>4. Uses(c) = {p}
  BY <1>1, <1>2, PathsOf DEF Types, OpShape, Renames
<1>5. Settled(p)'
  BY <1>2, <1>3 DEF Settled, View, Live
<1>. QED
  BY <1>3, <1>4, <1>5, EndHandled

(* The transaction of a rename leaves a row at the new name, and hides the *)
(* old one or exposes it.                                                  *)
LEMMA RenameTxHandled ==
  ASSUME Types, NEW c \in Clients, Kept(c), RenameTx(c)
  PROVE  Handled(c)
<1>1. pc[c] = "tx"
  BY DEF RenameTx, At
<1>2. CASE Fail(c)
  BY <1>1, <1>2, FailSettled
<1>3. CASE ~Fail(c)
  <2>1. PICK p \in Paths, q \in Paths : p = op[c].path /\ q = op[c].to /\ p # q
    BY <1>3, RenameTxStays DEF Types
  <2>2. /\ pc'[c] = "move" /\ op' = op /\ row[q] = NoRow
        /\ row'[q] = Moved(c) /\ row'[p] = Left(c) /\ Moved(c) \in Rows /\ Moved(c).kind # "delete"
        /\ Left(c) # NoRow => Left(c) \in Rows /\ Left(c).kind = "delete"
        /\ op[c].do \in Renames
    BY <1>3, <2>1, RenameTxStays DEF Types
  <2>3. /\ disk' = disk /\ want' = want /\ removed' = removed /\ shown' = shown
        /\ exposed \subseteq exposed'
    BY <1>3 DEF RenameTx, refreshVars, Fail
  <2>4. Left(c) = NoRow /\ p \notin exposed' => shown[p] = Absent
    BY <1>3, <2>1 DEF RenameTx, Left, Fail
  <2>5. ASSUME p \notin exposed' PROVE SourceKept(c)'
    <3>1. p \notin exposed
      BY <2>3, <2>5
    <3>2. row[p] = ent[c] /\ Live(row[p])
      BY <1>1, <2>1, <3>1 DEF Kept, SourceKept, Types, OpShape, Live
    <3>3. Settled(p)
      BY <1>1, <2>1, <3>1, SourceOf
    <3>4. disk[p] # NoFile
      BY <3>2, <3>3 DEF Settled
    <3>5. ~Live(row'[p]) /\ (row'[p] = NoRow => shown[p] = Absent)
      BY <2>2, <2>4, <2>5 DEF Live
    <3>6. p = op'[c].path
      BY <2>1, <2>2
    <3>. QED
      BY <2>2, <2>3, <3>4, <3>5, <3>6 DEF SourceKept
  <2>6. ASSUME q \notin exposed' PROVE TargetKept(c)'
    <3>1. q \notin exposed
      BY <2>3, <2>6
    <3>2. Settled(q)
      BY <1>1, <2>1, <2>2, <3>1, TargetOf
    <3>3. q \notin removed => want[q] = shown[q]
      BY <2>2, <3>2 DEF Settled, View
    <3>4. Live(row'[q])
      BY <2>2 DEF Live
    <3>5. q = op'[c].to
      BY <2>1, <2>2
    <3>. QED
      BY <2>2, <2>3, <3>3, <3>4, <3>5 DEF TargetKept
  <2>7. Kept(c)'
    BY <2>1, <2>2, <2>5, <2>6 DEF Kept
  <2>8. Uses(c)' = Uses(c)
    BY <1>1, <2>2 DEF Uses
  <2>. QED
    BY <2>7, <2>8 DEF Handled
<1>. QED
  BY <1>2, <1>3

LEMMA MoveHandled ==
  ASSUME Types, NEW c \in Clients, Kept(c), Move(c)
  PROVE  Handled(c)
<1>1. PICK p \in Paths, q \in Paths : p = op[c].path /\ q = op[c].to /\ p # q
  BY MoveStays DEF Types
<1>2. pc[c] = "move" /\ op[c].do \in Renames
  BY MoveStays DEF Types
<1>3. Uses(c) = {p, q}
  BY <1>1, <1>2, PathsOf
<1>4. /\ p \notin exposed => /\ disk[p] # NoFile /\ ~Live(row[p])
                             /\ row[p] = NoRow => shown[p] = Absent
      /\ q \notin exposed => Live(row[q]) /\ (q \notin removed => want[q] = shown[q])
  BY <1>1, <1>2 DEF Kept, SourceKept, TargetKept
<1>5. CASE disk[p] = NoFile
  <2>1. /\ End(c) /\ row' = [row EXCEPT ![q] = NoRow, ![p] = ent[c]]
        /\ disk' = disk /\ want' = want /\ removed' = removed /\ exposed' = exposed /\ shown' = shown
    BY <1>1, <1>5 DEF Move, refreshVars, history
  <2>2. row'[q] = NoRow
    BY <1>1, <2>1 DEF Types, TypeOK
  <2>3. q \notin exposed' => Settled(q)'
    BY <1>4, <2>1, <2>2 DEF Settled, View, Live
  <2>. QED
    BY <1>3, <1>4, <1>5, <2>1, <2>3, EndHandled
<1>6. CASE disk[p] # NoFile
  <2> DEFINE shows == [x \in {p, q} |-> IF x = q THEN disk[p] ELSE Absent]
  <2>1. /\ disk' = [disk EXCEPT ![q] = disk[p], ![p] = NoFile] /\ row' = row
        /\ Succeed(c, shows)
    BY <1>1, <1>6 DEF Move
  <2>2. DOMAIN shows = {p, q} /\ shows[q] = disk[p] /\ shows[p] = Absent
    BY <1>1
  <2> HIDE DEF shows
  <2>3. /\ End(c) /\ exposed' = exposed /\ shown' = shown
        /\ want'[q] = disk[p] /\ want'[p] = Absent /\ p \notin removed' /\ q \notin removed'
    BY <2>1, <2>2 DEF Succeed, refreshVars
  <2>4. disk'[q] = disk[p]
    BY <1>1, <2>1 DEF Types, TypeOK
  <2>5. p \notin exposed' => Settled(p)'
    BY <1>4, <2>1, <2>3 DEF Settled, View, Live
  <2>6. q \notin exposed' => Settled(q)'
    BY <1>4, <1>6, <2>1, <2>3, <2>4, ShownSettled
  <2>. QED
    BY <1>3, <2>3, <2>5, <2>6, EndHandled
<1>. QED
  BY <1>5, <1>6

LEMMA AllHandled ==
  ASSUME Types, NEW c \in Clients, Kept(c), Step(c)
  PROVE  Handled(c)
BY FoundHandled, HydrateHandled, NotFoundHandled, CopyOnWriteHandled, CopyRowHandled,
   CreateFileHandled, CreateRowHandled, GetHandled, SetMtimeHandled, WriteAtHandled,
   UpsertHandled, RemoveFileHandled, RemoveRowHandled, RenameTxHandled, MoveHandled DEF Step

-----------------------------------------------------------------------------
(* The other actions keep every path settled or exposed.                   *)

(* Nothing but the history has changed, and that only for the worse.       *)
LEMMA PathsSame ==
  ASSUME row' = row, disk' = disk, want' = want, removed' = removed, shown' = shown, NEW p
  PROVE  Settled(p)' <=> Settled(p)
BY DEF Settled, Live, View

LEMMA BeginWorks ==
  ASSUME Types, Works, NEW c \in Clients, NEW do \in DOMAIN Start, NEW p \in Paths,
         NEW q \in Paths \cup {NoPath}, Begin(c, do, p, q)
  PROVE  Works'
<1>1. /\ row' = row /\ disk' = disk /\ want' = want /\ removed' = removed /\ shown' = shown
      /\ exposed \subseteq exposed' /\ {p, q} \cap Busy = {} /\ pc[c] = "idle"
  BY DEF Begin, At, refreshVars
<1>2. /\ pc'[c] = Start[do] /\ op'[c] = [do |-> do, path |-> p, to |-> q, base |-> NoPath]
      /\ \A d \in Clients \ {c} : pc'[d] = pc[d] /\ op'[d] = op[d] /\ ent'[d] = ent[d]
      /\ Uses(c)' = {p, q} \cap Paths
      /\ do = "rename" => q \in Paths /\ p # q
  BY BeginTypes
<1>3. /\ op'[c].do = do /\ op'[c].path = p /\ op'[c].to = q
  BY <1>2
<1>4. \A x \in {p, q} \cap Paths : x \notin exposed' => Settled(x)'
  BY <1>1, PathsSame DEF Works, AtRest, Certain
<1>5. AtRest'
  <2> SUFFICES ASSUME NEW x \in Certain' PROVE Settled(x)'
    BY DEF AtRest
  <2>1. \A d \in Clients \ {c} : Uses(d)' = Uses(d)
    BY <1>2 DEF Uses
  <2>2. Uses(c) = {}
    BY <1>1 DEF Uses
  <2>3. x \in Certain
    BY <1>1, <2>1, <2>2 DEF Certain, Busy
  <2>. QED
    BY <1>1, <2>3, PathsSame DEF Works, AtRest
<1>6. Kept(c)'
  <2>1. Start[do] \in {"ensure", "create", "unlink"} /\ (do \in Renames <=> do = "rename")
    BY StartAt
  <2>2. ASSUME p \notin exposed' PROVE SourceKept(c)'
    BY <1>2, <1>3, <1>4, <2>1, <2>2 DEF SourceKept
  <2>3. ASSUME do \in Renames, q \notin exposed' PROVE TargetKept(c)'
    BY <1>2, <1>3, <1>4, <2>1, <2>3 DEF TargetKept
  <2>. QED
    BY <1>3, <2>2, <2>3 DEF Kept
<1>7. \A d \in Clients \ {c} : Kept(d)'
  <2> SUFFICES ASSUME NEW d \in Clients \ {c} PROVE Kept(d)'
    OBVIOUS
  <2>1. pc'[d] = pc[d] /\ op'[d] = op[d] /\ ent'[d] = ent[d] /\ Kept(d)
    BY <1>2 DEF Works
  <2>. QED
    BY <1>1, <2>1 DEF Kept, SourceKept, TargetKept, Settled, Live, View
<1>. QED
  BY <1>5, <1>6, <1>7 DEF Works

(* A step that changes none of what the paths show or store.               *)
LEMMA QuietWorks ==
  ASSUME Types, Works, UNCHANGED clientVars, exposed' = exposed,
         row' = row, disk' = disk, want' = want, removed' = removed, shown' = shown
  PROVE  Works'
<1>1. pc' = pc /\ op' = op /\ ent' = ent /\ Busy' = Busy
  BY ClientsKept DEF clientVars
<1>2. AtRest'
  BY <1>1, PathsSame DEF Works, AtRest, Certain
<1>3. \A c \in Clients : Kept(c)'
  BY <1>1 DEF Works, Kept, SourceKept, TargetKept, Settled, Live, View
<1>. QED
  BY <1>2, <1>3 DEF Works

(* The paths of an operation are its own.                                  *)
LEMMA Owner ==
  ASSUME Types, NEW c \in Clients, NEW d \in Clients, NEW p \in Uses(c), p \in Uses(d)
  PROVE  c = d
BY DEF Types, Exclusive

LEMMA DeleteRowsWorks ==
  ASSUME Types, Knows, Works, DeleteRows
  PROVE  Works'
<1> DEFINE gone == {p \in Stale(seen, head) : Guarded(p)}
<1>1. /\ rpc = "delete"
      /\ row' = [p \in Paths |-> IF p \in gone THEN NoRow ELSE row[p]]
      /\ removed' = removed \cup {p \in gone : row[p] = seen[p]}
      /\ exposed' = exposed \cup (Busy \cap gone)
      /\ disk' = disk /\ want' = want /\ shown' = shown /\ UNCHANGED clientVars
  BY DEF DeleteRows
<1>2. pc' = pc /\ op' = op /\ ent' = ent /\ Busy' = Busy
  BY <1>1, ClientsKept DEF clientVars
<1>3. ASSUME NEW p \in gone, p \notin exposed PROVE row[p] = seen[p]
  <2>1. p \in Paths /\ seen[p] # NoRow /\ row[p] # NoRow /\ Alike(row[p], seen[p])
    BY <1>3 DEF Stale, Guarded
  <2>. QED
    BY <1>1, <1>3, <2>1 DEF Knows, Listed
<1>4. gone \subseteq Paths
  BY DEF Stale
<1> HIDE DEF gone
<1>5. ASSUME NEW p \in Paths, p \notin gone, Settled(p) PROVE Settled(p)'
  <2>1. row'[p] = row[p] /\ (p \in removed' <=> p \in removed)
    BY <1>1, <1>5
  <2>. QED
    BY <1>1, <1>5, <2>1, SettledSame
<1>6. AtRest'
  <2> SUFFICES ASSUME NEW p \in Certain' PROVE Settled(p)'
    BY DEF AtRest
  <2>1. p \in Certain /\ p \in Paths /\ p \notin exposed
    BY <1>1, <1>2 DEF Certain
  <2>2. CASE p \in gone
    <3>1. row'[p] = NoRow /\ p \in removed'
      BY <1>1, <1>3, <2>1, <2>2
    <3>. QED
      BY <3>1 DEF Settled, Live
  <2>3. CASE p \notin gone
    BY <1>5, <2>1, <2>3 DEF Works, AtRest
  <2>. QED
    BY <2>2, <2>3
<1>7. \A c \in Clients : Kept(c)'
  <2> SUFFICES ASSUME NEW c \in Clients PROVE Kept(c)'
    OBVIOUS
  <2>1. CASE pc[c] = "idle"
    <3>1. op'[c].do \notin Renames /\ pc'[c] = "idle"
      BY <1>2, <2>1 DEF Types, OpShape, NoOp, Renames
    <3>. QED
      BY <3>1 DEF Kept
  <2>2. CASE pc[c] # "idle"
    <3>1. PICK p \in Paths : p = op[c].path
      BY <2>2, PathsOf
    <3>2. Uses(c) \subseteq Busy
      BY DEF Busy
    <3>3. \A x \in Uses(c) : x \notin exposed' => x \notin exposed /\ x \notin gone
      BY <1>1, <3>2
    <3>4. \A x \in Uses(c) : x \notin exposed' => row'[x] = row[x] /\ (x \in removed' <=> x \in removed)
                                                  /\ x \in Paths
      BY <1>1, <3>3 DEF Uses
    <3>5. \A x \in Uses(c) : x \notin exposed' => (Settled(x) => Settled(x)')
      BY <1>5, <3>3, <3>4
    <3>6. p \in Uses(c) /\ p = op'[c].path
      BY <1>2, <2>2, <3>1, PathsOf
    <3>7. ASSUME p \notin exposed' PROVE SourceKept(c)'
      <4>1. SourceKept(c)
        BY <2>2, <3>1, <3>3, <3>6, <3>7 DEF Works, Kept
      <4>. QED
        BY <1>1, <1>2, <3>1, <3>4, <3>5, <3>6, <3>7, <4>1 DEF SourceKept, Live
    <3>8. ASSUME op'[c].do \in Renames, op'[c].to \notin exposed' PROVE TargetKept(c)'
      <4>1. PICK q \in Uses(c) : q = op[c].to /\ q = op'[c].to
        BY <1>2, <2>2, <3>8, PathsOf
      <4>2. TargetKept(c)
        BY <1>2, <3>3, <3>8, <4>1 DEF Works, Kept
      <4>. QED
        BY <1>1, <1>2, <3>4, <3>5, <3>8, <4>1, <4>2 DEF TargetKept, Live
    <3>. QED
      BY <3>6, <3>7, <3>8 DEF Kept
  <2>. QED
    BY <2>1, <2>2
<1>. QED
  BY <1>6, <1>7 DEF Works

-----------------------------------------------------------------------------
(* The rest of the refresh, and a crash.                                   *)

LEMMA RemoveBackingWorks ==
  ASSUME Types, Knows, Works, NEW p \in Paths, RemoveBacking(p)
  PROVE  Works'
<1>1. /\ p \in doomed /\ disk' = [disk EXCEPT ![p] = NoFile]
      /\ row' = row /\ want' = want /\ removed' = removed /\ shown' = shown /\ exposed' = exposed
      /\ UNCHANGED clientVars
  BY DEF RemoveBacking, history
<1>2. pc' = pc /\ op' = op /\ ent' = ent /\ Busy' = Busy
  BY <1>1, ClientsKept DEF clientVars
<1>3. p \notin exposed => row[p] = NoRow /\ p \notin Busy
  BY <1>1 DEF Knows, Listed
<1>4. \A x \in Paths \ {p} : disk'[x] = disk[x] /\ (Settled(x) => Settled(x)')
  BY <1>1 DEF Types, TypeOK, Settled, Live, View
<1>5. AtRest'
  <2> SUFFICES ASSUME NEW x \in Certain' PROVE Settled(x)'
    BY DEF AtRest
  <2>1. x \in Certain /\ Settled(x) /\ x \in Paths /\ x \notin exposed
    BY <1>1, <1>2 DEF Certain, Works, AtRest
  <2>2. CASE x = p
    BY <1>1, <1>3, <2>1, <2>2 DEF Settled, Live, View
  <2>3. CASE x # p
    BY <1>4, <2>1, <2>3
  <2>. QED
    BY <2>2, <2>3
<1>6. \A c \in Clients : Kept(c)'
  <2> SUFFICES ASSUME NEW c \in Clients PROVE Kept(c)'
    OBVIOUS
  <2>1. CASE pc[c] = "idle"
    <3>1. op'[c].do \notin Renames /\ pc'[c] = "idle"
      BY <1>2, <2>1 DEF Types, OpShape, NoOp, Renames
    <3>. QED
      BY <3>1 DEF Kept
  <2>2. CASE pc[c] # "idle"
    <3>1. \A x \in Uses(c) : x \notin exposed => x \in Paths \ {p}
      BY <1>3 DEF Busy, Uses
    <3>2. PICK x \in Uses(c) : x = op[c].path /\ x = op'[c].path
      BY <1>2, <2>2, PathsOf
    <3>3. ASSUME x \notin exposed' PROVE SourceKept(c)'
      <4>1. SourceKept(c) /\ disk'[x] = disk[x] /\ (Settled(x) => Settled(x)')
        BY <1>1, <1>4, <2>2, <3>1, <3>2, <3>3 DEF Works, Kept
      <4>. QED
        BY <1>1, <1>2, <3>2, <4>1 DEF SourceKept, Live
    <3>4. ASSUME op'[c].do \in Renames, op'[c].to \notin exposed' PROVE TargetKept(c)'
      <4>1. PICK q \in Uses(c) : q = op[c].to /\ q = op'[c].to
        BY <1>2, <2>2, <3>4, PathsOf
      <4>2. TargetKept(c) /\ (Settled(q) => Settled(q)')
        BY <1>1, <1>2, <1>4, <3>1, <3>4, <4>1 DEF Works, Kept
      <4>. QED
        BY <1>1, <1>2, <4>1, <4>2 DEF TargetKept, Live
    <3>. QED
      BY <3>2, <3>3, <3>4 DEF Kept
  <2>. QED
    BY <2>1, <2>2
<1>. QED
  BY <1>5, <1>6 DEF Works

(* Serving the new tree changes what paths without a row show, and what is *)
(* expected of them.                                                       *)
LEMMA SetGenerationWorks ==
  ASSUME Types, Works, SetGeneration
  PROVE  Works'
<1>1. /\ shown' = head /\ want' = [p \in Paths |-> IF p \in Bare THEN head[p] ELSE want[p]]
      /\ removed' = {} /\ exposed' = exposed \cup {p \in Busy : row[p] = NoRow}
      /\ row' = row /\ disk' = disk /\ UNCHANGED clientVars
  BY DEF SetGeneration
<1>2. pc' = pc /\ op' = op /\ ent' = ent /\ Busy' = Busy
  BY <1>1, ClientsKept DEF clientVars
<1>3. ASSUME NEW p \in Paths, row[p] # NoRow, p \notin Bare, Settled(p) PROVE Settled(p)'
  BY <1>1, <1>3 DEF Settled, View, Live
<1>4. ASSUME NEW p \in Bare, p \notin Busy PROVE row[p] = NoRow
  BY <1>4, PathsOf DEF Bare, Busy, At, Uses
<1>5. AtRest'
  <2> SUFFICES ASSUME NEW p \in Certain' PROVE Settled(p)'
    BY DEF AtRest
  <2>1. p \in Paths /\ p \notin Busy /\ Settled(p)
    BY <1>1, <1>2 DEF Certain, Works, AtRest
  <2>2. CASE row[p] = NoRow
    <3>1. p \in Bare
      BY <2>1, <2>2 DEF Bare
    <3>. QED
      BY <1>1, <2>1, <2>2, <3>1 DEF Settled, View, Live
  <2>3. CASE row[p] # NoRow
    BY <1>3, <1>4, <2>1, <2>3
  <2>. QED
    BY <2>2, <2>3
<1>6. \A c \in Clients : Kept(c)'
  <2> SUFFICES ASSUME NEW c \in Clients PROVE Kept(c)'
    OBVIOUS
  <2>1. CASE pc[c] = "idle"
    <3>1. op'[c].do \notin Renames /\ pc'[c] = "idle"
      BY <1>2, <2>1 DEF Types, OpShape, NoOp, Renames
    <3>. QED
      BY <3>1 DEF Kept
  <2>2. CASE pc[c] # "idle"
    <3>1. Uses(c) \subseteq Busy /\ Uses(c) \subseteq Paths
      BY DEF Busy, Uses
    <3>2. \A x \in Uses(c) : x \notin exposed' => row[x] # NoRow /\ x \notin exposed
      BY <1>1, <3>1
    <3>3. ASSUME NEW x \in Uses(c), x \notin exposed', x \in Bare
          PROVE  pc[c] = "move" /\ x = op[c].to
      <4>1. PICK d \in Clients : pc[d] = "move" /\ op[d].to = x
        BY <3>1, <3>2, <3>3 DEF Bare, At
      <4>2. x \in Uses(d)
        BY <3>1, <3>3, <4>1 DEF Uses
      <4>3. c = d
        BY <3>3, <4>2, Owner
      <4>. QED
        BY <4>1, <4>3
    <3>4. PICK p \in Uses(c) : p = op[c].path /\ p = op'[c].path
      BY <1>2, <2>2, PathsOf
    <3>5. ASSUME p \notin exposed' PROVE SourceKept(c)'
      <4>1. SourceKept(c) /\ row[p] # NoRow /\ p \in Paths
        BY <2>2, <3>1, <3>2, <3>4, <3>5 DEF Works, Kept
      <4>2. p \notin Bare
        <5>1. pc[c] = "move" => op[c].to # p
          BY <3>4, PathsOf DEF Types, OpShape
        <5>. QED
          BY <3>3, <3>5, <5>1
      <4>3. Settled(p) => Settled(p)'
        BY <1>3, <4>1, <4>2
      <4>. QED
        BY <1>1, <1>2, <3>4, <4>1, <4>3 DEF SourceKept, Live
    <3>6. ASSUME op'[c].do \in Renames, op'[c].to \notin exposed' PROVE TargetKept(c)'
      <4>1. PICK q \in Uses(c) : q = op[c].to /\ q = op'[c].to
        BY <1>2, <2>2, <3>6, PathsOf
      <4>2. TargetKept(c) /\ row[q] # NoRow /\ q \in Paths
        BY <1>2, <3>1, <3>2, <3>6, <4>1 DEF Works, Kept
      <4>3. CASE pc[c] = "move"
        <5>1. q \in Bare
          BY <4>1, <4>2, <4>3 DEF Bare, At
        <5>2. want'[q] = head[q] /\ shown'[q] = head[q] /\ row'[q] = row[q]
          BY <1>1, <4>2, <5>1
        <5>. QED
          BY <1>2, <4>1, <4>2, <4>3, <5>2 DEF TargetKept, Live
      <4>4. CASE pc[c] # "move"
        <5>1. q \notin Bare /\ Settled(q)
          BY <3>3, <3>6, <4>1, <4>2, <4>4 DEF TargetKept
        <5>2. Settled(q)'
          BY <1>3, <4>2, <5>1
        <5>. QED
          BY <1>2, <4>1, <4>4, <5>2 DEF TargetKept
      <4>. QED
        BY <4>3, <4>4
    <3>. QED
      BY <3>4, <3>5, <3>6 DEF Kept
  <2>. QED
    BY <2>1, <2>2
<1>. QED
  BY <1>5, <1>6 DEF Works

LEMMA CrashWorks ==
  ASSUME Types, Works, Crash
  PROVE  Works'
<1>1. /\ exposed' = exposed \cup Busy
      /\ row' = row /\ disk' = disk /\ want' = want /\ removed' = removed /\ shown' = shown
  BY DEF Crash
<1>2. \A c \in Clients : pc'[c] = "idle" /\ op'[c].do \notin Renames
  BY CrashTypes DEF NoOp, Renames
<1>3. AtRest'
  <2> SUFFICES ASSUME NEW p \in Certain' PROVE Settled(p)'
    BY DEF AtRest
  <2>1. p \in Certain
    BY <1>1 DEF Certain
  <2>. QED
    BY <1>1, <2>1, PathsSame DEF Works, AtRest
<1>4. \A c \in Clients : Kept(c)'
  BY <1>2 DEF Kept
<1>. QED
  BY <1>3, <1>4 DEF Works

-----------------------------------------------------------------------------
(* The invariant and what follows from it.                                 *)

LEMMA InitInvariant ==
  ASSUME Init
  PROVE  IInv
<1>1. Types
  BY InitTypes
<1>2. /\ row = [p \in Paths |-> NoRow] /\ seen = row /\ want = shown /\ doomed = {} /\ removed = {}
      /\ rpc = "idle"
      /\ ent = [c \in Clients |-> NoRow] /\ pc = [c \in Clients |-> "idle"]
      /\ op = [c \in Clients |-> NoOp]
  BY DEF Init
<1>3. Past /\ Listed
  BY <1>2 DEF Past, PastRow, Listed
<1>4. AtRest
  BY <1>2 DEF AtRest, Certain, Settled, View, Live
<1>5. \A c \in Clients : pc[c] = "idle" /\ op[c].do \notin Renames
  BY <1>2 DEF NoOp, Renames
<1>6. \A c \in Clients : Kept(c)
  BY <1>5 DEF Kept
<1>. QED
  BY <1>1, <1>2, <1>3, <1>4, <1>6 DEF IInv, Knows, Works, NothingStale

LEMMA NextInvariant ==
  ASSUME IInv, [Next]_vars
  PROVE  IInv'
<1>1. Types /\ Knows /\ Works /\ NothingStale
  BY DEF IInv
<1>2. ASSUME NEW c \in Clients, NEW do \in DOMAIN Start, NEW p \in Paths,
             NEW q \in Paths \cup {NoPath}, Begin(c, do, p, q)
      PROVE  IInv'
  BY <1>1, <1>2, BeginTypes, BeginKnows, BeginWorks DEF IInv
<1>3. ASSUME NEW c \in Clients, Step(c) PROVE IInv'
  <2>1. Kept(c) /\ TypeOK /\ OpShape(c)
    BY <1>1 DEF Works, Types
  <2>2. Stays(c) /\ Handled(c)
    BY <1>1, <1>3, <2>1, StepStays, AllHandled
  <2>. QED
    BY <1>1, <1>3, <2>1, <2>2, StepTypes, StepKnows, StepWorks DEF IInv
<1>4. CASE Publish
  <2>1. Works'
    BY <1>1, <1>4, QuietWorks DEF Publish, history
  <2>. QED
    BY <1>1, <1>4, <2>1, PublishTypes, RefreshKnows DEF IInv
<1>5. CASE ListRows
  <2>1. Works'
    BY <1>1, <1>5, QuietWorks DEF ListRows
  <2>. QED
    BY <1>1, <1>5, <2>1, ListRowsTypes, RefreshKnows DEF IInv
<1>6. CASE DeleteRows
  BY <1>1, <1>6, DeleteRowsTypes, DeleteRowsKnows, DeleteRowsWorks DEF IInv
<1>7. CASE ReconcileFails
  <2>1. Works'
    BY <1>1, <1>7, QuietWorks DEF ReconcileFails
  <2>. QED
    BY <1>1, <1>7, <2>1, ReconcileFailsTypes, RefreshKnows DEF IInv
<1>8. ASSUME NEW p \in Paths, RemoveBacking(p) PROVE IInv'
  BY <1>1, <1>8, RemoveBackingTypes, RefreshKnows, RemoveBackingWorks DEF IInv
<1>9. CASE SetGeneration
  BY <1>1, <1>9, SetGenerationTypes, RefreshKnows, SetGenerationWorks DEF IInv
<1>10. CASE Crash
  BY <1>1, <1>10, CrashTypes, CrashKnows, CrashWorks DEF IInv
<1>11. CASE UNCHANGED vars
  <2>1. Works'
    BY <1>1, <1>11, QuietWorks DEF vars, clientVars
  <2>2. Types'
    BY <1>1, <1>11 DEF vars, Types, TypeOK, OpShape, Exclusive, Uses
  <2>3. Knows'
    BY <1>1, <1>11 DEF vars, Knows, Past, PastRow, Listed, Busy, Uses
  <2>4. NothingStale'
    BY <1>1, <1>11 DEF vars, NothingStale, Current, Source
  <2>. QED
    BY <2>1, <2>2, <2>3, <2>4 DEF IInv
<1>. QED
  BY <1>2, <1>3, <1>4, <1>5, <1>6, <1>7, <1>8, <1>9, <1>10, <1>11, NextCases

THEOREM OverlayInvariant == Spec => []IInv
<1>1. Init => IInv
  BY InitInvariant
<1>2. IInv /\ [Next]_vars => IInv'
  BY NextInvariant
<1>. QED
  BY <1>1, <1>2, PTL DEF Spec

(* Whatever operations, refreshes and crashes overlap, a live row of a     *)
(* path of which no exception is made has its backing file.                *)
THEOREM LiveRowsHaveFiles == Spec => []RowsHaveFiles
<1>1. IInv => RowsHaveFiles
  BY DEF IInv, Works, AtRest, Settled, RowsHaveFiles
<1>. QED
  BY <1>1, OverlayInvariant, PTL

(* Such a path shows what the last successful operation left there or, if  *)
(* nobody has a row for it, what the served tree has.                      *)
THEOREM WorkIsKept == Spec => []KeepsWork
<1>1. IInv => KeepsWork
  BY DEF IInv, Works, AtRest, Settled, KeepsWork
<1>. QED
  BY <1>1, OverlayInvariant, PTL

(* The rows a refresh has left are those that mean something in the tree   *)
(* it is about to serve.                                                   *)
THEOREM RefreshLeavesNothingStale == Spec => []NothingStale
<1>1. IInv => NothingStale
  BY DEF IInv
<1>. QED
  BY <1>1, OverlayInvariant, PTL
=============================================================================
