---------------------------- MODULE HeadRefresh ----------------------------
(***************************************************************************)
(* How a mounted repository follows HEAD.  Git moves HEAD and its branches *)
(* at any time; the watcher compares the mtimes of HEAD and of the current *)
(* branch's ref file every 500 ms; onHEADChanged publishes the new tree as *)
(* a generation of the snapshot, cleans old ones up, reconciles the overlay*)
(* and then serves the new generation.  Kernel operations take the number  *)
(* of the served generation and query its rows.  Another process that runs *)
(* add-repo on the same repository may publish into the same snapshot.     *)
(*                                                                         *)
(* A tree is named by its commit.  An mtime is kept only as the watcher    *)
(* sees it: never looked at, not later than the one it remembers, or later.*)
(* What Reconcile does to the overlay is in Overlay.                       *)
(***************************************************************************)
EXTENDS Naturals

CONSTANTS
  Branches, Commits,
  HEAD,        \* the file; also the place of the commit when HEAD is detached
  None,
  Readers,     \* kernel operations that resolve a path
  MaxEvents    \* bound on git's changes, add-repo commands and faults together

ASSUME HeadRefreshAssumption ==
  /\ HEAD \notin Branches
  /\ None \notin Commits
  /\ MaxEvents \in Nat

VARIABLES
  at,       \* the file HEAD's commit is in: a branch, or HEAD itself
  tip,      \* the commit in each file
  loose,    \* the branches with a file; the others are in packed-refs
  seen,     \* Poller.prev, compared with the file's mtime
  awaited,  \* Poller.firstSeenChange
  unwatched,\* history: the last poll lost the branch between its two looks
  cur,      \* current_generation
  rows,     \* the generations in base_nodes, each with its tree
  stored,   \* head_oid and head_ref
  served,   \* Resolver.generation
  state,    \* CurrentHEADOID and CurrentHEADRef of the runtime
  pc, loc,  \* the daemon's goroutine and the add-repo command
  reader,   \* per operation, the generation it took, or 0
  events,
  missed,   \* history: what went unnoticed, in the ways named below
  foreign   \* history: another process published after what is served

git     == <<at, tip, loose>>
poller  == <<seen, awaited, unwatched>>
snap    == <<cur, rows, stored>>
runtime == <<served, state>>
history == <<missed, foreign>>
vars    == <<git, poller, snap, runtime, pc, loc, reader, events, history>>

Files == Branches \cup {HEAD}
Heads == [oid : Commits, ref : Files]
Procs == {"daemon", "command"}
Locs  == [oid : Commits \cup {None}, ref : Files \cup {None}, gen : Nat]

MountSteps   == {"mount", "mountRef", "readGeneration", "readHead",
                 "mountPublish", "mountCleanup", "mountServe"}
Priming      == {"primeRead", "primeExists", "primeStat"}
Looking      == {"refRead", "refExists", "refStat"}
RefreshSteps == Priming \cup Looking \cup
                {"resolve", "resolveRef", "compare", "publish", "cleanup", "serve"}
Up == pc["daemon"] \notin MountSteps

(* Types of the state.                                                     *)
TypeOK ==
  /\ at \in Files /\ tip \in [Files -> Commits] /\ loose \subseteq Branches
  /\ seen \in [Files -> {"never", "current", "newer"}] /\ awaited \subseteq Branches
  /\ unwatched \in BOOLEAN
  /\ cur \in Nat /\ DOMAIN rows \subseteq 1..cur
  /\ \A g \in DOMAIN rows : rows[g] \in Commits
  /\ stored \in Heads \cup {None} /\ state \in Heads \cup {None}
  /\ served \in Nat
  /\ pc \in [Procs -> MountSteps \cup RefreshSteps \cup {"idle"}]
  /\ loc \in [Procs -> Locs]
  /\ reader \in [Readers -> Nat]
  /\ events \in 0..MaxEvents
  /\ missed \subseteq {"change", "checkout", "tree"} /\ foreign \in BOOLEAN

NoLoc  == [oid |-> None, ref |-> None, gen |-> 0]

Init ==
  /\ at \in Branches /\ tip \in [Files -> Commits] /\ loose \in SUBSET Branches
  /\ seen = [f \in Files |-> "never"] /\ awaited = {} /\ unwatched = FALSE
  /\ cur = 0 /\ rows = <<>> /\ stored = None
  /\ served = 0 /\ state = None
  /\ pc = [p \in Procs |-> IF p = "daemon" THEN "mount" ELSE "idle"]
  /\ loc = [p \in Procs |-> NoLoc]
  /\ reader = [r \in Readers |-> 0]
  /\ events = 0
  /\ missed = {} /\ foreign = FALSE

Goto(p, l) == pc' = [pc EXCEPT ![p] = l]
Done(p)    == Goto(p, "idle") /\ loc' = [loc EXCEPT ![p] = NoLoc]
Event      == events < MaxEvents /\ events' = events + 1

-----------------------------------------------------------------------------
(* Git.  A change is missed when it is made before the watcher's first poll*)
(* has looked at the file, or after a poll that lost the file between its  *)
(* two looks, or within the clock tick of the mtime that is remembered, or *)
(* when the file is packed away before the next poll.                      *)

(* The watcher's next look at f returns true.                              *)
Noticeable(f) ==
  \/ seen[f] = "newer" /\ f \in loose \cup {HEAD}
  \/ seen[f] = "never" /\ f \in awaited \cap loose

FirstPoll ==
  \/ seen[HEAD] = "never"
  \/ pc["daemon"] \in Looking /\ awaited = {} /\ \A b \in Branches : seen[b] = "never"

Unseen(b) == IF b THEN {"change"} ELSE {}

Write(f) ==
  /\ Event
  /\ loose' = loose \cup ({f} \ {HEAD})
  /\ \/ /\ seen' = [seen EXCEPT ![f] = IF seen[f] = "never" THEN "never" ELSE "newer"]
        /\ missed' = missed \cup Unseen(/\ FirstPoll \/ unwatched
                                       /\ seen[f] = "never" /\ f \notin awaited)
     \/ /\ seen[f] = "current"
        /\ missed' = missed \cup {"change"} \cup (IF f = HEAD THEN {"checkout"} ELSE {})
        /\ UNCHANGED seen
  /\ UNCHANGED <<awaited, unwatched, snap, runtime, pc, loc, reader, foreign>>

Commit(c) ==
  /\ tip[at] # c
  /\ tip' = [tip EXCEPT ![at] = c]
  /\ Write(at)
  /\ UNCHANGED at

Checkout(b) ==
  /\ at # b
  /\ at' = b
  /\ Write(HEAD)
  /\ UNCHANGED tip

Detach(c) ==
  /\ at' = HEAD
  /\ tip' = [tip EXCEPT ![HEAD] = c]
  /\ Write(HEAD)

PackRefs ==
  /\ Event
  /\ loose # {}
  /\ loose' = {}
  /\ missed' = missed \cup Unseen(Noticeable(at) /\ at # HEAD /\ ~Noticeable(HEAD))
  /\ UNCHANGED <<at, tip, poller, snap, runtime, pc, loc, reader, foreign>>

-----------------------------------------------------------------------------
(* ensurePreparedRepo, run by mountRepo and by add-repo.                   *)

(* ResolveHEAD is two git commands.  What happened before the first of the *)
(* two is not missed any more.                                             *)
RevParse(p, from, to) ==
  /\ pc[p] = from
  /\ loc' = [loc EXCEPT ![p] = [oid |-> tip[at], ref |-> None, gen |-> 0]]
  /\ missed' = IF p = "daemon" THEN missed \ {"change"} ELSE missed
  /\ Goto(p, to)
  /\ UNCHANGED <<git, poller, snap, runtime, reader, events, foreign>>

(* Any failure of the second is taken for a detached HEAD, without an      *)
(* error: the commit is followed, its branch is not.                       *)
SymbolicRef(p, from, to) ==
  /\ pc[p] = from
  /\ \/ loc' = [loc EXCEPT ![p].ref = at] /\ UNCHANGED <<missed, events>>
     \/ /\ Event
        /\ loc' = [loc EXCEPT ![p].ref = HEAD]
        /\ missed' = missed \cup Unseen(p = "daemon" /\ at # HEAD)
  /\ Goto(p, to)
  /\ UNCHANGED <<git, poller, snap, runtime, reader, foreign>>

(* ReadState asks for the generation first, then for what it was built of. *)
ReadGeneration(p) ==
  /\ pc[p] = "readGeneration"
  /\ loc' = [loc EXCEPT ![p].gen = cur]
  /\ Goto(p, "readHead")
  /\ UNCHANGED <<git, poller, snap, runtime, reader, events, history>>

ReadHead(p) ==
  /\ pc[p] = "readHead"
  /\ IF loc[p].gen = 0 \/ stored # [oid |-> loc[p].oid, ref |-> loc[p].ref]
       THEN Goto(p, "mountPublish") /\ UNCHANGED missed
       ELSE /\ Goto(p, "mountServe")
            /\ missed' = IF p = "daemon" /\ loc[p].gen # cur THEN missed \cup {"tree"} ELSE missed
  /\ UNCHANGED <<git, poller, snap, runtime, loc, reader, events, foreign>>

(* Mutant of PublishGeneration: the stored HEAD is inserted, not replaced. *)
PublishKeepingHead(p, from, to) ==
  /\ pc[p] = from
  /\ cur' = cur + 1
  /\ rows' = [g \in DOMAIN rows \cup {cur + 1} |-> IF g = cur + 1 THEN loc[p].oid ELSE rows[g]]
  /\ stored' = IF stored = None THEN [oid |-> loc[p].oid, ref |-> loc[p].ref] ELSE stored
  /\ loc' = [loc EXCEPT ![p].gen = cur + 1]
  /\ foreign' = (foreign \/ p = "command")
  /\ Goto(p, to)
  /\ UNCHANGED <<git, poller, runtime, reader, events, missed>>

(* PublishGeneration: one transaction, then the removal of the generations *)
(* before the previous one, whose failure is ignored.                      *)
PublishGeneration(p, from, to) ==
  /\ pc[p] = from
  /\ cur' = cur + 1
  /\ rows' = [g \in DOMAIN rows \cup {cur + 1} |-> IF g = cur + 1 THEN loc[p].oid ELSE rows[g]]
  /\ stored' = [oid |-> loc[p].oid, ref |-> loc[p].ref]
  /\ loc' = [loc EXCEPT ![p].gen = cur + 1]
  /\ foreign' = (foreign \/ p = "command")
  /\ Goto(p, to)
  /\ UNCHANGED <<git, poller, runtime, reader, events, missed>>

(* Mutant of Kept: off by one.                                             *)
KeptNewest(gen) == {g \in DOMAIN rows : gen > 2 => g >= gen}

Kept(gen) == {g \in DOMAIN rows : gen > 2 => g >= gen - 1}

Cleanup(p, from, to) ==
  /\ pc[p] = from
  /\ \/ rows' = [g \in Kept(loc[p].gen) |-> rows[g]] /\ UNCHANGED events
     \/ Event /\ UNCHANGED rows
  /\ Goto(p, to)
  /\ UNCHANGED <<git, poller, cur, stored, runtime, loc, reader, history>>

-----------------------------------------------------------------------------
(* The daemon mounts: it reconciles, serves the generation, remembers the  *)
(* HEAD it was built of and starts the watcher with nothing remembered.    *)
MountServe ==
  /\ pc["daemon"] = "mountServe"
  /\ served' = loc["daemon"].gen
  /\ state' = [oid |-> loc["daemon"].oid, ref |-> loc["daemon"].ref]
  /\ foreign' = (loc["daemon"].gen # cur)
  /\ Done("daemon")
  /\ UNCHANGED <<git, poller, snap, reader, events, missed>>

(* A crash, an unmount, or a step of the mount that fails; syncRepos mounts*)
(* again.                                                                  *)
Crash ==
  /\ Event
  /\ served' = 0 /\ state' = None
  /\ seen' = [f \in Files |-> "never"] /\ awaited' = {} /\ unwatched' = FALSE
  /\ reader' = [r \in Readers |-> 0]
  /\ Goto("daemon", "mount")
  /\ loc' = [loc EXCEPT !["daemon"] = NoLoc]
  /\ foreign' = FALSE /\ missed' = {}
  /\ UNCHANGED <<git, snap>>

-----------------------------------------------------------------------------
(* The watcher.                                                            *)

(* changed(HEAD): a change leads to the ref's priming and then to the      *)
(* refresh, no change to a look at the ref.                                *)
StatHead ==
  /\ pc["daemon"] = "idle"
  /\ seen' = [seen EXCEPT ![HEAD] = "current"]
  /\ IF Noticeable(HEAD)
       THEN Goto("daemon", "primeRead") /\ missed' = missed \ {"checkout"} /\ unwatched' = FALSE
       ELSE Goto("daemon", "refRead") /\ UNCHANGED <<missed, unwatched>>
  /\ UNCHANGED <<git, awaited, snap, runtime, loc, reader, events, foreign>>

(* After the look at the ref, HEAD's own change or the ref's is followed.  *)
Looked(changed) ==
  /\ Goto("daemon", IF pc["daemon"] \in Priming \/ changed THEN "resolve" ELSE "idle")
  /\ loc' = [loc EXCEPT !["daemon"] = NoLoc]

(* Mutant of ReadRef: HEAD is taken for a reference without a look.        *)
ReadRefUnchecked ==
  /\ pc["daemon"] \in {"primeRead", "refRead"}
  /\ Goto("daemon", IF pc["daemon"] = "primeRead" THEN "primeExists" ELSE "refExists")
  /\ loc' = [loc EXCEPT !["daemon"].ref = at]
  /\ UNCHANGED <<git, poller, snap, runtime, reader, events, history>>

(* headRefPath: the branch HEAD names by now, if it names one.             *)
ReadRef ==
  /\ pc["daemon"] \in {"primeRead", "refRead"}
  /\ \/ at = HEAD /\ Looked(FALSE)
     \/ /\ at # HEAD
        /\ Goto("daemon", IF pc["daemon"] = "primeRead" THEN "primeExists" ELSE "refExists")
        /\ loc' = [loc EXCEPT !["daemon"].ref = at]
  /\ UNCHANGED <<git, poller, snap, runtime, reader, events, history>>

(* currentRefChanged: the first look asks only whether there is a file.    *)
StatExists ==
  LET b == loc["daemon"].ref IN
  /\ pc["daemon"] \in {"primeExists", "refExists"}
  /\ \/ /\ b \in loose
        /\ Goto("daemon", IF pc["daemon"] = "primeExists" THEN "primeStat" ELSE "refStat")
        /\ UNCHANGED <<awaited, unwatched, loc>>
     \/ /\ b \notin loose
        /\ awaited' = awaited \cup {b}
        /\ unwatched' = FALSE
        /\ Looked(FALSE)
  /\ UNCHANGED <<git, seen, snap, runtime, reader, events, history>>

(* Mutant of StatRef: the new branch's ref is not primed.                  *)
StatRefUnprimed ==
  LET b == loc["daemon"].ref IN
  /\ pc["daemon"] \in {"primeStat", "refStat"}
  /\ Looked(Noticeable(b))
  /\ IF b \in loose /\ pc["daemon"] = "refStat"
       THEN seen' = [seen EXCEPT ![b] = "current"] /\ awaited' = awaited \ {b} /\ UNCHANGED unwatched
       ELSE UNCHANGED poller
  /\ UNCHANGED <<git, snap, runtime, reader, events, history>>

(* Mutant of StatRef: only HEAD is watched.                                *)
StatRefOfHEAD ==
  /\ pc["daemon"] \in {"primeStat", "refStat"}
  /\ Looked(FALSE)
  /\ UNCHANGED <<git, poller, snap, runtime, reader, events, history>>

(* changed, of the same branch: the second look.  If the ref was packed    *)
(* since the first, the branch is neither remembered nor awaited, unless an*)
(* earlier poll has seen to that.                                          *)
StatRef ==
  LET b == loc["daemon"].ref IN
  /\ pc["daemon"] \in {"primeStat", "refStat"}
  /\ Looked(Noticeable(b))
  /\ \/ /\ b \in loose
        /\ seen' = [seen EXCEPT ![b] = "current"]
        /\ awaited' = awaited \ {b}
        /\ unwatched' = FALSE
     \/ /\ b \notin loose
        /\ unwatched' = (unwatched \/ (seen[b] = "never" /\ b \notin awaited))
        /\ UNCHANGED <<seen, awaited>>
  /\ UNCHANGED <<git, snap, runtime, reader, events, history>>

-----------------------------------------------------------------------------
(* onHEADChanged, called by the watcher between two polls.                 *)

(* Git fails, or the tree is not published: the change is not retried.     *)
GiveUp ==
  /\ pc["daemon"] \in {"resolve", "publish"}
  /\ Event
  /\ missed' = missed \cup {"change"}
  /\ Done("daemon")
  /\ UNCHANGED <<git, poller, snap, runtime, reader, foreign>>

(* The same commit under another ref needs no new tree; the ref is stored, *)
(* or the failure to do so logged.                                         *)
Compare ==
  LET to == loc["daemon"] IN
  /\ pc["daemon"] = "compare"
  /\ IF to.oid # state.oid
       THEN Goto("daemon", "publish") /\ UNCHANGED <<stored, state, loc, events>>
       ELSE /\ Done("daemon")
            /\ state' = [state EXCEPT !.ref = to.ref]
            /\ \/ to.ref = state.ref /\ UNCHANGED <<stored, events>>
               \/ to.ref # state.ref /\ stored' = [stored EXCEPT !.ref = to.ref] /\ UNCHANGED events
               \/ to.ref # state.ref /\ Event /\ UNCHANGED stored
  /\ UNCHANGED <<git, poller, cur, rows, served, reader, history>>

(* Reconcile and read-tree look up the new generation while the old one is *)
(* served; their failures are logged.                                      *)
SetGeneration ==
  /\ pc["daemon"] = "serve"
  /\ served' = loc["daemon"].gen
  /\ state' = [oid |-> loc["daemon"].oid, ref |-> loc["daemon"].ref]
  /\ foreign' = (loc["daemon"].gen # cur)
  /\ missed' = missed \ {"tree"}
  /\ Done("daemon")
  /\ UNCHANGED <<git, poller, snap, reader, events>>

-----------------------------------------------------------------------------
(* add-repo of the same repository in another process.                     *)

AddRepo ==
  /\ pc["command"] = "idle"
  /\ Event
  /\ Goto("command", "mount")
  /\ UNCHANGED <<git, poller, snap, runtime, loc, reader, history>>

Exit ==
  /\ pc["command"] = "mountServe"
  /\ Done("command")
  /\ UNCHANGED <<git, poller, snap, runtime, reader, events, history>>

Abort ==
  /\ Event
  /\ pc["command"] # "idle"
  /\ Done("command")
  /\ UNCHANGED <<git, poller, snap, runtime, reader, history>>

-----------------------------------------------------------------------------
(* ResolvePath and ReaddirTyped for a path without a row in the overlay:   *)
(* the number of the generation, then its rows.                            *)

TakeGeneration(r) ==
  /\ Up
  /\ reader[r] = 0
  /\ reader' = [reader EXCEPT ![r] = served]
  /\ UNCHANGED <<git, poller, snap, runtime, pc, loc, events, history>>

(* The rows are queried; what is found is TreeOf(reader[r]).               *)
GetNode(r) ==
  /\ reader[r] # 0
  /\ reader' = [reader EXCEPT ![r] = 0]
  /\ UNCHANGED <<git, poller, snap, runtime, pc, loc, events, history>>

TreeOf(gen) == IF gen \in DOMAIN rows THEN rows[gen] ELSE None

-----------------------------------------------------------------------------
EnsurePrepared(p) ==
  \/ RevParse(p, "mount", "mountRef")
  \/ SymbolicRef(p, "mountRef", "readGeneration")
  \/ ReadGeneration(p)
  \/ ReadHead(p)
  \/ PublishGeneration(p, "mountPublish", "mountCleanup")
  \/ Cleanup(p, "mountCleanup", "mountServe")

Poll == StatHead \/ ReadRef \/ StatExists \/ StatRef

OnHEADChanged ==
  \/ RevParse("daemon", "resolve", "resolveRef")
  \/ SymbolicRef("daemon", "resolveRef", "compare")
  \/ Compare
  \/ PublishGeneration("daemon", "publish", "cleanup")
  \/ Cleanup("daemon", "cleanup", "serve")
  \/ SetGeneration

Daemon  == EnsurePrepared("daemon") \/ MountServe \/ Poll \/ OnHEADChanged
Command == EnsurePrepared("command") \/ Exit
Git     == (\E c \in Commits : Commit(c) \/ Detach(c)) \/ (\E b \in Branches : Checkout(b)) \/ PackRefs

Next ==
  \/ Daemon \/ Command \/ Git
  \/ AddRepo \/ Crash \/ GiveUp \/ Abort
  \/ \E r \in Readers : TakeGeneration(r) \/ GetNode(r)

Spec == Init /\ [][Next]_vars

(* The goroutine of the watcher polls on a ticker and the commands run.    *)
Fairness == WF_vars(Daemon) /\ WF_vars(Command)

FairSpec == Spec /\ Fairness

-----------------------------------------------------------------------------
(* The current generation is the tree of the commit stored with it, which  *)
(* is what lets the next mount serve it without building it again.         *)
StoredDescribesTree ==
  cur > 0 => cur \in DOMAIN rows /\ stored \in Heads /\ stored.oid = rows[cur]

(* Unless another process published since, the generation that is served   *)
(* has its rows: cleaning up spares it while its successor is reconciled.  *)
ServedIsKept ==
  Up /\ ~foreign => served \in DOMAIN rows

(* An operation finds no tree only when two generations were published     *)
(* since it took the number: one refresh under way never empties a lookup. *)
GoneOnlyWhenOvertaken ==
  \A r \in Readers :
    reader[r] # 0 /\ TreeOf(reader[r]) = None => cur >= reader[r] + 2

(* Cleaning up spares what is served and what a lookup is about to read.   *)
TreesAreKept == ServedIsKept /\ GoneOnlyWhenOvertaken

(* The tree that is served, if its rows are there, is HEAD's.              *)
FollowsHEAD ==
  /\ state = [oid |-> tip[at], ref |-> at]
  /\ TreeOf(served) = tip[at] \/ (foreign /\ TreeOf(served) = None)

(* Between polls, with no change that the watcher would notice at its next *)
(* look, the repository shows HEAD's commit and names its ref: whatever    *)
(* order git's writes, the watcher's looks and the two git commands came in*)
(* (missed names the ways the watcher and the refresh do miss a change).   *)
NothingUnnoticed ==
  pc["daemon"] = "idle" /\ missed = {} /\ ~Noticeable(HEAD) /\ ~(at # HEAD /\ Noticeable(at))
    => FollowsHEAD

(* Once HEAD stays where it is, the mount comes to show it and goes on to. *)
SettlesOnHEAD == <>[](missed # {} \/ FollowsHEAD)
=============================================================================
