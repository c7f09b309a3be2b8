------------------------- MODULE HeadRefreshProofs -------------------------
(***************************************************************************)
(* Proofs about HeadRefresh, for any branches, commits, kernel operations  *)
(* and bound on the events.                                                *)
(***************************************************************************)
EXTENDS HeadRefresh, TLAPS

(* What a process has found out when it comes to act on it.                *)
LocSound(p) ==
  /\ pc[p] \notin {"idle", "mount", "resolve"} \cup Priming \cup Looking => loc[p].oid \in Commits
  /\ pc[p] \in {"primeExists", "primeStat", "refExists", "refStat"} => loc[p].ref \in Branches
  /\ pc[p] \in {"readGeneration", "readHead", "mountPublish", "mountCleanup", "mountServe",
                "compare", "publish", "cleanup", "serve"} => loc[p].ref \in Files
  /\ pc[p] \in {"mountCleanup", "mountServe", "cleanup", "serve"} => loc[p].gen > 0

(* Nobody knows a generation that is not published.                        *)
NotAhead ==
  /\ served <= cur
  /\ \A p \in Procs : loc[p].gen <= cur
  /\ \A r \in Readers : reader[r] <= cur

(* The two latest generations have their rows.                             *)
LatestKept == \A g \in 1..cur : g \in DOMAIN rows \/ g + 2 <= cur

(* What a mounted repository serves: the latest generation, or the one     *)
(* before while the daemon is on its way to serve the latest.              *)
ServedSound ==
  Up =>
    /\ state \in Heads
    /\ served > 0
    /\ ~foreign => \/ served = cur
                   \/ /\ served = cur - 1
                      /\ pc["daemon"] \in {"cleanup", "serve"}
                      /\ loc["daemon"].gen = cur

IInv ==
  /\ TypeOK
  /\ \A p \in Procs : LocSound(p)
  /\ NotAhead
  /\ LatestKept
  /\ StoredDescribesTree
  /\ ServedSound
USE HeadRefreshAssumption

-----------------------------------------------------------------------------
(* Nothing is mounted and nothing is published.                            *)
LEMMA Initially == Init => IInv
<1> SUFFICES ASSUME Init PROVE IInv
  OBVIOUS
<1> USE DEF Init
<1>a. DOMAIN rows = {}
  BY DEF Init
<1>b. NoLoc \in Locs
  BY DEF NoLoc, Locs
<1>c. pc \in [Procs -> MountSteps \cup RefreshSteps \cup {"idle"}]
  BY DEF MountSteps
<1>d. /\ at \in Files /\ tip \in [Files -> Commits] /\ loose \subseteq Branches
      /\ seen \in [Files -> {"never", "current", "newer"}] /\ awaited \subseteq Branches
      /\ loc \in [Procs -> Locs] /\ reader \in [Readers -> Nat]
  BY <1>b DEF Files
<1>e. cur \in Nat /\ served \in Nat /\ events \in 0..MaxEvents
  BY HeadRefreshAssumption DEF HeadRefreshAssumption
<1>f. missed \subseteq {"change", "checkout", "tree"} /\ foreign \in BOOLEAN
  OBVIOUS
<1>1. TypeOK
  BY <1>a, <1>c, <1>d, <1>e, <1>f DEF TypeOK
<1>2. \A p \in Procs : LocSound(p)
  BY DEF LocSound, Procs
<1>3. NotAhead /\ LatestKept /\ StoredDescribesTree
  BY DEF NotAhead, LatestKept, StoredDescribesTree, NoLoc, Procs
<1>4. ServedSound
  BY DEF ServedSound, Up, MountSteps, Procs
<1> QED
  BY <1>1, <1>2, <1>3, <1>4 DEF IInv

-----------------------------------------------------------------------------
(* Every step keeps the types.                                             *)
LEMMA TypeStep == IInv /\ [Next]_vars => TypeOK'
<1> SUFFICES ASSUME IInv, [Next]_vars PROVE TypeOK'
  OBVIOUS
<1> USE DEF IInv, TypeOK, git, poller, snap, runtime, history
<1>1. ASSUME NEW p \in Procs, NEW from \in {"mount", "resolve"},
                 NEW to \in {"mountRef", "resolveRef"}, from = "mount" <=> to = "mountRef",
                 RevParse(p, from, to)
      PROVE  TypeOK'
  BY <1>1 DEF RevParse, Goto, Files, Procs, Locs, MountSteps, RefreshSteps, Priming, Looking, Heads, LocSound, ServedSound, Up, NotAhead, StoredDescribesTree
<1>2. ASSUME NEW p \in Procs, NEW from \in {"mountRef", "resolveRef"},
                 NEW to \in {"readGeneration", "compare"}, from = "mountRef" <=> to = "readGeneration",
                 SymbolicRef(p, from, to)
      PROVE  TypeOK'
  BY <1>2 DEF SymbolicRef, Event, Unseen, Goto, Files, Procs, Locs, MountSteps, RefreshSteps, Priming, Looking, Heads, LocSound, ServedSound, Up, NotAhead, StoredDescribesTree
<1>3. ASSUME NEW p \in Procs, ReadGeneration(p)
      PROVE  TypeOK'
  BY <1>3 DEF ReadGeneration, Goto, Files, Procs, Locs, MountSteps, RefreshSteps, Priming, Looking, Heads, LocSound, ServedSound, Up, NotAhead, StoredDescribesTree
<1>4. ASSUME NEW p \in Procs, ReadHead(p)
      PROVE  TypeOK'
  <2>1. missed' \subseteq {"change", "checkout", "tree"}
    BY <1>4 DEF ReadHead
  <2>2. pc' \in [Procs -> MountSteps \cup RefreshSteps \cup {"idle"}]
    BY <1>4 DEF ReadHead, Goto, MountSteps, RefreshSteps, Priming, Looking
  <2> QED
    BY <1>4, <2>1, <2>2 DEF ReadHead
<1>5. ASSUME NEW p \in Procs, NEW from \in {"mountPublish", "publish"},
                 NEW to \in {"mountCleanup", "cleanup"}, from = "publish" <=> to = "cleanup",
                 PublishGeneration(p, from, to)
      PROVE  TypeOK'
  BY <1>5 DEF PublishGeneration, Goto, Files, Procs, Locs, MountSteps, RefreshSteps, Priming, Looking, Heads, LocSound, ServedSound, Up, NotAhead, StoredDescribesTree
<1>6. ASSUME NEW p \in Procs, NEW from \in {"mountCleanup", "cleanup"},
                 NEW to \in {"mountServe", "serve"}, from = "cleanup" <=> to = "serve",
                 Cleanup(p, from, to)
      PROVE  TypeOK'
  BY <1>6 DEF Cleanup, Kept, Event, Goto, Files, Procs, Locs, MountSteps, RefreshSteps, Priming, Looking, Heads, LocSound, ServedSound, Up, NotAhead, StoredDescribesTree
<1>7. CASE MountServe
  BY <1>7 DEF MountServe, Done, Goto, NoLoc, Files, Procs, Locs, MountSteps, RefreshSteps, Priming, Looking, Heads, LocSound, ServedSound, Up, NotAhead, StoredDescribesTree
<1>8. CASE StatHead
  <2>1. pc' \in [Procs -> MountSteps \cup RefreshSteps \cup {"idle"}]
    BY <1>8 DEF StatHead, Goto, RefreshSteps, Priming, Looking
  <2>2. seen' \in [Files -> {"never", "current", "newer"}]
    BY <1>8 DEF StatHead
  <2>3. missed' \subseteq {"change", "checkout", "tree"} /\ unwatched' \in BOOLEAN
    BY <1>8 DEF StatHead
  <2> QED
    BY <1>8, <2>1, <2>2, <2>3 DEF StatHead
<1>9. CASE StatRef
  <2>1. loc["daemon"].ref \in Branches /\ NoLoc \in Locs
    BY <1>9 DEF StatRef, LocSound, Procs, NoLoc, Locs
  <2>2. pc' \in [Procs -> MountSteps \cup RefreshSteps \cup {"idle"}] /\ loc' \in [Procs -> Locs]
    BY <1>9, <2>1 DEF StatRef, Looked, Goto, RefreshSteps
  <2>3. missed' \subseteq {"change", "checkout", "tree"}
    BY <1>9 DEF StatRef
  <2>4. /\ seen' \in [Files -> {"never", "current", "newer"}] /\ awaited' \subseteq Branches
        /\ unwatched' \in BOOLEAN
    BY <1>9, <2>1 DEF StatRef
  <2> QED
    BY <1>9, <2>2, <2>3, <2>4 DEF StatRef
<1>24. CASE ReadRef
  <2>1. NoLoc \in Locs
    BY DEF NoLoc, Locs
  <2>2. pc' \in [Procs -> MountSteps \cup RefreshSteps \cup {"idle"}]
    BY <1>24 DEF ReadRef, Looked, Goto, RefreshSteps, Priming, Looking
  <2>3. loc' \in [Procs -> Locs]
    BY <1>24, <2>1 DEF ReadRef, Looked, Locs
  <2> QED
    BY <1>24, <2>2, <2>3 DEF ReadRef
<1>25. CASE StatExists
  <2>1. loc["daemon"].ref \in Branches /\ NoLoc \in Locs
    BY <1>25 DEF StatExists, LocSound, Procs, NoLoc, Locs
  <2>2. pc' \in [Procs -> MountSteps \cup RefreshSteps \cup {"idle"}]
    BY <1>25 DEF StatExists, Looked, Goto, RefreshSteps, Priming, Looking
  <2>3. loc' \in [Procs -> Locs] /\ missed' \subseteq {"change", "checkout", "tree"}
    BY <1>25, <2>1 DEF StatExists, Looked
  <2>4. awaited' \subseteq Branches
    BY <1>25, <2>1 DEF StatExists
  <2> QED
    BY <1>25, <2>2, <2>3, <2>4 DEF StatExists
<1>10. CASE Compare
  BY <1>10 DEF Compare, Done, Goto, NoLoc, Event, Files, Procs, Locs, MountSteps, RefreshSteps, Priming, Looking, Heads, LocSound, ServedSound, Up, NotAhead, StoredDescribesTree
<1>11. CASE SetGeneration
  BY <1>11 DEF SetGeneration, Done, Goto, NoLoc, Files, Procs, Locs, MountSteps, RefreshSteps, Priming, Looking, Heads, LocSound, ServedSound, Up, NotAhead, StoredDescribesTree
<1>12. CASE Exit
  BY <1>12 DEF Exit, Done, Goto, NoLoc, Files, Procs, Locs, MountSteps, RefreshSteps, Priming, Looking, Heads, LocSound, ServedSound, Up, NotAhead, StoredDescribesTree
<1>13. ASSUME NEW c \in Commits, Commit(c)
      PROVE  TypeOK'
  <2>1. missed' \subseteq {"change", "checkout", "tree"} /\ loose' \subseteq Branches
    BY <1>13 DEF Commit, Write, Unseen, Event, Files
  <2> QED
    BY <1>13, <2>1 DEF Commit, Write, Unseen, Event, Files
<1>14. ASSUME NEW c \in Commits, Detach(c)
      PROVE  TypeOK'
  <2>1. missed' \subseteq {"change", "checkout", "tree"} /\ loose' \subseteq Branches
    BY <1>14 DEF Detach, Write, Unseen, Event, Files
  <2> QED
    BY <1>14, <2>1 DEF Detach, Write, Unseen, Event, Files
<1>15. ASSUME NEW b \in Branches, Checkout(b)
      PROVE  TypeOK'
  <2>1. missed' \subseteq {"change", "checkout", "tree"} /\ loose' \subseteq Branches
    BY <1>15 DEF Checkout, Write, Unseen, Event, Files
  <2> QED
    BY <1>15, <2>1 DEF Checkout, Write, Unseen, Event, Files
<1>16. CASE PackRefs
  <2>1. missed' \subseteq {"change", "checkout", "tree"} /\ loose' \subseteq Branches
    BY <1>16 DEF PackRefs, Unseen, Event, Files
  <2> QED
    BY <1>16, <2>1 DEF PackRefs, Unseen, Event, Files
<1>17. CASE AddRepo
  BY <1>17 DEF AddRepo, Event, Goto, Files, Procs, Locs, MountSteps, RefreshSteps, Priming, Looking, Heads, LocSound, ServedSound, Up, NotAhead, StoredDescribesTree
<1>18. CASE Crash
  <2>1. NoLoc \in Locs
    BY DEF NoLoc, Locs
  <2>2. pc' \in [Procs -> MountSteps \cup RefreshSteps \cup {"idle"}]
    BY <1>18 DEF Crash, Goto, MountSteps
  <2>3. loc' \in [Procs -> Locs]
    BY <1>18, <2>1 DEF Crash
  <2>4. seen' \in [Files -> {"never", "current", "newer"}] /\ reader' \in [Readers -> Nat]
    BY <1>18 DEF Crash
  <2>5. events' \in 0..MaxEvents
    BY <1>18 DEF Crash, Event
  <2> QED
    BY <1>18, <2>2, <2>3, <2>4, <2>5 DEF Crash
<1>19. CASE GiveUp
  BY <1>19 DEF GiveUp, Event, Done, Goto, NoLoc, Files, Procs, Locs, MountSteps, RefreshSteps, Priming, Looking, Heads, LocSound, ServedSound, Up, NotAhead, StoredDescribesTree
<1>20. CASE Abort
  BY <1>20 DEF Abort, Event, Done, Goto, NoLoc, Files, Procs, Locs, MountSteps, RefreshSteps, Priming, Looking, Heads, LocSound, ServedSound, Up, NotAhead, StoredDescribesTree
<1>21. ASSUME NEW r \in Readers, TakeGeneration(r)
      PROVE  TypeOK'
  BY <1>21 DEF TakeGeneration, Files, Procs, Locs, MountSteps, RefreshSteps, Priming, Looking, Heads, LocSound, ServedSound, Up, NotAhead, StoredDescribesTree
<1>22. ASSUME NEW r \in Readers, GetNode(r)
      PROVE  TypeOK'
  BY <1>22 DEF GetNode, Files, Procs, Locs, MountSteps, RefreshSteps, Priming, Looking, Heads, LocSound, ServedSound, Up, NotAhead, StoredDescribesTree
<1>23. CASE UNCHANGED vars
  BY <1>23 DEF vars, Files, Procs, Locs, MountSteps, RefreshSteps, Priming, Looking, Heads, LocSound, ServedSound, Up, NotAhead, StoredDescribesTree
<1> QED
  BY <1>1, <1>2, <1>3, <1>4, <1>5, <1>6, <1>7, <1>8, <1>9, <1>10, <1>11, <1>12, <1>13, <1>14, <1>15, <1>16, <1>17, <1>18, <1>19, <1>20, <1>21, <1>22, <1>23, <1>24, <1>25
  DEF Next, Daemon, Poll, Command, EnsurePrepared, OnHEADChanged, Git, Procs

(* A process reaches a step with what the step needs.                      *)
LEMMA LocStep == IInv /\ [Next]_vars => \A q \in Procs : LocSound(q)'
<1> SUFFICES ASSUME IInv, [Next]_vars, NEW q \in Procs PROVE LocSound(q)'
  OBVIOUS
<1> USE DEF IInv, TypeOK, git, poller, snap, runtime, history, LocSound, Priming, Looking
<1>1. ASSUME NEW p \in Procs, NEW from \in {"mount", "resolve"},
                 NEW to \in {"mountRef", "resolveRef"}, from = "mount" <=> to = "mountRef",
                 RevParse(p, from, to)
      PROVE  LocSound(q)'
  BY <1>1 DEF RevParse, Goto, Files, Procs, Locs, Heads
<1>2. ASSUME NEW p \in Procs, NEW from \in {"mountRef", "resolveRef"},
                 NEW to \in {"readGeneration", "compare"}, from = "mountRef" <=> to = "readGeneration",
                 SymbolicRef(p, from, to)
      PROVE  LocSound(q)'
  BY <1>2 DEF SymbolicRef, Event, Unseen, Goto, Files, Procs, Locs, Heads
<1>3. ASSUME NEW p \in Procs, ReadGeneration(p)
      PROVE  LocSound(q)'
  BY <1>3 DEF ReadGeneration, Goto, Files, Procs, Locs, Heads
<1>4. ASSUME NEW p \in Procs, ReadHead(p)
      PROVE  LocSound(q)'
  BY <1>4 DEF ReadHead, Goto, Files, Procs, Locs, Heads
<1>5. ASSUME NEW p \in Procs, NEW from \in {"mountPublish", "publish"},
                 NEW to \in {"mountCleanup", "cleanup"}, from = "publish" <=> to = "cleanup",
                 PublishGeneration(p, from, to)
      PROVE  LocSound(q)'
  BY <1>5 DEF PublishGeneration, Goto, Files, Procs, Locs, Heads
<1>6. ASSUME NEW p \in Procs, NEW from \in {"mountCleanup", "cleanup"},
                 NEW to \in {"mountServe", "serve"}, from = "cleanup" <=> to = "serve",
                 Cleanup(p, from, to)
      PROVE  LocSound(q)'
  BY <1>6 DEF Cleanup, Kept, Event, Goto, Files, Procs, Locs, Heads
<1>7. CASE MountServe
  BY <1>7 DEF MountServe, Done, Goto, NoLoc, Files, Procs, Locs, Heads
<1>8. CASE StatHead
  BY <1>8 DEF StatHead, Goto, Files, Procs, Locs, Heads
<1>9. CASE StatRef
  BY <1>9 DEF StatRef, Looked, Goto, NoLoc, Priming, Looking, Files, Procs, Locs, Heads
<1>24. CASE ReadRef
  BY <1>24 DEF ReadRef, Looked, Goto, NoLoc, Priming, Looking, Files, Procs, Locs, Heads
<1>25. CASE StatExists
  BY <1>25 DEF StatExists, Looked, Goto, NoLoc, Priming, Looking, Files, Procs, Locs, Heads
<1>10. CASE Compare
  BY <1>10 DEF Compare, Done, Goto, NoLoc, Event, Files, Procs, Locs, Heads
<1>11. CASE SetGeneration
  BY <1>11 DEF SetGeneration, Done, Goto, NoLoc, Files, Procs, Locs, Heads
<1>12. CASE Exit
  BY <1>12 DEF Exit, Done, Goto, NoLoc, Files, Procs, Locs, Heads
<1>13. ASSUME NEW c \in Commits, Commit(c)
      PROVE  LocSound(q)'
  BY <1>13 DEF Commit, Write, Unseen, Event, Files, Procs, Locs, Heads
<1>14. ASSUME NEW c \in Commits, Detach(c)
      PROVE  LocSound(q)'
  BY <1>14 DEF Detach, Write, Unseen, Event, Files, Procs, Locs, Heads
<1>15. ASSUME NEW b \in Branches, Checkout(b)
      PROVE  LocSound(q)'
  BY <1>15 DEF Checkout, Write, Unseen, Event, Files, Procs, Locs, Heads
<1>16. CASE PackRefs
  BY <1>16 DEF PackRefs, Unseen, Event, Files, Procs, Locs, Heads
<1>17. CASE AddRepo
  BY <1>17 DEF AddRepo, Event, Goto, Files, Procs, Locs, Heads
<1>18. CASE Crash
  BY <1>18 DEF Crash, Event, Goto, NoLoc, Files, Procs, Locs, Heads
<1>19. CASE GiveUp
  BY <1>19 DEF GiveUp, Event, Done, Goto, NoLoc, Files, Procs, Locs, Heads
<1>20. CASE Abort
  BY <1>20 DEF Abort, Event, Done, Goto, NoLoc, Files, Procs, Locs, Heads
<1>21. ASSUME NEW r \in Readers, TakeGeneration(r)
      PROVE  LocSound(q)'
  BY <1>21 DEF TakeGeneration, Files, Procs, Locs, Heads
<1>22. ASSUME NEW r \in Readers, GetNode(r)
      PROVE  LocSound(q)'
  BY <1>22 DEF GetNode, Files, Procs, Locs, Heads
<1>23. CASE UNCHANGED vars
  BY <1>23 DEF vars, Files, Procs, Locs, Heads
<1> QED
  BY <1>1, <1>2, <1>3, <1>4, <1>5, <1>6, <1>7, <1>8, <1>9, <1>10, <1>11, <1>12, <1>13, <1>14, <1>15, <1>16, <1>17, <1>18, <1>19, <1>20, <1>21, <1>22, <1>23, <1>24, <1>25
  DEF Next, Daemon, Poll, Command, EnsurePrepared, OnHEADChanged, Git, Procs

(* Generations only grow.                                                  *)
LEMMA AheadStep == IInv /\ [Next]_vars => NotAhead'
<1> SUFFICES ASSUME IInv, [Next]_vars PROVE NotAhead'
  OBVIOUS
<1> USE DEF IInv, TypeOK, git, poller, snap, runtime, history, NotAhead
<1>1. ASSUME NEW p \in Procs, NEW from \in {"mount", "resolve"},
                 NEW to \in {"mountRef", "resolveRef"}, from = "mount" <=> to = "mountRef",
                 RevParse(p, from, to)
      PROVE  NotAhead'
  BY <1>1 DEF RevParse, Goto, Procs, Locs
<1>2. ASSUME NEW p \in Procs, NEW from \in {"mountRef", "resolveRef"},
                 NEW to \in {"readGeneration", "compare"}, from = "mountRef" <=> to = "readGeneration",
                 SymbolicRef(p, from, to)
      PROVE  NotAhead'
  BY <1>2 DEF SymbolicRef, Event, Unseen, Goto, Procs, Locs
<1>3. ASSUME NEW p \in Procs, ReadGeneration(p)
      PROVE  NotAhead'
  BY <1>3 DEF ReadGeneration, Goto, Procs, Locs
<1>4. ASSUME NEW p \in Procs, ReadHead(p)
      PROVE  NotAhead'
  BY <1>4 DEF ReadHead, Goto, Procs, Locs
<1>5. ASSUME NEW p \in Procs, NEW from \in {"mountPublish", "publish"},
                 NEW to \in {"mountCleanup", "cleanup"}, from = "publish" <=> to = "cleanup",
                 PublishGeneration(p, from, to)
      PROVE  NotAhead'
  BY <1>5 DEF PublishGeneration, Goto, Procs, Locs
<1>6. ASSUME NEW p \in Procs, NEW from \in {"mountCleanup", "cleanup"},
                 NEW to \in {"mountServe", "serve"}, from = "cleanup" <=> to = "serve",
                 Cleanup(p, from, to)
      PROVE  NotAhead'
  BY <1>6 DEF Cleanup, Kept, Event, Goto, Procs, Locs
<1>7. CASE MountServe
  BY <1>7 DEF MountServe, Done, Goto, NoLoc, Procs, Locs
<1>8. CASE StatHead
  BY <1>8 DEF StatHead, Goto, Procs, Locs
<1>9. CASE StatRef
  BY <1>9 DEF StatRef, Looked, Goto, NoLoc, Priming, Looking, Procs, Locs
<1>24. CASE ReadRef
  BY <1>24 DEF ReadRef, Looked, Goto, NoLoc, Priming, Looking, Procs, Locs
<1>25. CASE StatExists
  BY <1>25 DEF StatExists, Looked, Goto, NoLoc, Priming, Looking, Procs, Locs
<1>10. CASE Compare
  BY <1>10 DEF Compare, Done, Goto, NoLoc, Event, Procs, Locs
<1>11. CASE SetGeneration
  BY <1>11 DEF SetGeneration, Done, Goto, NoLoc, Procs, Locs
<1>12. CASE Exit
  BY <1>12 DEF Exit, Done, Goto, NoLoc, Procs, Locs
<1>13. ASSUME NEW c \in Commits, Commit(c)
      PROVE  NotAhead'
  BY <1>13 DEF Commit, Write, Unseen, Event, Procs, Locs
<1>14. ASSUME NEW c \in Commits, Detach(c)
      PROVE  NotAhead'
  BY <1>14 DEF Detach, Write, Unseen, Event, Procs, Locs
<1>15. ASSUME NEW b \in Branches, Checkout(b)
      PROVE  NotAhead'
  BY <1>15 DEF Checkout, Write, Unseen, Event, Procs, Locs
<1>16. CASE PackRefs
  BY <1>16 DEF PackRefs, Unseen, Event, Procs, Locs
<1>17. CASE AddRepo
  BY <1>17 DEF AddRepo, Event, Goto, Procs, Locs
<1>18. CASE Crash
  BY <1>18 DEF Crash, Event, Goto, NoLoc, Procs, Locs
<1>19. CASE GiveUp
  BY <1>19 DEF GiveUp, Event, Done, Goto, NoLoc, Procs, Locs
<1>20. CASE Abort
  BY <1>20 DEF Abort, Event, Done, Goto, NoLoc, Procs, Locs
<1>21. ASSUME NEW r \in Readers, TakeGeneration(r)
      PROVE  NotAhead'
  BY <1>21 DEF TakeGeneration, Procs, Locs
<1>22. ASSUME NEW r \in Readers, GetNode(r)
      PROVE  NotAhead'
  BY <1>22 DEF GetNode, Procs, Locs
<1>23. CASE UNCHANGED vars
  BY <1>23 DEF vars, Procs, Locs
<1> QED
  BY <1>1, <1>2, <1>3, <1>4, <1>5, <1>6, <1>7, <1>8, <1>9, <1>10, <1>11, <1>12, <1>13, <1>14, <1>15, <1>16, <1>17, <1>18, <1>19, <1>20, <1>21, <1>22, <1>23, <1>24, <1>25
  DEF Next, Daemon, Poll, Command, EnsurePrepared, OnHEADChanged, Git, Procs

(* A publication adds its rows and the HEAD they were built of; cleaning up*)
(* spares the generation that was the latest when it was published and the *)
(* one before, hence also the two latest of now.                           *)
LEMMA SnapshotStep == IInv /\ [Next]_vars => (LatestKept /\ StoredDescribesTree)'
<1> SUFFICES ASSUME IInv, [Next]_vars PROVE (LatestKept /\ StoredDescribesTree)'
  OBVIOUS
<1> USE DEF IInv, TypeOK, git, poller, snap, runtime, history, LatestKept, StoredDescribesTree, Priming, Looking
<1>1. ASSUME NEW p \in Procs, NEW from \in {"mount", "resolve"},
                 NEW to \in {"mountRef", "resolveRef"}, from = "mount" <=> to = "mountRef",
                 RevParse(p, from, to)
      PROVE  (LatestKept /\ StoredDescribesTree)'
  BY <1>1 DEF RevParse, Goto, Procs, Locs, Heads, NotAhead, LocSound
<1>2. ASSUME NEW p \in Procs, NEW from \in {"mountRef", "resolveRef"},
                 NEW to \in {"readGeneration", "compare"}, from = "mountRef" <=> to = "readGeneration",
                 SymbolicRef(p, from, to)
      PROVE  (LatestKept /\ StoredDescribesTree)'
  BY <1>2 DEF SymbolicRef, Event, Unseen, Goto, Procs, Locs, Heads, NotAhead, LocSound
<1>3. ASSUME NEW p \in Procs, ReadGeneration(p)
      PROVE  (LatestKept /\ StoredDescribesTree)'
  BY <1>3 DEF ReadGeneration, Goto, Procs, Locs, Heads, NotAhead, LocSound
<1>4. ASSUME NEW p \in Procs, ReadHead(p)
      PROVE  (LatestKept /\ StoredDescribesTree)'
  BY <1>4 DEF ReadHead, Goto, Procs, Locs, Heads, NotAhead, LocSound
<1>5. ASSUME NEW p \in Procs, NEW from \in {"mountPublish", "publish"},
                 NEW to \in {"mountCleanup", "cleanup"}, from = "publish" <=> to = "cleanup",
                 PublishGeneration(p, from, to)
      PROVE  (LatestKept /\ StoredDescribesTree)'
  <2>1. cur' = cur + 1 /\ DOMAIN rows' = DOMAIN rows \cup {cur + 1}
    BY <1>5 DEF PublishGeneration
  <2>2. LatestKept'
    BY <2>1
  <2>3. stored' = [oid |-> loc[p].oid, ref |-> loc[p].ref] /\ rows'[cur'] = loc[p].oid
    BY <1>5, <2>1 DEF PublishGeneration
  <2>4. loc[p].oid \in Commits /\ loc[p].ref \in Files
    BY <1>5 DEF PublishGeneration, LocSound
  <2> QED
    BY <2>1, <2>2, <2>3, <2>4 DEF Heads
<1>6. ASSUME NEW p \in Procs, NEW from \in {"mountCleanup", "cleanup"},
                 NEW to \in {"mountServe", "serve"}, from = "cleanup" <=> to = "serve",
                 Cleanup(p, from, to)
      PROVE  (LatestKept /\ StoredDescribesTree)'
  <2>1. CASE rows' = [g \in Kept(loc[p].gen) |-> rows[g]] /\ UNCHANGED <<cur, stored>>
    <3>1. DOMAIN rows' = Kept(loc[p].gen)
      BY <2>1
    <3>2. loc[p].gen <= cur /\ loc[p].gen \in Nat
      BY DEF NotAhead, Locs
    <3>3. \A g \in DOMAIN rows : g \in Kept(loc[p].gen) \/ g + 2 <= cur
      BY <3>2 DEF Kept
    <3>4. LatestKept'
      BY <2>1, <3>1, <3>3
    <3>5. cur > 0 => cur \in DOMAIN rows' /\ rows'[cur] = rows[cur]
      BY <2>1, <3>1, <3>3
    <3> QED
      BY <2>1, <3>4, <3>5
  <2>2. CASE UNCHANGED snap
    BY <2>2
  <2> QED
    BY <1>6, <2>1, <2>2 DEF Cleanup
<1>7. CASE MountServe
  BY <1>7 DEF MountServe, Done, Goto, NoLoc, Procs, Locs, Heads, NotAhead, LocSound
<1>8. CASE StatHead
  BY <1>8 DEF StatHead, Goto, Procs, Locs, Heads, NotAhead, LocSound
<1>9. CASE StatRef
  BY <1>9 DEF StatRef, Looked, Goto, NoLoc, Priming, Looking, Procs, Locs, Heads, NotAhead, LocSound
<1>24. CASE ReadRef
  BY <1>24 DEF ReadRef, Looked, Goto, NoLoc, Priming, Looking, Procs, Locs, Heads, NotAhead, LocSound
<1>25. CASE StatExists
  BY <1>25 DEF StatExists, Looked, Goto, NoLoc, Priming, Looking, Procs, Locs, Heads, NotAhead, LocSound
<1>10. CASE Compare
  BY <1>10 DEF Compare, Done, Goto, NoLoc, Event, Procs, Locs, Heads, NotAhead, LocSound
<1>11. CASE SetGeneration
  BY <1>11 DEF SetGeneration, Done, Goto, NoLoc, Procs, Locs, Heads, NotAhead, LocSound
<1>12. CASE Exit
  BY <1>12 DEF Exit, Done, Goto, NoLoc, Procs, Locs, Heads, NotAhead, LocSound
<1>13. ASSUME NEW c \in Commits, Commit(c)
      PROVE  (LatestKept /\ StoredDescribesTree)'
  BY <1>13 DEF Commit, Write, Unseen, Event, Procs, Locs, Heads, NotAhead, LocSound
<1>14. ASSUME NEW c \in Commits, Detach(c)
      PROVE  (LatestKept /\ StoredDescribesTree)'
  BY <1>14 DEF Detach, Write, Unseen, Event, Procs, Locs, Heads, NotAhead, LocSound
<1>15. ASSUME NEW b \in Branches, Checkout(b)
      PROVE  (LatestKept /\ StoredDescribesTree)'
  BY <1>15 DEF Checkout, Write, Unseen, Event, Procs, Locs, Heads, NotAhead, LocSound
<1>16. CASE PackRefs
  BY <1>16 DEF PackRefs, Unseen, Event, Procs, Locs, Heads, NotAhead, LocSound
<1>17. CASE AddRepo
  BY <1>17 DEF AddRepo, Event, Goto, Procs, Locs, Heads, NotAhead, LocSound
<1>18. CASE Crash
  BY <1>18 DEF Crash, Event, Goto, NoLoc, Procs, Locs, Heads, NotAhead, LocSound
<1>19. CASE GiveUp
  BY <1>19 DEF GiveUp, Event, Done, Goto, NoLoc, Procs, Locs, Heads, NotAhead, LocSound
<1>20. CASE Abort
  BY <1>20 DEF Abort, Event, Done, Goto, NoLoc, Procs, Locs, Heads, NotAhead, LocSound
<1>21. ASSUME NEW r \in Readers, TakeGeneration(r)
      PROVE  (LatestKept /\ StoredDescribesTree)'
  BY <1>21 DEF TakeGeneration, Procs, Locs, Heads, NotAhead, LocSound
<1>22. ASSUME NEW r \in Readers, GetNode(r)
      PROVE  (LatestKept /\ StoredDescribesTree)'
  BY <1>22 DEF GetNode, Procs, Locs, Heads, NotAhead, LocSound
<1>23. CASE UNCHANGED vars
  BY <1>23 DEF vars, Procs, Locs, Heads, NotAhead, LocSound
<1> QED
  BY <1>1, <1>2, <1>3, <1>4, <1>5, <1>6, <1>7, <1>8, <1>9, <1>10, <1>11, <1>12, <1>13, <1>14, <1>15, <1>16, <1>17, <1>18, <1>19, <1>20, <1>21, <1>22, <1>23, <1>24, <1>25
  DEF Next, Daemon, Poll, Command, EnsurePrepared, OnHEADChanged, Git, Procs

(* The daemon is at most one generation behind itself.                     *)
LEMMA ServedStep == IInv /\ [Next]_vars => ServedSound'
<1> SUFFICES ASSUME IInv, [Next]_vars PROVE ServedSound'
  OBVIOUS
<1> USE DEF IInv, TypeOK, git, poller, snap, runtime, history, ServedSound, Up, Priming, Looking
<1>1. ASSUME NEW p \in Procs, NEW from \in {"mount", "resolve"},
                 NEW to \in {"mountRef", "resolveRef"}, from = "mount" <=> to = "mountRef",
                 RevParse(p, from, to)
      PROVE  ServedSound'
  BY <1>1 DEF RevParse, Goto, Procs, Locs, Heads, MountSteps, LocSound
<1>2. ASSUME NEW p \in Procs, NEW from \in {"mountRef", "resolveRef"},
                 NEW to \in {"readGeneration", "compare"}, from = "mountRef" <=> to = "readGeneration",
                 SymbolicRef(p, from, to)
      PROVE  ServedSound'
  BY <1>2 DEF SymbolicRef, Event, Unseen, Goto, Procs, Locs, Heads, MountSteps, LocSound
<1>3. ASSUME NEW p \in Procs, ReadGeneration(p)
      PROVE  ServedSound'
  BY <1>3 DEF ReadGeneration, Goto, Procs, Locs, Heads, MountSteps, LocSound
<1>4. ASSUME NEW p \in Procs, ReadHead(p)
      PROVE  ServedSound'
  BY <1>4 DEF ReadHead, Goto, Procs, Locs, Heads, MountSteps, LocSound
<1>5. ASSUME NEW p \in Procs, NEW from \in {"mountPublish", "publish"},
                 NEW to \in {"mountCleanup", "cleanup"}, from = "publish" <=> to = "cleanup",
                 PublishGeneration(p, from, to)
      PROVE  ServedSound'
  <2>1. CASE p = "command"
    BY <1>5, <2>1 DEF PublishGeneration, Goto, Procs, Heads, MountSteps
  <2>2. CASE p = "daemon" /\ to = "mountCleanup"
    BY <1>5, <2>2 DEF PublishGeneration, Goto, Procs, MountSteps
  <2>3. CASE p = "daemon" /\ to = "cleanup"
    <3>1. pc["daemon"] = "publish" /\ pc'["daemon"] = "cleanup" /\ loc'["daemon"].gen = cur'
      BY <1>5, <2>3 DEF PublishGeneration, Goto, Procs, Locs
    <3>2. cur' = cur + 1 /\ foreign' = foreign /\ UNCHANGED <<served, state>>
      BY <1>5, <2>3 DEF PublishGeneration
    <3> QED
      BY <3>1, <3>2 DEF MountSteps
  <2> QED
    BY <1>5, <2>1, <2>2, <2>3 DEF Procs
<1>6. ASSUME NEW p \in Procs, NEW from \in {"mountCleanup", "cleanup"},
                 NEW to \in {"mountServe", "serve"}, from = "cleanup" <=> to = "serve",
                 Cleanup(p, from, to)
      PROVE  ServedSound'
  BY <1>6 DEF Cleanup, Kept, Event, Goto, Procs, Locs, Heads, MountSteps, LocSound
<1>7. CASE MountServe
  BY <1>7 DEF MountServe, Done, Goto, NoLoc, Procs, Locs, Heads, MountSteps, LocSound
<1>8. CASE StatHead
  BY <1>8 DEF StatHead, Goto, Procs, Locs, Heads, MountSteps, LocSound
<1>9. CASE StatRef
  BY <1>9 DEF StatRef, Looked, Goto, NoLoc, Priming, Looking, Procs, Locs, Heads, MountSteps, LocSound
<1>24. CASE ReadRef
  BY <1>24 DEF ReadRef, Looked, Goto, NoLoc, Priming, Looking, Procs, Locs, Heads, MountSteps, LocSound
<1>25. CASE StatExists
  BY <1>25 DEF StatExists, Looked, Goto, NoLoc, Priming, Looking, Procs, Locs, Heads, MountSteps, LocSound
<1>10. CASE Compare
  BY <1>10 DEF Compare, Done, Goto, NoLoc, Event, Procs, Locs, Heads, MountSteps, LocSound
<1>11. CASE SetGeneration
  BY <1>11 DEF SetGeneration, Done, Goto, NoLoc, Procs, Locs, Heads, MountSteps, LocSound
<1>12. CASE Exit
  BY <1>12 DEF Exit, Done, Goto, NoLoc, Procs, Locs, Heads, MountSteps, LocSound
<1>13. ASSUME NEW c \in Commits, Commit(c)
      PROVE  ServedSound'
  BY <1>13 DEF Commit, Write, Unseen, Event, Procs, Locs, Heads, MountSteps, LocSound
<1>14. ASSUME NEW c \in Commits, Detach(c)
      PROVE  ServedSound'
  BY <1>14 DEF Detach, Write, Unseen, Event, Procs, Locs, Heads, MountSteps, LocSound
<1>15. ASSUME NEW b \in Branches, Checkout(b)
      PROVE  ServedSound'
  BY <1>15 DEF Checkout, Write, Unseen, Event, Procs, Locs, Heads, MountSteps, LocSound
<1>16. CASE PackRefs
  BY <1>16 DEF PackRefs, Unseen, Event, Procs, Locs, Heads, MountSteps, LocSound
<1>17. CASE AddRepo
  BY <1>17 DEF AddRepo, Event, Goto, Procs, Locs, Heads, MountSteps, LocSound
<1>18. CASE Crash
  BY <1>18 DEF Crash, Event, Goto, NoLoc, Procs, Locs, Heads, MountSteps, LocSound
<1>19. CASE GiveUp
  BY <1>19 DEF GiveUp, Event, Done, Goto, NoLoc, Procs, Locs, Heads, MountSteps, LocSound
<1>20. CASE Abort
  BY <1>20 DEF Abort, Event, Done, Goto, NoLoc, Procs, Locs, Heads, MountSteps, LocSound
<1>21. ASSUME NEW r \in Readers, TakeGeneration(r)
      PROVE  ServedSound'
  BY <1>21 DEF TakeGeneration, Procs, Locs, Heads, MountSteps, LocSound
<1>22. ASSUME NEW r \in Readers, GetNode(r)
      PROVE  ServedSound'
  BY <1>22 DEF GetNode, Procs, Locs, Heads, MountSteps, LocSound
<1>23. CASE UNCHANGED vars
  BY <1>23 DEF vars, Procs, Locs, Heads, MountSteps, LocSound
<1> QED
  BY <1>1, <1>2, <1>3, <1>4, <1>5, <1>6, <1>7, <1>8, <1>9, <1>10, <1>11, <1>12, <1>13, <1>14, <1>15, <1>16, <1>17, <1>18, <1>19, <1>20, <1>21, <1>22, <1>23, <1>24, <1>25
  DEF Next, Daemon, Poll, Command, EnsurePrepared, OnHEADChanged, Git, Procs

LEMMA Inductive == IInv /\ [Next]_vars => IInv'
BY TypeStep, LocStep, AheadStep, SnapshotStep, ServedStep DEF IInv

-----------------------------------------------------------------------------
LEMMA Invariant == Spec => []IInv
BY Initially, Inductive, PTL DEF Spec

(* The types of HeadRefresh: also that nobody goes on to publish or to     *)
(* serve without the commit and the ref it was started for.                *)
THEOREM HeadRefreshTypeCorrect == Spec => []TypeOK
<1>1. IInv => TypeOK
  BY DEF IInv
<1> QED
  BY <1>1, Invariant, PTL

(* The tree of the current generation is that of the commit stored with it *)
(* (PublishGeneration, UpdateHEADRef), whatever two processes publish and  *)
(* clean up, so the next mount may serve it when the two agree.            *)
THEOREM RestartServesStoredTree == Spec => []StoredDescribesTree
<1>1. IInv => StoredDescribesTree
  BY DEF IInv
<1> QED
  BY <1>1, Invariant, PTL

(* Cleaning up after a publication (store.go:97) never takes the rows of   *)
(* the generation that is served, unless another process published too.    *)
THEOREM ServedGenerationIsKept == Spec => []ServedIsKept
<1>1. IInv => ServedIsKept
  BY DEF IInv, TypeOK, ServedSound, LatestKept, ServedIsKept, NotAhead
<1> QED
  BY <1>1, Invariant, PTL

(* An operation that took a number finds that tree until two generations   *)
(* have been published after it (ResolvePath, ReaddirTyped).               *)
THEOREM LookupsOutliveOneRefresh == Spec => []GoneOnlyWhenOvertaken
<1>1. ASSUME IInv, NEW r \in Readers, reader[r] # 0, TreeOf(reader[r]) = None
      PROVE  cur >= reader[r] + 2
  <2>1. reader[r] \in 1..cur
    BY <1>1 DEF IInv, TypeOK, NotAhead
  <2>2. reader[r] \notin DOMAIN rows
    BY <1>1 DEF IInv, TypeOK, TreeOf
  <2> QED
    BY <1>1, <2>1, <2>2 DEF IInv, TypeOK, LatestKept
<1>2. IInv => GoneOnlyWhenOvertaken
  BY <1>1 DEF GoneOnlyWhenOvertaken
<1> QED
  BY <1>2, Invariant, PTL

(* So a refresh never takes a tree from under what is served or looked up. *)
THEOREM RefreshKeepsTrees == Spec => []TreesAreKept
<1>1. ServedIsKept /\ GoneOnlyWhenOvertaken => TreesAreKept
  BY DEF TreesAreKept
<1> QED
  BY <1>1, ServedGenerationIsKept, LookupsOutliveOneRefresh, PTL

-----------------------------------------------------------------------------
(* How what is served keeps up with HEAD.                                  *)

(* The next poll will notice a change.                                     *)
Alert == Noticeable(HEAD) \/ (at # HEAD /\ Noticeable(at))

(* The watcher starts with nothing remembered when the daemon has mounted, *)
(* and looks at HEAD before anything else.                                 *)
Fresh ==
  /\ pc["daemon"] \in MountSteps => seen[HEAD] = "never"
  /\ pc["daemon"] \in RefreshSteps => seen[HEAD] # "never"
  /\ seen[HEAD] = "never" => awaited = {} /\ \A b \in Branches : seen[b] = "never"

(* It remembers the current branch, or will notice that HEAD has moved.    *)
Watched ==
  /\ "checkout" \notin missed /\ ~Noticeable(HEAD)
  /\ ~FirstPoll /\ ~unwatched /\ pc["daemon"] \notin Priming
  => at = HEAD \/ seen[at] # "never" \/ at \in awaited

(* The branch it looks at is the current one, with the same exceptions.    *)
Aimed ==
  /\ "checkout" \notin missed /\ ~Noticeable(HEAD)
  /\ pc["daemon"] \in {"primeExists", "primeStat", "refExists", "refStat"}
  => loc["daemon"].ref = at

(* The rows of a generation are those of the commit it was published for.  *)
Found ==
  /\ \/ pc["daemon"] \in {"mountCleanup", "cleanup", "serve"}
     \/ pc["daemon"] = "mountServe" /\ "tree" \notin missed
  /\ loc["daemon"].gen \in DOMAIN rows
  => rows[loc["daemon"].gen] = loc["daemon"].oid

Shown == Up /\ "tree" \notin missed /\ served \in DOMAIN rows => rows[served] = state.oid

(* Where nothing was missed and nothing will be noticed, what the daemon   *)
(* has found out, or shows, is what HEAD is.                               *)
Resolved == {"mountRef", "readGeneration", "readHead", "mountPublish", "mountCleanup", "mountServe",
             "resolveRef", "compare", "publish", "cleanup", "serve"}

InStep ==
  missed \subseteq {"tree"} /\ ~Alert =>
    /\ pc["daemon"] \in Resolved => loc["daemon"].oid = tip[at]
    /\ pc["daemon"] \in Resolved \ {"mountRef", "resolveRef"} => loc["daemon"].ref = at
    /\ pc["daemon"] \in {"idle"} \cup Looking => state = [oid |-> tip[at], ref |-> at]

Follow == Fresh /\ Watched /\ Aimed /\ Found /\ Shown /\ InStep

-----------------------------------------------------------------------------
(* What git does is noticed, or noted as missed.                           *)

LEMMA Notices ==
  ASSUME TypeOK
  PROVE  (Noticeable(HEAD) <=> seen[HEAD] = "newer") /\ HEAD \notin loose /\ HEAD \notin awaited
BY HeadRefreshAssumption DEF TypeOK, Noticeable, Files

LEMMA WriteAlerts ==
  ASSUME IInv, Fresh, Watched, Aimed, NEW f \in {at, HEAD}, Write(f), at' \in Files, f = HEAD \/ at' = at,
         TypeOK'
  PROVE  /\ Fresh' /\ Watched' /\ Aimed'
         /\ Alert' \/ ~(missed' \subseteq {"tree"}) \/ pc["daemon"] \in Priming
<1>1. TypeOK /\ f \in Files
  BY DEF IInv, TypeOK, Files
<1>2. /\ loose' = loose \cup ({f} \ {HEAD}) /\ missed \subseteq missed'
      /\ awaited' = awaited /\ unwatched' = unwatched /\ pc' = pc /\ loc' = loc
  BY DEF Write, Unseen
<1>3. \A g \in Files : /\ seen'[g] = "never" <=> seen[g] = "never"
                       /\ seen[g] = "newer" => seen'[g] = "newer"
  BY <1>1 DEF Write, TypeOK
<1>4. /\ Noticeable(HEAD) <=> seen[HEAD] = "newer"
      /\ Noticeable(HEAD)' <=> seen'[HEAD] = "newer"
  <2>1. HEAD \notin awaited'
    BY DEF TypeOK
  <2>. QED
    BY <1>1, <2>1, Notices DEF Noticeable
<1>5. /\ HEAD \in Files /\ Branches \subseteq Files
      /\ FirstPoll' <=> FirstPoll
  <2>1. HEAD \in Files /\ Branches \subseteq Files
    BY DEF Files
  <2>. QED
    BY <1>2, <1>3, <2>1 DEF FirstPoll
<1>6. Fresh'
  BY <1>2, <1>3, <1>5 DEF Fresh
<1>7. \/ seen[f] # "never" /\ seen'[f] = "newer"
      \/ seen[f] = "current" /\ "change" \in missed' /\ (f = HEAD => "checkout" \in missed')
      \/ /\ seen[f] = "never" /\ seen'[f] = "never"
         /\ (FirstPoll \/ unwatched) /\ f \notin awaited => "change" \in missed'
  BY <1>1 DEF Write, TypeOK, Unseen
<1>8. CASE f = HEAD
  <2>1. seen[HEAD] = "never" => FirstPoll
    BY DEF FirstPoll
  <2>2. seen'[HEAD] = "newer" \/ "change" \in missed'
    BY <1>1, <1>7, <1>8, <2>1, Notices
  <2>3. seen'[HEAD] = "newer" \/ "checkout" \in missed' \/ FirstPoll'
    BY <1>5, <1>7, <1>8, <2>1
  <2>4. pc["daemon"] \in {"primeExists", "primeStat", "refExists", "refStat"} => seen[HEAD] # "never"
    BY DEF Fresh, RefreshSteps, Priming, Looking
  <2>5. Aimed'
    BY <1>2, <1>4, <1>7, <1>8, <2>4 DEF Aimed
  <2>. QED
    BY <1>4, <1>6, <2>2, <2>3, <2>5 DEF Watched, Alert
<1>9. CASE f = at /\ at' = at /\ at # HEAD
  <2>1. Watched' /\ Aimed'
    BY <1>2, <1>3, <1>4, <1>5, <1>9, <1>1 DEF Watched, Aimed
  <2>2. at \in loose'
    BY <1>2, <1>9
  <2>3. CASE seen'[at] = "newer"
    BY <1>9, <1>6, <2>1, <2>2, <2>3 DEF Alert, Noticeable
  <2>4. CASE seen[at] = "never" /\ at \in awaited
    BY <1>2, <1>7, <1>9, <1>6, <2>1, <2>2, <2>4 DEF Alert, Noticeable
  <2>5. CASE seen[at] = "never" /\ at \notin awaited
    <3>1. FirstPoll \/ unwatched => "change" \in missed'
      BY <1>7, <1>9, <2>5
    <3>2. \/ "checkout" \in missed' \/ Noticeable(HEAD)' \/ FirstPoll \/ unwatched
          \/ pc["daemon"] \in Priming
      BY <1>2, <1>3, <1>4, <1>5, <1>9, <2>5 DEF Watched
    <3>. QED
      BY <1>6, <2>1, <3>1, <3>2 DEF Alert
  <2>. QED
    BY <1>7, <1>9, <1>6, <2>1, <2>3, <2>4, <2>5
<1>. QED
  BY <1>8, <1>9

LEMMA GitKeeps ==
  ASSUME IInv, IInv', Follow, Git
  PROVE  Follow'
<1>1. TypeOK /\ TypeOK' /\ at' \in Files
  BY DEF IInv, TypeOK
<1> DEFINE Elsewhere ==
      UNCHANGED <<awaited, unwatched, snap, runtime, pc, loc>> /\ ("tree" \in missed' <=> "tree" \in missed)
<1>2. Elsewhere
  <2>1. ASSUME NEW f, Write(f) PROVE Elsewhere
    BY <2>1 DEF Write, Unseen
  <2>2. PackRefs => Elsewhere
    BY DEF PackRefs, Unseen, poller
  <2>. QED
    BY <2>1, <2>2 DEF Git, Commit, Checkout, Detach
<1>3. Found' /\ Shown'
  BY <1>2 DEF Follow, Found, Shown, Up, snap, runtime
<1>4. ASSUME NEW f \in {at, HEAD}, Write(f), f = HEAD \/ at' = at PROVE Follow'
  <2>1. /\ Fresh' /\ Watched' /\ Aimed'
        /\ Alert' \/ ~(missed' \subseteq {"tree"}) \/ pc["daemon"] \in Priming
    BY <1>1, <1>4, WriteAlerts DEF Follow
  <2>2. InStep'
    BY <1>2, <2>1 DEF InStep, Resolved, Priming, Looking
  <2>. QED
    BY <1>3, <2>1, <2>2 DEF Follow
<1>5. CASE PackRefs
  <2>1. UNCHANGED <<at, tip, seen>> /\ loose' = {} /\ missed \subseteq missed'
    BY <1>5 DEF PackRefs, poller
  <2>2. (Noticeable(HEAD)' <=> Noticeable(HEAD)) /\ (FirstPoll' <=> FirstPoll)
    BY <1>2, <2>1 DEF FirstPoll, Noticeable, TypeOK, IInv
  <2>3. Fresh' /\ Watched' /\ Aimed'
    BY <1>2, <2>1, <2>2 DEF Follow, Fresh, Watched, Aimed
  <2>4. Alert => Alert' \/ "change" \in missed'
    BY <1>5, <2>2 DEF PackRefs, Alert, Unseen
  <2>5. InStep'
    BY <1>2, <2>1, <2>4 DEF Follow, InStep, runtime
  <2>. QED
    BY <1>3, <2>3, <2>5 DEF Follow
<1>. QED
  BY <1>4, <1>5 DEF Git, Commit, Checkout, Detach

-----------------------------------------------------------------------------
(* Other processes and lookups do not disturb the daemon.                  *)

(* Rows are only removed, or added for new generations.                    *)
RowsMove == \A g \in DOMAIN rows' : (g \in DOMAIN rows /\ rows'[g] = rows[g]) \/ g > cur

LEMMA OthersKeep ==
  ASSUME IInv, Follow, UNCHANGED <<git, poller, runtime, missed>>, RowsMove,
         pc'["daemon"] = pc["daemon"], loc'["daemon"] = loc["daemon"]
  PROVE  Follow'
<1>1. UNCHANGED <<at, tip, loose, seen, awaited, unwatched, served, state>>
  BY DEF git, poller, runtime
<1>2. /\ (Noticeable(HEAD)' <=> Noticeable(HEAD)) /\ (FirstPoll' <=> FirstPoll)
      /\ Alert' <=> Alert
  BY <1>1 DEF Noticeable, FirstPoll, Alert
<1>3. Fresh' /\ Watched' /\ Aimed'
  BY <1>1, <1>2 DEF Follow, Fresh, Watched, Aimed
<1>4. /\ served <= cur /\ loc["daemon"].gen <= cur
      /\ served \in Nat /\ cur \in Nat /\ loc["daemon"].gen \in Nat
  BY DEF IInv, NotAhead, TypeOK, Procs, Locs
<1>5. Found' /\ Shown'
  <2>1. \A g : g \in DOMAIN rows' /\ g <= cur /\ g \in Nat => g \in DOMAIN rows /\ rows'[g] = rows[g]
    BY <1>4 DEF RowsMove
  <2>. QED
    BY <1>1, <1>4, <2>1 DEF Follow, Found, Shown, Up
<1>6. InStep'
  BY <1>1, <1>2 DEF Follow, InStep
<1>. QED
  BY <1>3, <1>5, <1>6 DEF Follow

LEMMA PublishedRows ==
  ASSUME IInv, NEW p \in Procs, NEW from, NEW to,
         PublishGeneration(p, from, to) \/ Cleanup(p, from, to) \/ rows' = rows
  PROVE  RowsMove
<1>1. cur \in Nat
  BY DEF IInv, TypeOK
<1>2. CASE PublishGeneration(p, from, to)
  BY <1>1, <1>2 DEF PublishGeneration, RowsMove
<1>3. CASE Cleanup(p, from, to)
  BY <1>3 DEF Cleanup, Kept, RowsMove
<1>4. CASE rows' = rows
  BY <1>4 DEF RowsMove
<1>. QED
  BY <1>2, <1>3, <1>4

LEMMA CommandKeeps ==
  ASSUME IInv, Follow,
         Command \/ AddRepo \/ Abort \/ (\E r \in Readers : TakeGeneration(r) \/ GetNode(r))
  PROVE  Follow'
<1>1. TypeOK /\ "command" \in Procs /\ "command" # "daemon" /\ "daemon" \in Procs
  BY DEF IInv, Procs
<1>2. UNCHANGED <<git, poller, runtime, missed>>
  BY <1>1 DEF Command, Unseen, EnsurePrepared, RevParse, SymbolicRef, ReadGeneration, ReadHead, PublishGeneration, Cleanup,
              Exit, AddRepo, Abort, TakeGeneration, GetNode, history
<1>3. pc'["daemon"] = pc["daemon"] /\ loc'["daemon"] = loc["daemon"]
  BY <1>1 DEF Command, EnsurePrepared, RevParse, SymbolicRef, ReadGeneration, ReadHead, PublishGeneration, Cleanup,
              Exit, AddRepo, Abort, TakeGeneration, GetNode, Done, Goto, TypeOK
<1>4. RowsMove
  <2>1. \/ rows' = rows
        \/ PublishGeneration("command", "mountPublish", "mountCleanup")
        \/ Cleanup("command", "mountCleanup", "mountServe")
    BY DEF Command, EnsurePrepared, RevParse, SymbolicRef, ReadGeneration, ReadHead,
           Exit, AddRepo, Abort, TakeGeneration, GetNode, snap
  <2>. QED
    BY <1>1, <2>1, PublishedRows
<1>. QED
  BY <1>2, <1>3, <1>4, OthersKeep

-----------------------------------------------------------------------------
(* The daemon's steps.                                                     *)

(* A step of a mount or of a refresh, which the watcher waits for.         *)
LEMMA PollerRests ==
  ASSUME Follow, UNCHANGED <<git, poller>>,
         pc["daemon"] \in (MountSteps \cup RefreshSteps) \ (Priming \cup Looking),
         pc'["daemon"] \in (MountSteps \cup RefreshSteps \cup {"idle"}) \ (Priming \cup Looking),
         pc'["daemon"] \in MountSteps => pc["daemon"] \in MountSteps,
         pc'["daemon"] \in RefreshSteps => pc["daemon"] \in RefreshSteps,
         "checkout" \in missed => "checkout" \in missed'
  PROVE  Fresh' /\ Watched' /\ Aimed' /\ (Alert' <=> Alert)
<1>1. UNCHANGED <<at, tip, loose, seen, awaited, unwatched>>
  BY DEF git, poller
<1>2. /\ (Noticeable(HEAD)' <=> Noticeable(HEAD)) /\ (FirstPoll' <=> FirstPoll)
      /\ Alert' <=> Alert
  BY <1>1 DEF Noticeable, FirstPoll, Alert
<1>3. Fresh'
  BY <1>1 DEF Follow, Fresh
<1>4. Watched' /\ Aimed'
  BY <1>1, <1>2 DEF Follow, Watched, Aimed, Priming, Looking
<1>. QED
  BY <1>2, <1>3, <1>4

LEMMA DaemonLoc ==
  ASSUME IInv
  PROVE  /\ "daemon" \in Procs /\ loc["daemon"] \in Locs /\ loc["daemon"].gen \in Nat
         /\ pc["daemon"] \in MountSteps \cup RefreshSteps \cup {"idle"}
         /\ \A l : (Goto("daemon", l) => pc'["daemon"] = l) /\ (Done("daemon") => pc'["daemon"] = "idle")
BY DEF IInv, TypeOK, Procs, Locs, Goto, Done

(* HEAD is looked up in two commands; what git does between them is noticed*)
(* or missed.                                                              *)
LEMMA ResolveHEADKeeps ==
  ASSUME IInv, Follow,
         RevParse("daemon", "mount", "mountRef") \/ SymbolicRef("daemon", "mountRef", "readGeneration")
           \/ RevParse("daemon", "resolve", "resolveRef") \/ SymbolicRef("daemon", "resolveRef", "compare")
  PROVE  Follow'
<1>1. UNCHANGED <<git, poller, snap, runtime>> /\ missed \ {"change"} \subseteq missed'
  BY DEF RevParse, SymbolicRef
<1>2. UNCHANGED <<at, tip, rows, served, state>>
  BY <1>1 DEF git, snap, runtime
<1>3. ASSUME NEW from \in {"mount", "resolve"}, NEW to \in {"mountRef", "resolveRef"},
             from = "mount" <=> to = "mountRef", RevParse("daemon", from, to)
      PROVE  Follow'
  <2>1. pc["daemon"] = from /\ pc'["daemon"] = to
    BY <1>3, DaemonLoc DEF RevParse
  <2>2. loc'["daemon"].oid = tip[at]
    BY <1>3, DaemonLoc DEF RevParse, IInv, TypeOK
  <2>3. Fresh' /\ Watched' /\ Aimed'
    BY <1>1, <1>3, <2>1, PollerRests DEF MountSteps, RefreshSteps, Priming, Looking
  <2>4. Found' /\ Shown'
    BY <1>1, <1>2, <2>1, <1>3 DEF Follow, Found, Shown, Up, MountSteps
  <2>5. InStep'
    BY <1>2, <1>3, <2>1, <2>2 DEF InStep, Resolved, Looking
  <2>. QED
    BY <2>3, <2>4, <2>5 DEF Follow
<1>4. ASSUME NEW from \in {"mountRef", "resolveRef"}, NEW to \in {"readGeneration", "compare"},
             from = "mountRef" <=> to = "readGeneration", SymbolicRef("daemon", from, to)
      PROVE  Follow'
  <2>1. /\ pc["daemon"] = from /\ pc'["daemon"] = to
        /\ "tree" \in missed' <=> "tree" \in missed
    BY <1>4, DaemonLoc DEF SymbolicRef, Unseen
  <2>2. /\ loc'["daemon"].oid = loc["daemon"].oid
        /\ missed \subseteq missed' /\ (loc'["daemon"].ref = at \/ "change" \in missed')
    BY <1>4, DaemonLoc DEF SymbolicRef, Unseen, IInv, TypeOK, Locs
  <2>3. Fresh' /\ Watched' /\ Aimed' /\ (Alert' <=> Alert)
    BY <1>1, <1>4, <2>1, PollerRests DEF MountSteps, RefreshSteps, Priming, Looking
  <2>4. Found' /\ Shown'
    BY <1>1, <1>2, <2>1, <1>4 DEF Follow, Found, Shown, Up, MountSteps
  <2>5. InStep'
    BY <1>2, <1>4, <2>1, <2>2, <2>3 DEF Follow, InStep, Resolved, Looking
  <2>. QED
    BY <2>3, <2>4, <2>5 DEF Follow
<1>. QED
  BY <1>3, <1>4

(* The stored tree is taken over if it was built of this HEAD.             *)
LEMMA ReadStateKeeps ==
  ASSUME IInv, Follow, ReadGeneration("daemon") \/ ReadHead("daemon")
  PROVE  Follow'
<1> DEFINE to == loc["daemon"]
<1>1. UNCHANGED <<git, poller, snap, runtime>> /\ missed \subseteq missed'
  BY DEF ReadGeneration, ReadHead, history
<1>2. UNCHANGED <<at, tip, rows, cur, stored, served, state>>
  BY <1>1 DEF git, snap, runtime
<1>3. /\ pc["daemon"] \in {"readGeneration", "readHead"}
      /\ pc'["daemon"] \in {"readHead", "mountPublish", "mountServe"}
      /\ loc'["daemon"].oid = to.oid /\ loc'["daemon"].ref = to.ref
  BY DaemonLoc DEF ReadGeneration, ReadHead, IInv, TypeOK, Locs
<1>4. Fresh' /\ Watched' /\ Aimed' /\ (Alert' <=> Alert)
  BY <1>1, <1>3, PollerRests DEF MountSteps, RefreshSteps, Priming, Looking
<1>5. Shown'
  BY <1>1, <1>2, <1>3 DEF Follow, Shown, Up, MountSteps
<1>6. Found'
  <2>1. CASE pc'["daemon"] = "mountServe"
    <3>1. ReadHead("daemon") /\ loc' = loc
      BY <2>1, DaemonLoc DEF ReadGeneration, ReadHead
    <3>2. /\ to.gen # 0 /\ stored = [oid |-> to.oid, ref |-> to.ref]
          /\ to.gen # cur => "tree" \in missed'
      BY <2>1, <3>1, DaemonLoc DEF ReadHead
    <3>3. to.gen = cur => cur > 0 /\ stored.oid = rows[cur] /\ stored.oid = to.oid
      BY <3>2, DaemonLoc DEF IInv, StoredDescribesTree
    <3>. QED
      BY <1>2, <3>1, <3>2, <3>3, <2>1 DEF Found
  <2>2. CASE pc'["daemon"] # "mountServe"
    BY <1>3, <2>2 DEF Found
  <2>. QED
    BY <2>1, <2>2
<1>7. InStep'
  BY <1>1, <1>2, <1>3, <1>4 DEF Follow, InStep, Resolved, Looking
<1>. QED
  BY <1>4, <1>5, <1>6, <1>7 DEF Follow

(* A new generation, and the removal of old ones.                          *)
LEMMA PublishKeeps ==
  ASSUME IInv, Follow,
         PublishGeneration("daemon", "mountPublish", "mountCleanup")
           \/ PublishGeneration("daemon", "publish", "cleanup")
           \/ Cleanup("daemon", "mountCleanup", "mountServe") \/ Cleanup("daemon", "cleanup", "serve")
  PROVE  Follow'
<1> DEFINE to == loc["daemon"]
<1>1. UNCHANGED <<git, poller, runtime, missed>>
  BY DEF PublishGeneration, Cleanup, history
<1>2. UNCHANGED <<at, tip, served, state>>
  BY <1>1 DEF git, runtime
<1>3. RowsMove
  BY DaemonLoc, PublishedRows
<1>4. /\ <<pc["daemon"], pc'["daemon"]>> \in {<<"mountPublish", "mountCleanup">>, <<"publish", "cleanup">>,
                                              <<"mountCleanup", "mountServe">>, <<"cleanup", "serve">>}
      /\ loc'["daemon"].oid = to.oid /\ loc'["daemon"].ref = to.ref
  BY DaemonLoc DEF PublishGeneration, Cleanup, IInv, TypeOK, Locs
<1>5. Fresh' /\ Watched' /\ Aimed' /\ (Alert' <=> Alert)
  BY <1>1, <1>4, PollerRests DEF MountSteps, RefreshSteps, Priming, Looking
<1>6. served <= cur /\ served \in Nat /\ cur \in Nat /\ to.gen <= cur /\ to.gen \in Nat
  BY DaemonLoc DEF IInv, NotAhead, TypeOK
<1>7. Shown'
  <2>1. served \in DOMAIN rows' => served \in DOMAIN rows /\ rows'[served] = rows[served]
    BY <1>3, <1>6 DEF RowsMove
  <2>. QED
    BY <1>1, <1>2, <1>4, <2>1 DEF Follow, Shown, Up, MountSteps
<1>8. Found'
  <2>1. CASE pc["daemon"] \in {"mountPublish", "publish"}
    <3>1. PublishGeneration("daemon", "mountPublish", "mountCleanup")
            \/ PublishGeneration("daemon", "publish", "cleanup")
      BY <2>1 DEF Cleanup
    <3>2. loc'["daemon"].gen = cur + 1 /\ rows'[cur + 1] = to.oid
      BY <3>1, DaemonLoc DEF PublishGeneration, IInv, TypeOK, Locs
    <3>. QED
      BY <1>4, <3>2 DEF Found
  <2>2. CASE pc["daemon"] \in {"mountCleanup", "cleanup"}
    <3>1. loc' = loc
      BY <2>2 DEF PublishGeneration, Cleanup
    <3>2. to.gen \in DOMAIN rows' => to.gen \in DOMAIN rows /\ rows'[to.gen] = rows[to.gen]
      BY <1>3, <1>6 DEF RowsMove
    <3>. QED
      BY <2>2, <3>1, <3>2 DEF Follow, Found
  <2>. QED
    BY <1>4, <2>1, <2>2
<1>9. InStep'
  BY <1>1, <1>2, <1>4, <1>5 DEF Follow, InStep, Resolved, Looking
<1>. QED
  BY <1>5, <1>7, <1>8, <1>9 DEF Follow

(* What was published is served.                                           *)
LEMMA ServeKeeps ==
  ASSUME IInv, Follow, MountServe \/ SetGeneration
  PROVE  Follow'
<1> DEFINE to == loc["daemon"]
<1>1. /\ UNCHANGED <<git, poller, snap>> /\ served' = to.gen /\ state' = [oid |-> to.oid, ref |-> to.ref]
      /\ pc["daemon"] \in {"mountServe", "serve"} /\ pc'["daemon"] = "idle"
      /\ missed \ {"tree"} \subseteq missed' /\ missed' \subseteq missed
      /\ pc["daemon"] = "mountServe" => missed' = missed
  BY DaemonLoc DEF MountServe, SetGeneration
<1>2. UNCHANGED <<at, tip, rows>>
  BY <1>1 DEF git, snap
<1>3. Fresh' /\ Watched' /\ Aimed' /\ (Alert' <=> Alert)
  BY <1>1, PollerRests DEF MountSteps, RefreshSteps, Priming, Looking
<1>4. Found'
  BY <1>1 DEF Found
<1>5. Shown'
  BY <1>1, <1>2 DEF Follow, Found, Shown
<1>6. InStep'
  <2>1. missed' \subseteq {"tree"} => missed \subseteq {"tree"}
    BY <1>1
  <2>. QED
    BY <1>1, <1>2, <1>3, <2>1 DEF Follow, InStep, Resolved, Looking
<1>. QED
  BY <1>3, <1>4, <1>5, <1>6 DEF Follow

(* The same commit under another ref.                                      *)
LEMMA CompareKeeps ==
  ASSUME IInv, Follow, Compare
  PROVE  Follow'
<1> DEFINE to == loc["daemon"]
<1>1. /\ UNCHANGED <<git, poller, rows, served, missed>> /\ pc["daemon"] = "compare"
      /\ \/ pc'["daemon"] = "publish" /\ UNCHANGED <<state, loc>>
         \/ pc'["daemon"] = "idle" /\ to.oid = state.oid /\ state' = [state EXCEPT !.ref = to.ref]
  BY DaemonLoc DEF Compare, history
<1>2. UNCHANGED <<at, tip>>
  BY <1>1 DEF git
<1>3. Fresh' /\ Watched' /\ Aimed' /\ (Alert' <=> Alert)
  BY <1>1, PollerRests DEF MountSteps, RefreshSteps, Priming, Looking
<1>4. Found'
  BY <1>1 DEF Found
<1>5. state \in Heads
  BY <1>1 DEF IInv, ServedSound, Up, MountSteps
<1>6. state'.oid = state.oid /\ (pc'["daemon"] = "idle" => state' = [oid |-> to.oid, ref |-> to.ref])
  BY <1>1, <1>5 DEF Heads
<1>7. Shown'
  BY <1>1, <1>6 DEF Follow, Shown, Up, MountSteps
<1>8. InStep'
  BY <1>1, <1>2, <1>3, <1>6 DEF Follow, InStep, Resolved, Looking
<1>. QED
  BY <1>3, <1>4, <1>7, <1>8 DEF Follow

(* Giving up is missing a change; a crash forgets everything.              *)
LEMMA FaultsKeep ==
  ASSUME IInv, Follow, GiveUp \/ Crash
  PROVE  Follow'
<1>1. CASE GiveUp
  <2>1. /\ UNCHANGED <<git, poller, snap, runtime>> /\ pc["daemon"] \in {"resolve", "publish"}
        /\ pc'["daemon"] = "idle" /\ missed' = missed \cup {"change"}
    BY <1>1, DaemonLoc DEF GiveUp
  <2>2. Fresh' /\ Watched' /\ Aimed'
    BY <2>1, PollerRests DEF MountSteps, RefreshSteps, Priming, Looking
  <2>3. Found' /\ Shown'
    BY <2>1 DEF Follow, Found, Shown, Up, MountSteps, snap, runtime
  <2>4. InStep'
    BY <2>1 DEF InStep
  <2>. QED
    BY <2>2, <2>3, <2>4 DEF Follow
<1>2. CASE Crash
  <2>1. /\ seen' = [f \in Files |-> "never"] /\ awaited' = {} /\ pc'["daemon"] = "mount"
    BY <1>2, DaemonLoc DEF Crash
  <2>2. seen'[HEAD] = "never" /\ \A b \in Branches : seen'[b] = "never"
    BY <2>1 DEF Files
  <2>3. Fresh' /\ Watched' /\ Aimed'
    BY <2>1, <2>2 DEF Fresh, Watched, Aimed, FirstPoll, MountSteps, RefreshSteps, Priming, Looking
  <2>4. Found' /\ Shown' /\ InStep'
    BY <2>1 DEF Found, Shown, InStep, Up, MountSteps, Resolved, Looking
  <2>. QED
    BY <2>3, <2>4 DEF Follow
<1>. QED
  BY <1>1, <1>2

-----------------------------------------------------------------------------
(* The watcher's looks.                                                    *)

LEMMA StatHeadKeeps ==
  ASSUME IInv, IInv', Follow, StatHead
  PROVE  Follow'
<1>1. /\ UNCHANGED <<at, tip, loose, awaited, rows, served, state, loc>> /\ pc["daemon"] = "idle"
      /\ seen' = [seen EXCEPT ![HEAD] = "current"]
      /\ \/ Noticeable(HEAD) /\ pc'["daemon"] = "primeRead" /\ missed' = missed \ {"checkout"}
         \/ ~Noticeable(HEAD) /\ pc'["daemon"] = "refRead" /\ missed' = missed /\ unwatched' = unwatched
  BY DaemonLoc DEF StatHead, git, snap, runtime
<1>2. TypeOK /\ TypeOK' /\ HEAD \in Files /\ HEAD \notin Branches /\ Branches \subseteq Files
  BY HeadRefreshAssumption DEF IInv, Files
<1>3. seen'[HEAD] = "current" /\ \A b \in Branches : seen'[b] = seen[b]
  BY <1>1, <1>2 DEF TypeOK
<1>4. ~Noticeable(HEAD)' /\ (at \in Branches => (Noticeable(at)' <=> Noticeable(at)))
  BY <1>1, <1>3 DEF Noticeable
<1>5. at \in Branches <=> at # HEAD
  BY <1>2 DEF TypeOK, Files
<1>6. Fresh' /\ Aimed'
  BY <1>1, <1>3 DEF Fresh, Aimed, MountSteps
<1>7. Watched'
  <2>1. CASE pc'["daemon"] = "refRead"
    <3>1. FirstPoll => FirstPoll'
      BY <1>1, <1>3, <2>1 DEF FirstPoll, Follow, Fresh, Looking
    <3>. QED
      BY <1>1, <1>3, <1>5, <2>1, <3>1 DEF Follow, Watched, Priming
  <2>2. CASE pc'["daemon"] = "primeRead"
    BY <2>2 DEF Watched, Priming
  <2>. QED
    BY <1>1, <2>1, <2>2
<1>8. Found' /\ Shown'
  BY <1>1 DEF Follow, Found, Shown, Up, MountSteps
<1>9. InStep'
  BY <1>1, <1>4, <1>5 DEF Follow, InStep, Alert, Resolved, Looking
<1>. QED
  BY <1>6, <1>7, <1>8, <1>9 DEF Follow

(* What the later looks have in common: they concern the file of a branch, *)
(* and a poll that ends without a change ends where it began.              *)
LEMMA LooksKeep ==
  ASSUME IInv, IInv', Follow, UNCHANGED <<git, snap, runtime, missed>>,
         pc["daemon"] \in Priming \cup Looking, pc'["daemon"] \in Priming \cup Looking \cup {"idle", "resolve"},
         pc'["daemon"] \in Looking \cup {"idle"} => pc["daemon"] \in Looking,
         seen'[HEAD] = seen[HEAD],
         pc'["daemon"] \in Looking \cup {"idle"} /\ at # HEAD /\ Noticeable(at) => Noticeable(at)',
         Watched', Aimed'
  PROVE  Follow'
<1>1. UNCHANGED <<at, tip, loose, rows, served, state>>
  BY DEF git, snap, runtime
<1>2. seen[HEAD] # "never"
  BY DEF Follow, Fresh, RefreshSteps
<1>3. Fresh'
  BY <1>2 DEF Fresh, MountSteps, Priming, Looking
<1>4. Found' /\ Shown'
  BY <1>1 DEF Follow, Found, Shown, Up, MountSteps, Priming, Looking
<1>5. Noticeable(HEAD)' <=> Noticeable(HEAD)
  BY Notices DEF IInv, TypeOK, Noticeable, Files
<1>6. InStep'
  <2>1. CASE pc'["daemon"] \in Looking \cup {"idle"}
    <3>1. ~Alert' => ~Alert
      BY <1>1, <1>5, <2>1 DEF Alert
    <3>2. pc["daemon"] \in Looking
      BY <2>1
    <3>. QED
      BY <1>1, <2>1, <3>1, <3>2 DEF Follow, InStep, Resolved, Looking
  <2>2. CASE pc'["daemon"] \in Priming \cup {"resolve"}
    BY <2>2 DEF InStep, Resolved, Looking, Priming
  <2>. QED
    BY <2>1, <2>2
<1>. QED
  BY <1>3, <1>4, <1>6 DEF Follow

LEMMA ReadRefKeeps ==
  ASSUME IInv, IInv', Follow, ReadRef
  PROVE  Follow'
<1>1. /\ UNCHANGED <<git, poller, snap, runtime, missed>> /\ pc["daemon"] \in {"primeRead", "refRead"}
      /\ \/ at = HEAD /\ pc'["daemon"] = (IF pc["daemon"] = "primeRead" THEN "resolve" ELSE "idle")
         \/ /\ at # HEAD /\ loc'["daemon"].ref = at
            /\ pc'["daemon"] = (IF pc["daemon"] = "primeRead" THEN "primeExists" ELSE "refExists")
  BY DaemonLoc DEF ReadRef, Looked, history, Priming, IInv, TypeOK, Locs
<1>2. UNCHANGED <<at, loose, seen, awaited, unwatched>>
  BY <1>1 DEF git, poller
<1>3. (Noticeable(HEAD)' <=> Noticeable(HEAD)) /\ (Noticeable(at)' <=> Noticeable(at))
  BY <1>2 DEF Noticeable
<1>4. Aimed'
  BY <1>1, <1>2 DEF Aimed
<1>5. Watched'
  <2>1. CASE at # HEAD /\ pc["daemon"] = "refRead"
    <3>1. FirstPoll' <=> FirstPoll
      BY <1>1, <1>2, <2>1 DEF FirstPoll, Looking
    <3>. QED
      BY <1>1, <1>2, <1>3, <2>1, <3>1 DEF Follow, Watched, Priming
  <2>2. CASE at = HEAD \/ pc["daemon"] # "refRead"
    BY <1>1, <1>2, <2>2 DEF Watched, Priming
  <2>. QED
    BY <2>1, <2>2
<1>. QED
  BY <1>1, <1>2, <1>3, <1>4, <1>5, LooksKeep DEF Priming, Looking

LEMMA StatExistsKeeps ==
  ASSUME IInv, IInv', Follow, StatExists
  PROVE  Follow'
<1> DEFINE b == loc["daemon"].ref
<1>1. /\ UNCHANGED <<git, seen, snap, runtime, missed>> /\ pc["daemon"] \in {"primeExists", "refExists"}
      /\ \/ /\ b \in loose /\ UNCHANGED <<awaited, unwatched>> /\ loc' = loc
            /\ pc'["daemon"] = (IF pc["daemon"] = "primeExists" THEN "primeStat" ELSE "refStat")
         \/ /\ b \notin loose /\ awaited' = awaited \cup {b}
            /\ pc'["daemon"] = (IF pc["daemon"] = "primeExists" THEN "resolve" ELSE "idle")
  BY DaemonLoc DEF StatExists, Looked, history, Priming
<1>2. UNCHANGED <<at, loose, seen>> /\ awaited \subseteq awaited'
  BY <1>1 DEF git
<1>3. Noticeable(at) => Noticeable(at)'
  BY <1>2 DEF Noticeable
<1>4. Noticeable(HEAD)' <=> Noticeable(HEAD)
  BY <1>2, Notices DEF IInv, TypeOK, Noticeable, Files
<1>5. Aimed'
  BY <1>1, <1>2, <1>4 DEF Follow, Aimed
<1>6. Watched'
  <2>1. CASE b \in loose /\ pc["daemon"] = "refExists"
    <3>1. FirstPoll' <=> FirstPoll
      BY <1>1, <1>2, <2>1 DEF FirstPoll, Looking
    <3>. QED
      BY <1>1, <1>2, <1>4, <2>1, <3>1 DEF Follow, Watched, Priming
  <2>2. CASE b \in loose /\ pc["daemon"] = "primeExists"
    BY <1>1, <2>2 DEF Watched, Priming
  <2>3. CASE b \notin loose
    <3>1. "checkout" \notin missed /\ ~Noticeable(HEAD) => b = at
      BY <1>1 DEF Follow, Aimed
    <3>. QED
      BY <1>1, <1>2, <1>4, <2>3, <3>1 DEF Watched
  <2>. QED
    BY <1>1, <2>1, <2>2, <2>3
<1>. QED
  BY <1>1, <1>2, <1>3, <1>5, <1>6, LooksKeep DEF Priming, Looking

LEMMA StatRefKeeps ==
  ASSUME IInv, IInv', Follow, StatRef
  PROVE  Follow'
<1> DEFINE b == loc["daemon"].ref
<1>1. /\ UNCHANGED <<git, snap, runtime, missed>> /\ pc["daemon"] \in {"primeStat", "refStat"}
      /\ pc'["daemon"] = (IF pc["daemon"] = "primeStat" \/ Noticeable(b) THEN "resolve" ELSE "idle")
      /\ \/ b \in loose /\ seen' = [seen EXCEPT ![b] = "current"] /\ awaited' = awaited \ {b}
         \/ /\ b \notin loose /\ UNCHANGED <<seen, awaited>>
            /\ unwatched' = (unwatched \/ (seen[b] = "never" /\ b \notin awaited))
  BY DaemonLoc DEF StatRef, Looked, history, Priming
<1>2. UNCHANGED <<at, loose>>
  BY <1>1 DEF git
<1>3. b \in Branches /\ b # HEAD /\ b \in Files /\ HEAD \in Files
  BY <1>1, DaemonLoc, HeadRefreshAssumption DEF IInv, LocSound, Files
<1>4. seen'[HEAD] = seen[HEAD] /\ (b \in loose => seen'[b] = "current")
  BY <1>1, <1>3 DEF IInv, TypeOK
<1>5. Noticeable(HEAD)' <=> Noticeable(HEAD)
  BY <1>4, Notices DEF IInv, TypeOK, Noticeable, Files
<1>6. at # b /\ at \in Files => seen'[at] = seen[at] /\ (at \in awaited' <=> at \in awaited)
  BY <1>1, <1>3 DEF IInv, TypeOK
<1>7. pc'["daemon"] \in Looking \cup {"idle"} /\ at # HEAD /\ Noticeable(at) => Noticeable(at)'
  <2>1. CASE at = b
    BY <1>1, <2>1 DEF Looking
  <2>2. CASE at # b
    BY <1>2, <1>6, <2>2 DEF Noticeable, IInv, TypeOK
  <2>. QED
    BY <2>1, <2>2
<1>8. Aimed'
  BY <1>1 DEF Aimed
<1>9. Watched'
  <2>1. "checkout" \notin missed /\ ~Noticeable(HEAD) => b = at
    BY <1>1 DEF Follow, Aimed
  <2>. QED
    BY <1>1, <1>2, <1>4, <1>5, <2>1 DEF Watched
<1>. QED
  BY <1>1, <1>4, <1>7, <1>8, <1>9, LooksKeep DEF Priming, Looking

-----------------------------------------------------------------------------
LEMMA FollowInitially == Init => Follow
<1> SUFFICES ASSUME Init PROVE Follow
  OBVIOUS
<1>1. /\ seen = [f \in Files |-> "never"] /\ awaited = {} /\ pc["daemon"] = "mount"
  BY DEF Init, Procs
<1>2. seen[HEAD] = "never" /\ \A b \in Branches : seen[b] = "never"
  BY <1>1 DEF Files
<1>3. Fresh /\ Watched /\ Aimed
  BY <1>1, <1>2 DEF Fresh, Watched, Aimed, FirstPoll, MountSteps, RefreshSteps, Priming, Looking
<1>4. Found /\ Shown /\ InStep
  BY <1>1 DEF Found, Shown, InStep, Up, MountSteps, Resolved, Looking
<1>. QED
  BY <1>3, <1>4 DEF Follow

LEMMA FollowStep == IInv /\ IInv' /\ Follow /\ [Next]_vars => Follow'
<1> SUFFICES ASSUME IInv, IInv', Follow, [Next]_vars PROVE Follow'
  OBVIOUS
<1>1. CASE UNCHANGED vars
  <2>1. UNCHANGED <<git, poller, runtime, missed>> /\ UNCHANGED <<rows, pc, loc>>
    BY <1>1 DEF vars, history, snap
  <2>2. RowsMove
    BY <2>1 DEF RowsMove
  <2>. QED
    BY <2>1, <2>2, OthersKeep
<1>2. CASE EnsurePrepared("daemon")
  BY <1>2, ResolveHEADKeeps, ReadStateKeeps, PublishKeeps DEF EnsurePrepared
<1>3. CASE OnHEADChanged
  BY <1>3, ResolveHEADKeeps, CompareKeeps, PublishKeeps, ServeKeeps DEF OnHEADChanged
<1>. QED
  BY <1>1, <1>2, <1>3, GitKeeps, CommandKeeps, FaultsKeep, ServeKeeps, StatHeadKeeps, ReadRefKeeps, StatExistsKeeps, StatRefKeeps DEF Next, Daemon, Poll

LEMMA FollowInvariant == Spec => []Follow
BY Invariant, FollowInitially, FollowStep, PTL DEF Spec

(* Between two polls a mounted repository shows HEAD's commit and names its*)
(* ref, or the next poll will notice the change, or the change was one of  *)
(* those the watcher and onHEADChanged miss.                               *)
THEOREM ChangesAreNoticed == Spec => []NothingUnnoticed
<1>1. ASSUME IInv, Follow, pc["daemon"] = "idle", missed = {}, ~Alert PROVE FollowsHEAD
  <2>1. state = [oid |-> tip[at], ref |-> at]
    BY <1>1 DEF Follow, InStep
  <2>2. served \in DOMAIN rows => rows[served] = tip[at]
    BY <1>1, <2>1 DEF Follow, Shown, Up, MountSteps
  <2>3. ~foreign => served \in DOMAIN rows
    BY <1>1 DEF IInv, TypeOK, ServedSound, LatestKept, NotAhead, Up, MountSteps
  <2>. QED
    BY <2>1, <2>2, <2>3 DEF FollowsHEAD, TreeOf
<1>2. IInv /\ Follow => NothingUnnoticed
  BY <1>1 DEF NothingUnnoticed, Alert
<1>. QED
  BY <1>2, Invariant, FollowInvariant, PTL
=============================================================================
