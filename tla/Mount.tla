------------------------------- MODULE Mount -------------------------------
(***************************************************************************)
(* A mounted repository: the kernel, the gate that its operations pass, and*)
(* the inode and handle tables of the fuse adapter (fusefs/fuse_unix.go).  *)
(* An inode's number is given to a path when a lookup, a create or a mkdir *)
(* is answered; each such answer counts as a lookup of the inode, and the  *)
(* kernel gives its lookups back with FORGET, which does not pass the gate.*)
(* What a path shows is the subject of Overlay and FileHandle: here the    *)
(* file system may give any answer.                                        *)
(*                                                                         *)
(* The kernel is Linux, as far as the adapter depends on it: it knows an   *)
(* inode by its number and a name by its directory's, so that what is in a *)
(* directory moves with it; it looks a name up for the first time once at  *)
(* a time and not while it changes the directory, revalidates the names it *)
(* knows at any time, and forgets an inode that has no name, no open handle*)
(* and no operation under way.  The adapter knows an inode by a path that  *)
(* it keeps, and serves a name below it from that path.                    *)
(***************************************************************************)
EXTENDS ReadyGate, Naturals, FiniteSets

CONSTANTS
  Names,      \* the names in a directory
  Paths,      \* the files and directories below the root
  Root,       \* the path of the root
  Child,      \* the path of a name in a directory; Root where the tree ends
  Handles,    \* bound on the handles that are open at a time
  MaxInode,   \* bound on the inode numbers
  MaxLookups  \* bound on the lookups of an inode that the kernel has counted

ASSUME MountAssumption ==
  /\ Root \notin Paths
  /\ Child \in [(Paths \cup {Root}) \X Names -> Paths \cup {Root}]
  /\ 0 \notin Handles /\ IsFiniteSet(Ops)
  /\ MaxInode \in Nat \ {0} /\ MaxLookups \in Nat

RootInode == 1
Inodes == 2..MaxInode   \* 0 is no inode and no handle
Spots  == (Inodes \cup {RootInode}) \X Names   \* a name in a directory

VARIABLES
  inodes,       \* fs.inodes, without the root
  pathToInode,
  nextInodeID,
  handles,      \* fs.fileHandles and fs.dirHandles: the inode of each
  job,          \* what each operation in flight asks, and its answer
  name,         \* the kernel's dentries: the inode at each spot
  lookups,      \* the kernel's count of an inode's lookups
  opened,       \* the inode of each handle the kernel has
  forgets       \* per inode, the lookups that FORGETs in flight give back

table     == <<inodes, pathToInode, nextInodeID, handles>>
kernel    == <<name, lookups, opened, forgets>>
mountVars == <<vars, table, job, kernel>>

NoRef  == [path |-> Root, refcnt |-> 0]
NoSpot == <<0, 0>>
NoJob  == [do |-> "none", at |-> NoSpot, to |-> NoSpot, path |-> Root, inode |-> 0,
           child |-> 0, handle |-> 0, out |-> "none"]

(* What a new name or an open inode is wanted for makes no difference:     *)
(* "create" is create or mkdir, "unlink" unlink or rmdir, and "inode" is   *)
(* attributes, a symlink's target or an open of a file or a directory.     *)
Asks == {"lookup", "inode", "handle", "create", "unlink", "rename"}

(* Types, the gate's among them.                                           *)
MountTypeOK ==
  /\ TypeOK
  /\ inodes \in [Inodes -> [path : Paths \cup {Root}, refcnt : Nat]]
  /\ pathToInode \in [Paths -> Inodes \cup {0}]
  /\ nextInodeID \in 2..(MaxInode + 1)
  /\ handles \in [Handles -> Inodes \cup {0, RootInode}]
  /\ job \in [Ops -> [do : Asks \cup {"none"}, at : Spots \cup {NoSpot}, to : Spots \cup {NoSpot},
                      path : Paths \cup {Root}, inode : Inodes \cup {0, RootInode},
                      child : Inodes \cup {0}, handle : Handles \cup {0},
                      out : {"none", "done", "ok", "error", "unknown"}]]
  /\ name \in [Spots -> Inodes \cup {0}]
  /\ lookups \in [Inodes -> Nat]
  /\ opened \in [Handles -> Inodes \cup {0, RootInode}]
  /\ forgets \in [Inodes -> Nat]

(* NewArtifactFuse.                                                        *)
MountInit ==
  /\ Init
  /\ inodes = [i \in Inodes |-> NoRef]
  /\ pathToInode = [p \in Paths |-> 0]
  /\ nextInodeID = 2
  /\ handles = [h \in Handles |-> 0]
  /\ job = [o \in Ops |-> NoJob]
  /\ name = [s \in Spots |-> 0]
  /\ lookups = [i \in Inodes |-> 0]
  /\ opened = [h \in Handles |-> 0]
  /\ forgets = [i \in Inodes |-> 0]

-----------------------------------------------------------------------------
(* The kernel asks for something, and the operation arrives at the gate.   *)

Ask(o, what) ==
  /\ job' = [job EXCEPT ![o] = what]
  /\ UNCHANGED <<vars, table, kernel>>

(* childPath: the directory's inode has the path it was first looked up by.*)
PathAt(s) == Child[IF s[1] = RootInode THEN Root ELSE inodes[s[1]].path, s[2]]

Links(i) == {s \in Spots : name[s] = i}
IsDir(i) == i = RootInode \/ Links(i) # {}
Empty(i) == \A s \in Spots : s[1] = i => name[s] = 0

(* i is k or a directory above it.                                         *)
Above(i, k) ==
  \A S \in SUBSET (Inodes \cup {RootInode}) :
    k \in S /\ (\A s \in Spots : name[s] \in S => s[1] \in S) => i \in S

(* A change holds the locks of its directories, and of one that it removes.*)
Locked(o) ==
  LET j == job[o] IN
  CASE j.do = "create" -> {j.at[1]}
    [] j.do = "unlink" -> {j.at[1], j.inode}
    [] j.do = "rename" -> {j.at[1], j.to[1], name[j.to]} \ {0}
    [] OTHER -> {}

FirstLook(o) == job[o].do = "lookup" /\ job[o].inode = 0

(* The bounds: the tree, and what the kernel counts.                       *)
InTree(s) == IsDir(s[1]) /\ PathAt(s) \in Paths
MayCount(p) == pathToInode[p] # 0 => inodes[pathToInode[p]].refcnt < MaxLookups

AskLookUp(o, s) ==
  /\ InTree(s) /\ MayCount(PathAt(s))
  /\ name[s] = 0 => \A q \in Ops : s[1] \notin Locked(q) /\ ~(FirstLook(q) /\ job[q].at = s)
  /\ Ask(o, [NoJob EXCEPT !.do = "lookup", !.at = s, !.path = PathAt(s), !.inode = name[s]])

MayLock(ds) ==
  \A o \in Ops : Locked(o) \cap ds = {} /\ ~(FirstLook(o) /\ job[o].at[1] \in ds)

AskCreate(o, s) ==
  /\ InTree(s) /\ MayCount(PathAt(s))
  /\ name[s] = 0 /\ MayLock({s[1]})
  /\ Ask(o, [NoJob EXCEPT !.do = "create", !.at = s, !.path = PathAt(s)])

(* A directory is removed when the kernel knows no names in it any more.   *)
AskUnlink(o, s) ==
  /\ InTree(s)
  /\ name[s] # 0 /\ Empty(name[s]) /\ MayLock({s[1], name[s]})
  /\ Ask(o, [NoJob EXCEPT !.do = "unlink", !.at = s, !.path = PathAt(s), !.inode = name[s]])

(* A file or a directory moves, whatever is known in it or asked there, but*)
(* not into itself.                                                        *)
AskRename(o, s, t) ==
  /\ InTree(s) /\ InTree(t)
  /\ name[s] \notin {0, name[t]} /\ ~Above(name[s], t[1])
  /\ name[t] # 0 => Empty(name[t])
  /\ MayLock({s[1], t[1], name[t]} \ {0})
  /\ Ask(o, [NoJob EXCEPT !.do = "rename", !.at = s, !.to = t, !.path = PathAt(s), !.inode = name[s]])

InUse(i) == IsDir(i) \/ \E h \in Handles : opened[h] = i

AskInode(o, i) ==
  /\ InUse(i)
  /\ Ask(o, [NoJob EXCEPT !.do = "inode", !.inode = i])

AskHandle(o, h) ==
  /\ opened[h] # 0
  /\ Ask(o, [NoJob EXCEPT !.do = "handle", !.inode = opened[h], !.handle = h])

-----------------------------------------------------------------------------
(* The kernel forgets.                                                     *)

Pinned(i) ==
  \/ InUse(i)
  \/ \E o \in Ops : i \in {job[o].inode, job[o].at[1], job[o].to[1]}

DropName(s) ==
  /\ name[s] # 0 /\ Empty(name[s])
  /\ \A o \in Ops : s \notin {job[o].at, job[o].to} /\ name[s] \notin {job[o].at[1], job[o].to[1]}
  /\ name' = [name EXCEPT ![s] = 0]
  /\ UNCHANGED <<vars, table, job, lookups, opened, forgets>>

(* A number in use may lose some of its lookups: where a directory's came  *)
(* back for a file, the kernel has two inodes of it, the old one dead.     *)
Evict(i, n) ==
  /\ n < lookups[i] \/ ~Pinned(i)
  /\ lookups' = [lookups EXCEPT ![i] = @ - n]
  /\ forgets' = [forgets EXCEPT ![i] = @ + n]
  /\ UNCHANGED <<vars, table, job, name, opened>>

(* Refcnt falls by n; at zero the inode is deleted.                        *)
Forgotten(ref, n) == IF ref.refcnt > n THEN [ref EXCEPT !.refcnt = @ - n] ELSE NoRef

(* ForgetInode, and BatchForget, which is served as a series of them.      *)
ForgetInode(i, n) ==
  LET ref == inodes[i] IN
  /\ forgets' = [forgets EXCEPT ![i] = @ - n]
  /\ IF ref = NoRef
       THEN UNCHANGED <<inodes, pathToInode>>
       ELSE /\ inodes' = [inodes EXCEPT ![i] = Forgotten(ref, n)]
            /\ pathToInode' = IF Forgotten(ref, n) = NoRef THEN [pathToInode EXCEPT ![ref.path] = 0]
                                                         ELSE pathToInode
  /\ UNCHANGED <<vars, nextInodeID, handles, job, name, lookups, opened>>

(* The handle's last use is over; the message may take its time.           *)
ReleaseHandle(h) ==
  /\ opened[h] # 0
  /\ \A o \in Ops : job[o].handle # h
  /\ opened' = [opened EXCEPT ![h] = 0]
  /\ handles' = [handles EXCEPT ![h] = 0]
  /\ UNCHANGED <<vars, inodes, pathToInode, nextInodeID, job, name, lookups, forgets>>

-----------------------------------------------------------------------------
(* The gate.                                                               *)

AtGate(o) == job[o] # NoJob /\ OpStep(o) /\ UNCHANGED <<table, job, kernel>>

Interrupt(o) == CtxDone(o) /\ UNCHANGED <<table, job, kernel>>

Daemon ==
  /\ Reset \/ MarkReady \/ \E e \in Errors : MarkFailed(e)
  /\ UNCHANGED <<table, job, kernel>>

-----------------------------------------------------------------------------
(* The operations, once they have passed.                                  *)

Passed(o, do, out) == pc[o] = "returned" /\ answer[o] = "passed" /\ job[o].do = do /\ job[o].out = out

Out(o, out) ==
  /\ job' = [job EXCEPT ![o].out = out]
  /\ UNCHANGED <<vars, table, kernel>>

(* requireInode: a parent that is not there is ENOENT, any other inode is  *)
(* ESTALE.                                                                 *)
Known(i) == i # RootInode => inodes[i] # NoRef

OpenHandle(h) == handles[h] # 0

(* resolveAttrs, the engine or the resolver: they succeed or fail.         *)
FileSystem(o, out) == Out(o, out) \/ Out(o, "error")

In(o, dirs, out) == IF \A i \in dirs : Known(i) THEN FileSystem(o, out) ELSE Out(o, "unknown")

(* LookUpInode up to allocInode; .git needs no resolver.                   *)
LookUpInode(o) == Passed(o, "lookup", "none") /\ In(o, {job[o].at[1]}, "done")

(* CreateFile and MkDir up to allocInode.                                  *)
CreateFile(o) == Passed(o, "create", "none") /\ In(o, {job[o].at[1]}, "done")

(* Unlink and RmDir: the inode and the handles stay.                       *)
Unlink(o) == Passed(o, "unlink", "none") /\ In(o, {job[o].at[1]}, "ok")

(* Mutant of Rename: the inode gets the new path, the map is forgotten.    *)
RenameRepathing(o) ==
  LET i == job[o].inode
      known == \A k \in {job[o].at[1], job[o].to[1]} : Known(k) IN
  /\ Passed(o, "rename", "none")
  /\ job' = [job EXCEPT ![o].out = IF known THEN "ok" ELSE "unknown"]
  /\ inodes' = IF known THEN [inodes EXCEPT ![i].path = PathAt(job[o].to)] ELSE inodes
  /\ UNCHANGED <<vars, pathToInode, nextInodeID, handles, kernel>>

(* The inode keeps its old path, and a directory's names are served there. *)
Rename(o) == Passed(o, "rename", "none") /\ In(o, {job[o].at[1], job[o].to[1]}, "ok")

(* Mutant of Counted: an inode that is there is not counted again.         *)
CountedOnce(i) == inodes

Counted(i) == [inodes EXCEPT ![i].refcnt = @ + 1]

(* allocInode, in the critical section that answers.                       *)
Alloc(o) ==
  LET p == job[o].path
      listed == pathToInode[p] # 0 /\ inodes[pathToInode[p]] # NoRef
      i == IF listed THEN pathToInode[p] ELSE nextInodeID
      Answer(h) == job' = [job EXCEPT ![o].out = "ok", ![o].child = i, ![o].handle = h]
  IN
  /\ Passed(o, "lookup", "done") \/ Passed(o, "create", "done")
  /\ i \in Inodes
  /\ IF listed
       THEN inodes' = Counted(i) /\ UNCHANGED <<pathToInode, nextInodeID>>
       ELSE /\ inodes' = [inodes EXCEPT ![i] = [path |-> p, refcnt |-> 1]]
            /\ pathToInode' = [pathToInode EXCEPT ![p] = i]
            /\ nextInodeID' = nextInodeID + 1
  /\ \/ /\ job[o].do = "create"
        /\ \E h \in Handles : ~OpenHandle(h) /\ handles' = [handles EXCEPT ![h] = i] /\ Answer(h)
     \/ UNCHANGED handles /\ Answer(0)
  /\ UNCHANGED <<vars, kernel>>

(* GetInodeAttributes, SetInodeAttributes, ReadSymlink.                    *)
GetInodeAttributes(o) == Passed(o, "inode", "none") /\ In(o, {job[o].inode}, "ok")

(* OpenDir and OpenFile.                                                   *)
Open(o) ==
  /\ Passed(o, "inode", "none") /\ Known(job[o].inode)
  /\ \E h \in Handles :
       /\ ~OpenHandle(h)
       /\ handles' = [handles EXCEPT ![h] = job[o].inode]
       /\ job' = [job EXCEPT ![o].out = "ok", ![o].handle = h]
  /\ UNCHANGED <<vars, inodes, pathToInode, nextInodeID, kernel>>

(* ReadDir, ReadFile, WriteFile: a handle that is not there is EBADF.      *)
ReadDir(o) ==
  /\ Passed(o, "handle", "none")
  /\ IF OpenHandle(job[o].handle) THEN FileSystem(o, "ok") ELSE Out(o, "unknown")

-----------------------------------------------------------------------------
(* The kernel takes the answer.                                            *)

Take(o) ==
  /\ job[o] # NoJob /\ NextOp(o)
  /\ job' = [job EXCEPT ![o] = NoJob]
  /\ UNCHANGED table

TakeError(o) ==
  /\ answer[o] = "refused" \/ job[o].out \in {"error", "unknown"}
  /\ Take(o) /\ UNCHANGED kernel

(* A new name of the inode.  A directory has one name, so the one it had   *)
(* elsewhere moves here, unless that is above or locked: then the answer is*)
(* counted and the name is not.  Which inodes are directories is left open.*)
Splice(o) ==
  LET j == job[o]
      others == Links(j.child) \ {j.at} IN
  \/ /\ ~Above(j.child, j.at[1])
     /\ name' = [name EXCEPT ![j.at] = j.child]
  \/ /\ ~Above(j.child, j.at[1]) /\ j.handle = 0
     /\ \A q \in Ops \ {o}, s \in others : s[1] \notin Locked(q)
     /\ name' = [s \in Spots |-> IF s = j.at THEN j.child ELSE IF s \in others THEN 0 ELSE name[s]]
  \/ others # {} /\ j.handle = 0 /\ UNCHANGED name

(* A revalidated name that now means another inode gives the answer back.  *)
TakeInode(o) ==
  LET j == job[o] IN
  /\ j.out = "ok" /\ j.child # 0
  /\ Take(o)
  /\ opened' = IF j.handle # 0 THEN [opened EXCEPT ![j.handle] = j.child] ELSE opened
  /\ IF j.inode \in {0, j.child}
       THEN /\ lookups' = [lookups EXCEPT ![j.child] = @ + 1]
            /\ IF j.inode = 0 THEN Splice(o) ELSE UNCHANGED name
            /\ UNCHANGED forgets
       ELSE forgets' = [forgets EXCEPT ![j.child] = @ + 1] /\ UNCHANGED <<name, lookups>>

TakeDone(o) ==
  LET j == job[o] IN
  /\ j.out = "ok" /\ j.child = 0
  /\ Take(o)
  /\ opened' = IF j.do = "inode" /\ j.handle # 0 THEN [opened EXCEPT ![j.handle] = j.inode] ELSE opened
  /\ name' = CASE j.do = "unlink" -> [name EXCEPT ![j.at] = 0]
               [] j.do = "rename" -> [name EXCEPT ![j.to] = j.inode, ![j.at] = 0]
               [] OTHER -> name
  /\ UNCHANGED <<lookups, forgets>>

-----------------------------------------------------------------------------
Arrive(o) ==
  /\ pc[o] = "idle" /\ job[o] = NoJob
  /\ \/ \E s \in Spots : AskLookUp(o, s) \/ AskCreate(o, s) \/ AskUnlink(o, s)
     \/ \E s, t \in Spots : AskRename(o, s, t)
     \/ \E i \in Inodes \cup {RootInode} : AskInode(o, i)
     \/ \E h \in Handles : AskHandle(o, h)

Serve(o) ==
  \/ LookUpInode(o) \/ CreateFile(o) \/ Alloc(o) \/ Unlink(o) \/ Rename(o)
  \/ GetInodeAttributes(o) \/ Open(o) \/ ReadDir(o)

MountNext ==
  \/ \E o \in Ops : \/ Arrive(o) \/ AtGate(o) \/ Interrupt(o) \/ Serve(o)
                    \/ TakeError(o) \/ TakeInode(o) \/ TakeDone(o)
  \/ \E s \in Spots : DropName(s)
  \/ \E i \in Inodes : \/ \E n \in 1..lookups[i] : Evict(i, n)
                       \/ \E n \in 1..forgets[i] : ForgetInode(i, n)
  \/ \E h \in Handles : ReleaseHandle(h)
  \/ Daemon

MountSpec == MountInit /\ [][MountNext]_mountVars

(* As in FairSpec, an operation at the gate runs when it can.              *)
MountFairness == \A o \in Ops : WF_mountVars(AtGate(o))

-----------------------------------------------------------------------------
(* Properties.                                                             *)

Answers(i) == {o \in Ops : job[o].child = i}

(* The adapter's count of an inode is what the kernel has counted, what is *)
(* on the way to it in answers and what is on the way back in FORGETs, in  *)
(* whatever order these cross.  So no inode or handle that the kernel may  *)
(* name is missing (ENOENT for a directory that is there, ESTALE, EBADF),  *)
(* and none stays when the kernel has forgotten it.  The two maps agree:   *)
(* two inodes of one path would be two files to the kernel.                *)
KernelIsKnown ==
  /\ \A i \in Inodes : inodes[i].refcnt = lookups[i] + Cardinality(Answers(i)) + forgets[i]
  /\ \A i \in Inodes, p \in Paths : pathToInode[p] = i <=> inodes[i].path = p
  /\ \A h \in Handles : handles[h] # 0 <=> opened[h] # 0 \/ \E o \in Ops : job[o].handle = h
  /\ \A o \in Ops : job[o].out # "unknown"
=============================================================================
