------------------------------ MODULE MCMount ------------------------------
(* Two names d and e in the root, and a name e in d, as a path.            *)
EXTENDS Mount

CONSTANTS d, e, de, c1, o1
TreeOf == [p \in (Paths \cup {Root}) \X Names |->
             CASE p[1] = Root    -> p[2]
               [] p = <<d, e>>   -> de
               [] OTHER          -> Root]

MCInit == MountInit /\ done = c1
MCSpec == MCInit /\ [][MountNext]_mountVars /\ MountFairness

(* Nothing is asked or known in a directory below the root.                *)
Flat == /\ \A o \in Ops : {job[o].at[1], job[o].to[1]} \subseteq {0, RootInode}
        /\ \A s \in Spots : s[1] # RootInode => name[s] = 0

Idle(S)  == \A o \in S : job[o] = NoJob
Asked(S) == \A o \in Ops : job[o].do \in S \cup {"none"}
LooksOnly(S) == \A o \in S : job[o].do \in {"none", "lookup"}
OneForget == \A i, k \in Inodes : forgets[i] > 0 /\ forgets[k] > 0 => i = k

(* Files that may be opened, with a second inode while nothing else runs;  *)
(* or directories and files that are not, with a third in the same way and *)
(* no FORGET under way.                                                    *)
OpenFiles ==
  /\ Flat /\ nextInodeID <= 4
  /\ nextInodeID = 4 => Idle(Ops \ {o1})

Directories ==
  /\ handles = [h \in Handles |-> 0] /\ Asked(Asks \ {"inode", "handle"})
  /\ nextInodeID = 5 => Idle(Ops \ {o1}) /\ forgets = [i \in Inodes |-> 0]

(* A gate of which anything happens before the first lookup is answered;   *)
(* or one that was opened once, and one operation beside a lookup.         *)
GateOrTable ==
  \/ nextInodeID = 2 /\ LooksOnly(Ops) /\ \A o \in Ops : job[o].at \in {NoSpot, <<RootInode, d>>}
  \/ /\ ready /\ shut = {c1} /\ \A o \in Ops : chan[o] = c1
     /\ LooksOnly(Ops \ {o1}) /\ OneForget /\ \A i \in Inodes : forgets[i] <= 2
     /\ OpenFiles \/ Directories
=============================================================================
