---------------------------- MODULE Directories ----------------------------
(***************************************************************************)
(* The names of one mount: how the resolver merges the rows of the overlay *)
(* with the tree of the commit, how the operations of fusefs.Engine make,  *)
(* remove and rename files and directories in it, and what a new commit    *)
(* does to them.                                                           *)
(*                                                                         *)
(* An operation is one step: the kernel locks the directories that it      *)
(* changes and has looked the names up.  What happens between the steps of *)
(* the store, and what files contain, is the subject of Overlay.  Symbolic *)
(* links, which nothing creates in the overlay, are files.                 *)
(***************************************************************************)
EXTENDS PathNames

CONSTANTS
  Oids,    \* object ids of blobs
  Trees,   \* the trees of commits
  NoPath,  \* an empty target_path or source_oid
  Tmp      \* the path named like each path with ".tmp" at the end, or NoPath

VARIABLES
  row,     \* overlay_entries
  disk,    \* what is under upper/
  head,    \* the tree that was published last
  shown,   \* the tree that the resolver serves
  lost     \* history: the rows whose file was taken for a temporary file

vars == <<row, disk, head, shown, lost>>

ASSUME DirectoriesAssumption ==
  /\ Paths \subseteq Seq(UNION {{p[i] : i \in DOMAIN p} : p \in Paths}) \ {<<>>}
  /\ \A p \in Paths : \A n \in 1..Len(p) : SubSeq(p, 1, n) \in Paths
  /\ Trees \subseteq {t \in [Paths -> Oids \cup {Absent, Dir}] : IsTree(t)}
  /\ Absent # Dir /\ {Absent, Dir} \cap Oids = {}
  /\ NoPath \notin Paths \cup Oids
  /\ Tmp \in [Paths -> Paths \cup {NoPath}]
  /\ \A p \in Paths : Tmp[p] # NoPath => Tmp[p] # p /\ Parent(Tmp[p]) = Parent(p)

NoRow == [kind |-> "none", src |-> NoPath, target |-> NoPath]

TypeOK ==
  /\ row \in [Paths -> [kind : {"none", "create", "modify", "rename", "delete", "mkdir"},
                        src : Oids \cup {NoPath}, target : Paths \cup {NoPath}]]
  /\ disk \in [Paths -> {"none", "file", "dir"}]
  /\ {head, shown} \subseteq Trees
  /\ lost \subseteq Paths

Init ==
  /\ row = [p \in Paths |-> NoRow]
  /\ disk = [p \in Paths |-> "none"]
  /\ shown \in Trees
  /\ head = shown
  /\ lost = {}

-----------------------------------------------------------------------------
(* The resolver.                                                           *)

HasRow(p) == row[p] # NoRow
Live(p)   == HasRow(p) /\ row[p].kind # "delete"

NodeType(p) == IF row[p].kind = "mkdir" THEN "dir" ELSE "file"

(* ResolvePath looks at the path alone.                                    *)
Resolve(p) == CASE ~HasRow(p) -> KindOf(shown[p]) [] Live(p) -> NodeType(p) [] OTHER -> "absent"

(* A program finds a path through the directories above it.                *)
Visible(p) == IF \A q \in Above(p) : Resolve(q) = "dir" THEN Resolve(p) ELSE "absent"
IsDir(p)   == p # <<>> => Visible(p) = "dir"

(* ListByPrefix finds the rows of a child and of all that is below it.     *)
Overlaid(c) == {q \in {c} \cup Below(c) : HasRow(q)}

(* Mutant of Listed: rows below a deleted directory still list it.         *)
ListedUnder(c) ==
  IF row[c].kind = "delete" THEN Overlaid(c) # {c} ELSE Overlaid(c) # {} \/ shown[c] # Absent

(* ReaddirTyped: whether a directory's listing has its child c, ...        *)
Listed(c) == row[c].kind # "delete" /\ (Overlaid(c) # {} \/ shown[c] # Absent)

(* ... and as what.  A row of c comes before those below it, and the last  *)
(* counts; which it is depends on the order of the names.                  *)
ListedAs(c) ==
  IF Overlaid(c) = {} THEN {KindOf(shown[c])}
  ELSE {NodeType(q) : q \in {r \in Overlaid(c) : Overlaid(c) \cap Below(r) = {}}}

-----------------------------------------------------------------------------
(* The store's rows and files.                                             *)

Row(kind, src, target) == [kind |-> kind, src |-> src, target |-> target]
Whiteout(target)       == Row("delete", NoPath, target)

(* os.MkdirAll of the directories above a path, in a state d of the disk.  *)
CanMake(d, p) == \A q \in Above(p) : d[q] # "file"
Made(d, p)    == [q \in Paths |-> IF q \in Above(p) THEN "dir" ELSE d[q]]

(* EnsureCopyOnWrite writes a temporary file, whatever has that name, and  *)
(* moves it to its place.                                                  *)
CanCopy(p) == CanMake(disk, p) /\ disk[p] # "dir" /\ (Tmp[p] # NoPath => disk[Tmp[p]] # "dir")
Copied(p)  == [q \in Paths |-> CASE q = p -> "file" [] q = Tmp[p] -> "none" [] OTHER -> Made(disk, p)[q]]

(* What ensureOverlay leaves for the store's Rename.                       *)
Ready(p) == IF HasRow(p) THEN disk ELSE Copied(p)

(* The copy of p takes the file of another row; it is lost until it is made*)
(* again or the row goes.  A rename of it moves what else may be in its    *)
(* place, a directory with files perhaps.                                  *)
Taken(p)      == {q \in Paths : ~HasRow(p) /\ q = Tmp[p] /\ Live(q) /\ disk[q] = "file"}
Follows(p, q) == IF p \in lost THEN {q} \cup Below(p) ELSE {}
Loses(S)      == lost' = {q \in lost \cup S : Live(q)' /\ disk'[q] # NodeType(q)'}

(* os.Remove removes a file or an empty directory.                         *)
Removed(p) ==
  IF \A q \in Below(p) : disk[q] = "none" THEN [disk EXCEPT ![p] = "none"] ELSE disk

-----------------------------------------------------------------------------
(* The operations.  Those that fail and leave rows and disk as they were   *)
(* are not steps.                                                          *)

MayAdd(p) == Visible(p) = "absent" /\ IsDir(Parent(p))

CreateFile(p) ==
  /\ MayAdd(p)
  /\ CanMake(disk, p) /\ disk[p] # "dir"
  /\ disk' = [Made(disk, p) EXCEPT ![p] = "file"]
  /\ row' = [row EXCEPT ![p] = Row("create", NoPath, NoPath)]
  /\ Loses({})
  /\ UNCHANGED <<head, shown>>

(* Mkdir, for a new directory or for one of the commit that is touched.    *)
Mkdir(p) ==
  /\ MayAdd(p) \/ (Visible(p) = "dir" /\ ~HasRow(p))
  /\ CanMake(disk, p) /\ disk[p] # "file"
  /\ disk' = [Made(disk, p) EXCEPT ![p] = "dir"]
  /\ row' = [row EXCEPT ![p] = Row("mkdir", NoPath, NoPath)]
  /\ Loses({})
  /\ UNCHANGED <<head, shown>>

(* ensureOverlay, then WriteFile, Truncate or SetMtime, the first two of   *)
(* which make a modify row of a rename row.                                *)
Write(p) ==
  /\ Visible(p) = "file"
  /\ \/ /\ ~HasRow(p) /\ CanCopy(p)
        /\ disk' = Copied(p)
        /\ row' = [row EXCEPT ![p] = Row("modify", shown[p], NoPath)]
     \/ /\ HasRow(p) /\ disk[p] # "dir" /\ \A q \in Above(p) : disk[q] = "dir"
        /\ disk' = [disk EXCEPT ![p] = "file"]
        /\ row' = [row EXCEPT ![p].kind = IF @ = "create" THEN @ ELSE "modify"]
  /\ Loses(Taken(p))
  /\ UNCHANGED <<head, shown>>

(* Remove.                                                                 *)
Whiten(p) ==
  /\ disk' = IF Live(p) THEN Removed(p) ELSE disk
  /\ row' = [row EXCEPT ![p] = Whiteout(NoPath)]
  /\ Loses({})
  /\ UNCHANGED <<head, shown>>

Unlink(p) == Visible(p) = "file" /\ Whiten(p)

(* Mutant of Rmdir: it does not look into the directory.                   *)
RmdirBlindly(p) == Visible(p) = "dir" /\ Whiten(p)

Rmdir(p) == Visible(p) = "dir" /\ (\A c \in Children(p) : ~Listed(c)) /\ Whiten(p)

(* Mutant of MayRename: directories of the commit are not refused.         *)
MayRenameAny(p, q) ==
  /\ Visible(p) # "absent" /\ q \notin {p} \cup Below(p) \cup Above(p)
  /\ IsDir(Parent(q)) /\ Visible(q) \in {"absent", Visible(p)}
  /\ row[p].kind = "mkdir" => shown[p] = Absent /\ shown[q] = Absent

(* What the kernel lets pass, and the engine does not refuse.              *)
MayRename(p, q) ==
  /\ Visible(p) # "absent" /\ q \notin {p} \cup Below(p) \cup Above(p)
  /\ IsDir(Parent(q)) /\ Visible(q) \in {"absent", Visible(p)}
  /\ IF row[p].kind = "mkdir" THEN shown[p] = Absent /\ shown[q] = Absent
                              ELSE Visible(p) = "file" /\ shown[q] # Dir

(* The rows of a rename: the source keeps a whiteout if it, or what it was *)
(* renamed from, is tracked; a directory forgets what was deleted in it.   *)
Origin(p) == IF row[p].kind = "rename" /\ row[p].target # NoPath THEN row[p].target ELSE p

NewRow(p, q) ==
  CASE row[p].kind = "create" -> IF shown[q] # Absent THEN Row("modify", shown[q], NoPath)
                                                      ELSE Row("create", NoPath, NoPath)
    [] row[p].kind = "mkdir"  -> Row("mkdir", NoPath, NoPath)
    [] HasRow(p) /\ row[p].kind \in {"modify", "rename"} -> Row("rename", row[p].src, Origin(p))
    [] ~HasRow(p)             -> Row("rename", shown[p], p)

OldRow(p) == IF row[p].kind \in {"create", "mkdir"} THEN NoRow ELSE Whiteout(Origin(p))

(* Where a directory is moved, what is below it goes along.                *)
From(p, q, x) == p \o SubSeq(x, Len(q) + 1, Len(x))

Moved(d, p, q) ==
  [x \in Paths |->
     CASE x \in {q} \cup Below(q) -> IF From(p, q, x) \in Paths THEN d[From(p, q, x)] ELSE "none"
       [] x \in {p} \cup Below(p) -> "none"
       [] OTHER -> d[x]]

(* os.Rename replaces a file by a file and an empty directory by another.  *)
CanMove(d, p, q) ==
  /\ d[p] # "none" /\ d[q] \in {"none", d[p]}
  /\ \A x \in Below(q) : d[x] = "none"

HasDescendants(p) == row[p].kind = "mkdir" /\ \E x \in Below(p) : Live(x)

(* Mutant of Rename: a directory with entries can be renamed.              *)
RenameFull(p, q) ==
  /\ MayRename(p, q) /\ (HasRow(p) \/ CanCopy(p))
  /\ CanMake(Ready(p), q) /\ ~HasRow(q) /\ CanMove(Made(Ready(p), q), p, q)
  /\ disk' = Moved(Made(Ready(p), q), p, q)
  /\ row' = [x \in Paths |-> CASE x = q -> NewRow(p, q)
                               [] x = p -> OldRow(p)
                               [] OTHER -> row[x]]
  /\ Loses(Taken(p) \cup Follows(p, q))
  /\ UNCHANGED <<head, shown>>

Rename(p, q) ==
  /\ MayRename(p, q) /\ (HasRow(p) \/ CanCopy(p))
  /\ CanMake(Ready(p), q) /\ ~HasDescendants(p) /\ ~HasRow(q)
  /\ CanMove(Made(Ready(p), q), p, q)
  /\ disk' = Moved(Made(Ready(p), q), p, q)
  /\ row' = [x \in Paths |-> CASE x = q -> NewRow(p, q)
                               [] x = p -> OldRow(p)
                               [] row[p].kind = "mkdir" /\ x \in Below(p) /\ HasRow(x) -> NoRow
                               [] OTHER -> row[x]]
  /\ Loses(Taken(p) \cup Follows(p, q))
  /\ UNCHANGED <<head, shown>>

(* A rename that fails in the store may have copied its source and made    *)
(* the directories of its target.                                          *)
RenameFails(p, q) ==
  /\ MayRename(p, q) /\ (HasRow(p) \/ CanCopy(p))
  /\ ~CanMake(Ready(p), q) \/ HasDescendants(p) \/ HasRow(q) \/ ~CanMove(Made(Ready(p), q), p, q)
  /\ row' = IF HasRow(p) THEN row ELSE [row EXCEPT ![p] = Row("modify", shown[p], NoPath)]
  /\ disk' = IF CanMake(Ready(p), q) THEN Made(Ready(p), q) ELSE Ready(p)
  /\ Loses(Taken(p))
  /\ UNCHANGED <<head, shown>>

(* A copy that cannot be moved to its place is left where it is.           *)
CopyFails(p) ==
  /\ Visible(p) = "file" /\ ~HasRow(p) /\ CanMake(disk, p) /\ disk[p] = "dir"
  /\ Tmp[p] # NoPath /\ disk[Tmp[p]] # "dir"
  /\ disk' = [disk EXCEPT ![Tmp[p]] = "file"]
  /\ UNCHANGED row /\ Loses({})
  /\ UNCHANGED <<head, shown>>

-----------------------------------------------------------------------------
(* A new commit.                                                           *)

Source(p) == IF row[p].target = NoPath THEN p ELSE row[p].target

(* The rows that Reconcile deletes.                                        *)
Stale(t) ==
  LET Kind(k) == {p \in Paths : row[p].kind = k}
      renames == {p \in Kind("rename") : row[p].src # t[Source(p)]}
      sources == {Source(p) : p \in renames}
  IN  renames \cup {p \in Kind("modify") : row[p].src # t[p]}
      \cup {p \in Kind("create") : t[p] # Absent}
      \cup {p \in Kind("mkdir") : t[p] = Dir}
      \cup {p \in Kind("delete") : t[p] = Absent \/ {p, row[p].target} \cap sources # {}}

(* It removes their files, and their directories if nothing else is there. *)
Erased(S) == {p \in S : \A q \in Below(p) : disk[q] # "none" => q \in S}

Reconcile ==
  /\ head = shown
  /\ head' \in Trees \ {head}
  /\ LET S == Stale(head')
         files == {p \in S : Live(p)} IN
     /\ row' = [p \in Paths |-> IF p \in S THEN NoRow ELSE row[p]]
     /\ disk' = [p \in Paths |-> IF p \in Erased(files) THEN "none" ELSE disk[p]]
  /\ Loses({})
  /\ UNCHANGED shown

(* The daemon logs the error and goes on.                                  *)
ReconcileFails ==
  /\ head = shown
  /\ head' \in Trees \ {head}
  /\ UNCHANGED <<row, disk, shown, lost>>

SetGeneration ==
  /\ head # shown
  /\ shown' = head
  /\ UNCHANGED <<row, disk, head, lost>>

-----------------------------------------------------------------------------
Operation ==
  \/ \E p \in Paths :
       CreateFile(p) \/ Mkdir(p) \/ Write(p) \/ CopyFails(p) \/ Unlink(p) \/ Rmdir(p)
  \/ \E p, q \in Paths : Rename(p, q) \/ RenameFails(p, q)

Refresh == Reconcile \/ ReconcileFails \/ SetGeneration

Next == Operation \/ Refresh

Spec == Init /\ [][Next]_vars

-----------------------------------------------------------------------------
(* Properties.                                                             *)

(* Every operation changes what programs see as its name says, or nothing: *)
(* no other name appears, vanishes or changes, a directory that is removed *)
(* or renamed is empty, and nothing is ever seen outside a directory.      *)
Seen == [p \in Paths |-> Visible(p)]

Promise == INSTANCE FileTree WITH tree <- Seen, tracked <- shown, published <- head

KeepsPromise == Promise!Spec

(* A live row has its file or directory under upper/, whatever was created,*)
(* renamed, removed or pruned over and under it before; only a file named  *)
(* like another's temporary file may be lost to a copy of that.            *)
RowsHaveFiles == \A p \in Paths : Live(p) => p \in lost \/ disk[p] = NodeType(p)

(* A directory's listing and its lookups agree: it has every name that can *)
(* be looked up, as what it is if no row is below it, and no other name but*)
(* of a directory that a commit took from above a row.                     *)
ListingsAgree ==
  \A d \in Paths \cup {<<>>} : IsDir(d) => \A c \in Children(d) :
    /\ Visible(c) # "absent" => Listed(c)
    /\ Listed(c) => Visible(c) # "absent" \/ (~HasRow(c) /\ Overlaid(c) # {})
    /\ Listed(c) /\ Overlaid(c) \subseteq {c} => ListedAs(c) = {Visible(c)}

-----------------------------------------------------------------------------
(* What a comment says of it and the code does not do.                     *)

(* ReaddirTyped "returns directory entries with name and type, so the FUSE *)
(* adapter doesn't need to call Getattr per child".                        *)
TypesListed ==
  \A d \in Paths \cup {<<>>} : IsDir(d) => \A c \in Children(d) :
    Visible(c) # "absent" => ListedAs(c) = {Visible(c)}
=============================================================================
