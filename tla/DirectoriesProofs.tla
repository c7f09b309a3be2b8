-------------------------- MODULE DirectoriesProofs --------------------------
(***************************************************************************)
(* Every live row of the overlay has its file or directory, listings and   *)
(* lookups agree, and what programs see of the names changes as FileTree   *)
(* says, for any set of paths that is closed under prefixes, any commits   *)
(* and any sequence of operations.                                         *)
(***************************************************************************)
EXTENDS Directories, TLAPS

-----------------------------------------------------------------------------
(* Paths.  What is used of them below are these facts, and not that they   *)
(* are sequences.                                                          *)

Names == UNION {{p[i] : i \in DOMAIN p} : p \in Paths}

LEMMA PathSeq ==
  ASSUME NEW p \in Paths
  PROVE  p \in Seq(Names) /\ Len(p) \in Nat /\ Len(p) > 0 /\ p # <<>>
<1>1. Paths \subseteq Seq(Names) \ {<<>>}
  BY DirectoriesAssumption DEF Names
<1>2. ASSUME NEW s \in Seq(Names), s # <<>> PROVE Len(s) \in Nat /\ Len(s) > 0
  BY <1>2
<1> QED
  BY <1>1, <1>2

LEMMA PrefixIsPath ==
  ASSUME NEW p \in Paths, NEW n \in 1..Len(p)
  PROVE  SubSeq(p, 1, n) \in Paths
BY DirectoriesAssumption

LEMMA Prefix ==
  ASSUME NEW p \in Seq(Names), NEW n \in Nat, n <= Len(p)
  PROVE  /\ SubSeq(p, 1, n) \in Seq(Names)
         /\ Len(SubSeq(p, 1, n)) = n
         /\ \A i \in 1..n : SubSeq(p, 1, n)[i] = p[i]
OBVIOUS

LEMMA SameSeq ==
  ASSUME NEW p \in Seq(Names), NEW q \in Seq(Names), Len(p) = Len(q),
         \A i \in 1..Len(p) : p[i] = q[i]
  PROVE  p = q
OBVIOUS

LEMMA StartsIff ==
  ASSUME NEW p \in Seq(Names), NEW q \in Seq(Names)
  PROVE  Starts(q, p) <=> Len(p) < Len(q) /\ \A i \in 1..Len(p) : q[i] = p[i]
<1> DEFINE s == SubSeq(q, 1, Len(p))
<1>1. ASSUME Len(p) < Len(q)
      PROVE  s \in Seq(Names) /\ Len(s) = Len(p) /\ \A i \in 1..Len(p) : s[i] = q[i]
  BY <1>1, Prefix
<1>2. ASSUME Len(p) < Len(q), \A i \in 1..Len(p) : q[i] = p[i]
      PROVE  s = p
  <2> HIDE DEF s
  <2> QED BY <1>1, <1>2, SameSeq
<1> QED
  BY <1>1, <1>2 DEF Starts

LEMMA Transitive ==
  ASSUME NEW p \in Paths, NEW q \in Paths, NEW x \in Paths, p \in Above(q), q \in Above(x)
  PROVE  p \in Above(x)
<1>1. p \in Seq(Names) /\ q \in Seq(Names) /\ x \in Seq(Names)
  BY PathSeq
<1>2. Len(p) < Len(q) /\ Len(q) < Len(x) /\ (\A i \in 1..Len(p) : q[i] = p[i]) /\ \A i \in 1..Len(q) : x[i] = q[i]
  BY <1>1, StartsIff DEF Above
<1>3. Len(p) < Len(x) /\ \A i \in 1..Len(p) : x[i] = p[i]
  BY <1>1, <1>2
<1> QED
  BY <1>1, <1>3, StartsIff DEF Above

LEMMA Irreflexive ==
  ASSUME NEW p \in Paths
  PROVE  p \notin Above(p) /\ p \notin Below(p)
BY PathSeq DEF Above, Below, Starts

LEMMA Converse ==
  ASSUME NEW p \in Paths, NEW q \in Paths
  PROVE  q \in Below(p) <=> p \in Above(q)
BY DEF Above, Below

(* Two directories above a path are above one another.                     *)
LEMMA Linear ==
  ASSUME NEW p \in Paths, NEW q \in Paths, NEW x \in Paths, p \in Above(x), q \in Above(x)
  PROVE  p = q \/ p \in Above(q) \/ q \in Above(p)
<1>1. p \in Seq(Names) /\ q \in Seq(Names) /\ x \in Seq(Names)
  BY PathSeq
<1>2. /\ Len(p) \in Nat /\ Len(q) \in Nat
      /\ \A i \in 1..Len(p) : x[i] = p[i]
      /\ \A i \in 1..Len(q) : x[i] = q[i]
  BY <1>1, StartsIff, PathSeq DEF Above
<1>3. CASE Len(p) = Len(q)
  BY <1>1, <1>2, <1>3, SameSeq
<1>4. CASE Len(p) < Len(q)
  <2>1. \A i \in 1..Len(p) : q[i] = p[i]
    BY <1>2, <1>4
  <2> QED
    BY <1>1, <1>4, <2>1, StartsIff DEF Above
<1>5. CASE Len(q) < Len(p)
  <2>1. \A i \in 1..Len(q) : p[i] = q[i]
    BY <1>2, <1>5
  <2> QED
    BY <1>1, <1>5, <2>1, StartsIff DEF Above
<1> QED
  BY <1>2, <1>3, <1>4, <1>5

(* The directories above a path are its parent and those above that.       *)
LEMMA ParentIs ==
  ASSUME NEW p \in Paths
  PROVE  \/ Parent(p) = <<>> /\ Above(p) = {}
         \/ Parent(p) \in Paths /\ Above(p) = Above(Parent(p)) \cup {Parent(p)}
<1>1. p \in Seq(Names) /\ Len(p) \in Nat /\ Len(p) > 0
  BY PathSeq
<1>2. /\ Parent(p) \in Seq(Names) /\ Len(Parent(p)) = Len(p) - 1
      /\ \A i \in 1..(Len(p) - 1) : Parent(p)[i] = p[i]
  <2>1. Len(p) - 1 \in Nat /\ Len(p) - 1 <= Len(p)
    BY <1>1
  <2> QED
    BY <1>1, <2>1, Prefix DEF Parent
<1>3. ASSUME NEW q \in Paths
      PROVE  q \in Above(p) <=> Len(q) < Len(p) /\ \A i \in 1..Len(q) : p[i] = q[i]
  BY <1>1, <1>3, StartsIff, PathSeq DEF Above
<1>4. CASE Len(p) = 1
  <2>1. Parent(p) = <<>>
    BY <1>2, <1>4
  <2>2. \A q \in Paths : Len(q) \in Nat /\ Len(q) > 0
    BY PathSeq
  <2>3. ASSUME NEW q \in Paths PROVE q \notin Above(p)
    <3>1. ~(Len(q) < Len(p))
      BY <1>4, <2>2
    <3> QED
      BY <1>3, <3>1
  <2> QED
    BY <2>1, <2>3 DEF Above
<1>5. CASE Len(p) > 1
  <2>1. Parent(p) \in Paths
    <3>1. Len(p) - 1 \in 1..Len(p)
      BY <1>1, <1>5
    <3> QED
      BY <3>1, PrefixIsPath DEF Parent
  <2>2. ASSUME NEW q \in Paths
        PROVE  q \in Above(Parent(p))
                 <=> Len(q) < Len(p) - 1 /\ \A i \in 1..Len(q) : p[i] = q[i]
    <3>1. q \in Seq(Names) /\ Len(q) \in Nat
      BY <2>2, PathSeq
    <3>2. q \in Above(Parent(p))
            <=> Len(q) < Len(p) - 1 /\ \A i \in 1..Len(q) : Parent(p)[i] = q[i]
      BY <1>2, <3>1, StartsIff DEF Above
    <3>3. Len(q) < Len(p) - 1 => \A i \in 1..Len(q) : Parent(p)[i] = p[i]
      BY <1>1, <1>2, <3>1
    <3> QED
      BY <3>2, <3>3
  <2>3. ASSUME NEW q \in Paths
        PROVE  q = Parent(p) <=> Len(q) = Len(p) - 1 /\ \A i \in 1..Len(q) : p[i] = q[i]
    <3>1. q \in Seq(Names) /\ Len(q) \in Nat
      BY <2>3, PathSeq
    <3>2. Len(q) = Len(p) - 1 /\ (\A i \in 1..Len(q) : p[i] = q[i])
            => \A i \in 1..Len(q) : q[i] = Parent(p)[i]
      BY <1>2
    <3>3. Len(q) = Len(p) - 1 /\ (\A i \in 1..Len(q) : p[i] = q[i]) => q = Parent(p)
      BY <1>2, <3>1, <3>2, SameSeq
    <3> QED
      BY <1>2, <3>3
  <2>4. \A q \in Paths : Len(q) \in Nat
    BY PathSeq
  <2>5. ASSUME NEW q \in Paths
        PROVE  q \in Above(p) <=> q \in Above(Parent(p)) \/ q = Parent(p)
    BY <1>1, <1>3, <2>2, <2>3, <2>4
  <2> QED
    BY <2>1, <2>5 DEF Above
<1>6. Len(p) = 1 \/ Len(p) > 1
  <2>1. \A n \in Nat : n > 0 => n = 1 \/ n > 1
    OBVIOUS
  <2> QED
    BY <1>1, <2>1
<1> QED
  BY <1>4, <1>5, <1>6

(* On the way from a directory to a path below it is a child.              *)
LEMMA ChildOnTheWay ==
  ASSUME NEW p \in Paths, NEW q \in Below(p)
  PROVE  \E c \in Children(p) : c = q \/ c \in Above(q)
<1> DEFINE c == SubSeq(q, 1, Len(p) + 1)
<1>1. /\ q \in Paths /\ q \in Seq(Names) /\ p \in Seq(Names) /\ Len(p) \in Nat /\ Len(q) \in Nat
      /\ Len(p) < Len(q) /\ \A i \in 1..Len(p) : q[i] = p[i]
  BY PathSeq, StartsIff DEF Below
<1>2. /\ c \in Seq(Names) /\ Len(c) = Len(p) + 1
      /\ \A i \in 1..(Len(p) + 1) : c[i] = q[i]
  BY <1>1, Prefix
<1>3. c \in Paths
  <2>1. Len(p) + 1 \in 1..Len(q)
    BY <1>1
  <2> QED
    BY <1>1, <2>1, PrefixIsPath
<1> HIDE DEF c
<1>4. /\ Parent(c) \in Seq(Names) /\ Len(Parent(c)) = Len(p)
      /\ \A i \in 1..Len(p) : Parent(c)[i] = c[i]
  BY <1>1, <1>2, Prefix DEF Parent
<1>5. ASSUME NEW i \in 1..Len(p) PROVE Parent(c)[i] = p[i]
  <2>1. i \in 1..(Len(p) + 1)
    BY <1>1
  <2>2. Parent(c)[i] = c[i] /\ c[i] = q[i] /\ q[i] = p[i]
    BY <1>1, <1>2, <1>4, <2>1
  <2> QED
    BY <2>2
<1>6. Parent(c) = p
  BY <1>1, <1>4, <1>5, SameSeq
<1>7. CASE Len(q) = Len(p) + 1
  <2>1. c = q
    BY <1>1, <1>2, <1>7, SameSeq
  <2> QED
    BY <1>3, <1>6, <2>1 DEF Children
<1>8. CASE Len(q) > Len(p) + 1
  <2>1. c \in Above(q)
    BY <1>1, <1>2, <1>3, <1>8, StartsIff DEF Above
  <2> QED
    BY <1>3, <1>6, <2>1 DEF Children
<1> QED
  BY <1>1, <1>7, <1>8

LEMMA Concatenation ==
  ASSUME NEW s \in Seq(Names), NEW t \in Seq(Names)
  PROVE  /\ s \o t \in Seq(Names) /\ Len(s \o t) = Len(s) + Len(t)
         /\ \A i \in 1..Len(s) : (s \o t)[i] = s[i]
         /\ \A i \in (Len(s) + 1)..(Len(s) + Len(t)) : (s \o t)[i] = t[i - Len(s)]
<1>1. s \o t \in Seq(Names) /\ Len(s \o t) = Len(s) + Len(t)
  OBVIOUS
<1>2. \A i \in 1..Len(s) : (s \o t)[i] = s[i]
  OBVIOUS
<1>3. \A i \in (Len(s) + 1)..(Len(s) + Len(t)) : (s \o t)[i] = t[i - Len(s)]
  OBVIOUS
<1> QED
  BY <1>1, <1>2, <1>3

(* Where a directory is moved, what is below it goes along.                *)
LEMMA FromIs ==
  ASSUME NEW p \in Paths, NEW q \in Paths, NEW x \in Paths, x = q \/ x \in Below(q)
  PROVE  /\ From(p, q, x) \in Seq(Names)
         /\ Len(From(p, q, x)) = Len(p) + Len(x) - Len(q)
         /\ \A i \in 1..Len(p) : From(p, q, x)[i] = p[i]
         /\ \A i \in (Len(p) + 1)..(Len(p) + Len(x) - Len(q)) :
              From(p, q, x)[i] = x[i - Len(p) + Len(q)]
<1> DEFINE t == SubSeq(x, Len(q) + 1, Len(x))
<1>1. /\ p \in Seq(Names) /\ Len(p) \in Nat /\ q \in Seq(Names) /\ Len(q) \in Nat
      /\ x \in Seq(Names) /\ Len(x) \in Nat
  BY PathSeq
<1>2. Len(q) <= Len(x)
  BY <1>1, StartsIff DEF Below
<1>3. /\ t \in Seq(Names) /\ Len(t) = Len(x) - Len(q)
      /\ \A i \in 1..(Len(x) - Len(q)) : t[i] = x[i + Len(q)]
  BY <1>1, <1>2
<1> HIDE DEF t
<1>4. /\ p \o t \in Seq(Names) /\ Len(p \o t) = Len(p) + Len(t)
      /\ \A i \in 1..Len(p) : (p \o t)[i] = p[i]
      /\ \A i \in (Len(p) + 1)..(Len(p) + Len(t)) : (p \o t)[i] = t[i - Len(p)]
  BY <1>1, <1>3, Concatenation
<1>5. From(p, q, x) = p \o t
  BY DEF From, t
<1>6. ASSUME NEW i \in (Len(p) + 1)..(Len(p) + Len(x) - Len(q))
      PROVE  (p \o t)[i] = x[i - Len(p) + Len(q)]
  <2>1. i - Len(p) \in 1..(Len(x) - Len(q)) /\ i \in (Len(p) + 1)..(Len(p) + Len(t))
    BY <1>1, <1>2, <1>3
  <2>2. t[i - Len(p)] = x[i - Len(p) + Len(q)]
    BY <1>3, <2>1
  <2> QED
    BY <1>4, <2>1, <2>2
<1> QED
  BY <1>3, <1>4, <1>5, <1>6, <1>1

LEMMA FromSelf ==
  ASSUME NEW p \in Paths, NEW q \in Paths
  PROVE  From(p, q, q) = p
<1>1. p \in Seq(Names) /\ Len(p) \in Nat /\ Len(q) \in Nat
  BY PathSeq
<1>2. /\ From(p, q, q) \in Seq(Names) /\ Len(From(p, q, q)) = Len(p) + Len(q) - Len(q)
      /\ \A i \in 1..Len(p) : From(p, q, q)[i] = p[i]
  BY FromIs
<1> QED
  BY <1>1, <1>2, SameSeq

LEMMA FromBelow ==
  ASSUME NEW p \in Paths, NEW q \in Paths, NEW x \in Below(q), From(p, q, x) \in Paths
  PROVE  From(p, q, x) \in Below(p)
<1> DEFINE y == From(p, q, x)
<1>1. /\ p \in Seq(Names) /\ Len(p) \in Nat /\ q \in Seq(Names) /\ Len(q) \in Nat
      /\ x \in Paths /\ x \in Seq(Names) /\ Len(x) \in Nat
  BY PathSeq DEF Below
<1>2. Len(q) < Len(x)
  BY <1>1, StartsIff DEF Below
<1>3. /\ y \in Seq(Names) /\ Len(y) = Len(p) + Len(x) - Len(q)
      /\ \A i \in 1..Len(p) : y[i] = p[i]
  BY <1>1, FromIs
<1> HIDE DEF y
<1>4. Len(p) < Len(y)
  BY <1>1, <1>2, <1>3
<1>5. Starts(y, p)
  BY <1>1, <1>3, <1>4, StartsIff
<1> QED
  BY <1>5 DEF Below, y

(* The directories on the way from a moved directory are moved with it.    *)
LEMMA FromAbove ==
  ASSUME NEW p \in Paths, NEW q \in Paths, NEW x \in Below(q), NEW y \in Above(x), y \in Below(q),
         From(p, q, x) \in Paths
  PROVE  From(p, q, y) \in Paths /\ From(p, q, y) \in Above(From(p, q, x))
<1> DEFINE u == From(p, q, x)
           v == From(p, q, y)
<1>1. /\ p \in Seq(Names) /\ Len(p) \in Nat /\ q \in Seq(Names) /\ Len(q) \in Nat
      /\ x \in Paths /\ x \in Seq(Names) /\ Len(x) \in Nat
      /\ y \in Paths /\ y \in Seq(Names) /\ Len(y) \in Nat /\ Len(p) > 0
  BY PathSeq DEF Below
<1>2. /\ Len(q) < Len(y) /\ Len(y) < Len(x)
      /\ \A i \in 1..Len(y) : x[i] = y[i]
  BY <1>1, StartsIff DEF Below, Above
<1>3. /\ u \in Seq(Names) /\ Len(u) = Len(p) + Len(x) - Len(q)
      /\ \A i \in 1..Len(p) : u[i] = p[i]
      /\ \A i \in (Len(p) + 1)..(Len(p) + Len(x) - Len(q)) : u[i] = x[i - Len(p) + Len(q)]
  BY <1>1, FromIs, ZenonT(40)
<1>4. /\ v \in Seq(Names) /\ Len(v) = Len(p) + Len(y) - Len(q)
      /\ \A i \in 1..Len(p) : v[i] = p[i]
      /\ \A i \in (Len(p) + 1)..(Len(p) + Len(y) - Len(q)) : v[i] = y[i - Len(p) + Len(q)]
  BY <1>1, FromIs, ZenonT(40)
<1>5. u \in Paths
  OBVIOUS
<1> HIDE DEF u, v
<1>6. Len(v) \in Nat /\ Len(v) < Len(u) /\ Len(v) \in 1..Len(u) /\ Len(u) \in Nat
  BY <1>1, <1>2, <1>3, <1>4
<1>7. ASSUME NEW i \in 1..Len(v) PROVE u[i] = v[i]
  <2>1. CASE i <= Len(p)
    BY <1>1, <1>3, <1>4, <2>1
  <2>2. CASE i > Len(p)
    <3>1. /\ i \in (Len(p) + 1)..(Len(p) + Len(y) - Len(q))
          /\ i \in (Len(p) + 1)..(Len(p) + Len(x) - Len(q))
          /\ i - Len(p) + Len(q) \in 1..Len(y)
      BY <1>1, <1>2, <1>4, <2>2
    <3>2. x[i - Len(p) + Len(q)] = y[i - Len(p) + Len(q)]
      BY <1>2, <3>1
    <3> QED
      BY <1>3, <1>4, <3>1, <3>2
  <2> QED
    BY <1>1, <1>6, <2>1, <2>2
<1>8. SubSeq(u, 1, Len(v)) = v
  <2>1. /\ SubSeq(u, 1, Len(v)) \in Seq(Names) /\ Len(SubSeq(u, 1, Len(v))) = Len(v)
        /\ \A i \in 1..Len(v) : SubSeq(u, 1, Len(v))[i] = u[i]
    BY <1>3, <1>6, Prefix
  <2>2. \A i \in 1..Len(v) : SubSeq(u, 1, Len(v))[i] = v[i]
    BY <1>7, <2>1
  <2> QED
    BY <1>4, <2>1, <2>2, SameSeq
<1>9. v \in Paths
  BY <1>5, <1>6, <1>8, PrefixIsPath
<1>10. v \in Above(u)
  BY <1>6, <1>8, <1>9 DEF Above, Starts
<1> QED
  BY <1>9, <1>10 DEF u, v

-----------------------------------------------------------------------------
(* What is under upper/.                                                   *)

Kinds   == {"create", "modify", "rename", "delete", "mkdir"}
RowType == {NoRow} \cup [kind : Kinds, src : Oids \cup {NoPath}, target : Paths \cup {NoPath}]
Entries == {"none", "file", "dir"}

(* A state of the disk is a tree of files and directories.                 *)
IsDisk(d) ==
  /\ d \in [Paths -> Entries]
  /\ \A p \in Paths : d[p] # "none" => \A q \in Above(p) : d[q] = "dir"

IInv == TypeOK /\ row \in [Paths -> RowType] /\ IsDisk(disk) /\ RowsHaveFiles

LEMMA AboveSort == \A p \in Paths : Above(p) \subseteq Paths /\ Below(p) \subseteq Paths
BY DEF Above, Below

(* The file next to a path.                                                *)
LEMMA Sibling ==
  ASSUME NEW p \in Paths, Tmp[p] # NoPath
  PROVE  Tmp[p] \in Paths /\ Tmp[p] # p /\ Above(Tmp[p]) = Above(p)
<1>1. Tmp[p] \in Paths /\ Tmp[p] # p /\ Parent(Tmp[p]) = Parent(p)
  BY DirectoriesAssumption
<1>2. <<>> \notin Paths
  BY DirectoriesAssumption
<1> QED
  BY <1>1, <1>2, ParentIs

LEMMA MadeIs ==
  ASSUME NEW d, IsDisk(d), NEW p \in Paths, CanMake(d, p)
  PROVE  /\ IsDisk(Made(d, p))
         /\ \A q \in Above(p) : Made(d, p)[q] = "dir"
         /\ \A q \in Paths \ Above(p) : Made(d, p)[q] = d[q]
<1>1. /\ \A q \in Above(p) : Made(d, p)[q] = "dir"
      /\ \A q \in Paths \ Above(p) : Made(d, p)[q] = d[q]
      /\ Made(d, p) \in [Paths -> Entries]
  BY AboveSort DEF Made, IsDisk, Entries
<1>2. ASSUME NEW x \in Paths, Made(d, p)[x] # "none", NEW y \in Above(x)
      PROVE  Made(d, p)[y] = "dir"
  <2>1. y \in Paths
    BY AboveSort
  <2>2. CASE x \in Above(p)
    BY <1>1, <2>1, <2>2, Transitive
  <2>3. CASE x \notin Above(p)
    <3>1. d[y] = "dir"
      BY <1>1, <1>2, <2>3 DEF IsDisk
    <3> QED
      BY <1>1, <2>1, <3>1
  <2> QED
    BY <2>2, <2>3
<1> QED
  BY <1>1, <1>2 DEF IsDisk

(* A file or directory that is put where its directory is.                 *)
LEMMA Put ==
  ASSUME NEW d, IsDisk(d), NEW p \in Paths, NEW k \in {"file", "dir"}, d[p] \in {"none", k},
         \A q \in Above(p) : d[q] = "dir"
  PROVE  /\ IsDisk([d EXCEPT ![p] = k])
         /\ [d EXCEPT ![p] = k][p] = k
         /\ \A q \in Paths \ {p} : [d EXCEPT ![p] = k][q] = d[q]
<1> DEFINE e == [d EXCEPT ![p] = k]
<1>1. e \in [Paths -> Entries] /\ e[p] = k /\ \A q \in Paths \ {p} : e[q] = d[q]
  BY DEF IsDisk, Entries
<1> HIDE DEF e
<1>2. ASSUME NEW x \in Paths, e[x] # "none", NEW y \in Above(x)
      PROVE  e[y] = "dir"
  <2>1. y \in Paths
    BY AboveSort
  <2>2. CASE x = p
    BY <1>1, <2>1, <2>2, Irreflexive
  <2>3. CASE x # p
    <3>1. d[y] = "dir"
      BY <1>1, <1>2, <2>3 DEF IsDisk
    <3> QED
      BY <1>1, <2>1, <3>1
  <2> QED
    BY <2>2, <2>3
<1>3. IsDisk(e)
  BY <1>1, <1>2 DEF IsDisk
<1> QED
  BY <1>1, <1>3 DEF e

(* Where there is no directory, nothing is below.                          *)
LEMMA NothingBelow ==
  ASSUME NEW d, IsDisk(d), NEW p \in Paths, d[p] # "dir"
  PROVE  \A x \in Below(p) : d[x] = "none"
BY AboveSort, Converse DEF IsDisk, Entries

LEMMA CopiedIs ==
  ASSUME IsDisk(disk), NEW p \in Paths, CanCopy(p)
  PROVE  /\ IsDisk(Copied(p))
         /\ Copied(p)[p] = "file"
         /\ \A q \in Above(p) : Copied(p)[q] = "dir"
         /\ Tmp[p] # NoPath => Copied(p)[Tmp[p]] = "none"
         /\ \A q \in Paths \ (Above(p) \cup {p, Tmp[p]}) : Copied(p)[q] = disk[q]
<1> DEFINE m == Made(disk, p)
<1>1. /\ IsDisk(m)
      /\ \A q \in Above(p) : m[q] = "dir"
      /\ \A q \in Paths \ Above(p) : m[q] = disk[q]
  BY MadeIs DEF CanCopy
<1> HIDE DEF m
<1>2. Copied(p) = [q \in Paths |-> IF q = p THEN "file" ELSE IF q = Tmp[p] THEN "none" ELSE m[q]]
  <2>1. Tmp[p] # p
    BY DirectoriesAssumption
  <2>2. \A q \in Paths : Copied(p)[q] = IF q = p THEN "file" ELSE IF q = Tmp[p] THEN "none" ELSE m[q]
    BY <2>1 DEF Copied, m
  <2> QED
    BY <2>2 DEF Copied
<1>3. Copied(p)[p] = "file" /\ Copied(p) \in [Paths -> Entries]
  BY <1>1, <1>2 DEF IsDisk, Entries
<1>4. Tmp[p] # NoPath => Copied(p)[Tmp[p]] = "none"
  BY <1>2, Sibling
<1>5. \A q \in Paths \ {p, Tmp[p]} : Copied(p)[q] = m[q]
  BY <1>2
<1>6. Tmp[p] \notin Above(p) /\ p \notin Above(p) /\ Above(p) \subseteq Paths
  BY Sibling, Irreflexive, AboveSort, DirectoriesAssumption
<1>7. \A q \in Above(p) : Copied(p)[q] = "dir"
  BY <1>1, <1>5, <1>6
<1>8. disk[p] # "dir" /\ (Tmp[p] # NoPath => disk[Tmp[p]] # "dir")
  BY DEF CanCopy
<1>9. ASSUME NEW x \in Paths, Copied(p)[x] # "none", NEW y \in Above(x)
      PROVE  Copied(p)[y] = "dir"
  <2>1. y \in Paths
    BY AboveSort
  <2>2. CASE x = p
    BY <1>7, <2>2
  <2>3. CASE x # p
    <3>1. x # Tmp[p]
      BY <1>4, <1>9, DirectoriesAssumption
    <3>2. m[y] = "dir"
      BY <1>1, <1>5, <1>9, <2>3, <3>1 DEF IsDisk
    <3>3. CASE y \in Above(p)
      BY <1>7, <3>3
    <3>4. CASE y \notin Above(p)
      <4>1. disk[y] = "dir"
        BY <1>1, <2>1, <3>2, <3>4
      <4>2. y # p /\ y # Tmp[p]
        BY <1>8, <2>1, <4>1, DirectoriesAssumption
      <4> QED
        BY <1>5, <2>1, <3>2, <4>2
    <3> QED
      BY <3>3, <3>4
  <2> QED
    BY <2>2, <2>3
<1>10. IsDisk(Copied(p))
  BY <1>3, <1>9 DEF IsDisk
<1> QED
  BY <1>1, <1>3, <1>4, <1>5, <1>7, <1>10

LEMMA RemovedIs ==
  ASSUME IsDisk(disk), NEW p \in Paths
  PROVE  IsDisk(Removed(p)) /\ \A q \in Paths \ {p} : Removed(p)[q] = disk[q]
<1>1. CASE \A q \in Below(p) : disk[q] = "none"
  <2>1. /\ Removed(p) \in [Paths -> Entries] /\ Removed(p)[p] = "none"
        /\ \A q \in Paths \ {p} : Removed(p)[q] = disk[q]
    BY <1>1 DEF Removed, IsDisk, Entries
  <2>2. ASSUME NEW x \in Paths, Removed(p)[x] # "none", NEW y \in Above(x)
        PROVE  Removed(p)[y] = "dir"
    <3>1. x # p /\ x \notin Below(p) /\ y \in Paths
      BY <1>1, <2>1, <2>2, AboveSort
    <3>2. y # p
      BY <3>1, <2>2, Converse
    <3> QED
      BY <2>1, <2>2, <3>1, <3>2 DEF IsDisk
  <2> QED
    BY <2>1, <2>2 DEF IsDisk
<1>2. CASE ~\A q \in Below(p) : disk[q] = "none"
  BY <1>2 DEF Removed
<1> QED
  BY <1>1, <1>2

-----------------------------------------------------------------------------
(* What operations meet on the way to a path, and leave there.             *)

LEMMA ResolveIs ==
  ASSUME TypeOK, NEW p \in Paths
  PROVE  /\ ~HasRow(p) => Resolve(p) = KindOf(shown[p])
         /\ Live(p) => Resolve(p) = NodeType(p)
         /\ HasRow(p) /\ ~Live(p) => Resolve(p) = "absent"
         /\ NodeType(p) \in {"dir", "file"}
         /\ ~HasRow(p) => row[p].kind = "none" /\ ~Live(p)
BY DEF Resolve, HasRow, Live, NodeType, NoRow

LEMMA TreeIs ==
  ASSUME NEW t \in Trees, NEW p \in Paths
  PROVE  /\ t[p] \in Oids \cup {Absent, Dir}
         /\ KindOf(t[p]) = "file" => t[p] \in Oids
         /\ KindOf(t[p]) = "dir" <=> t[p] = Dir
         /\ KindOf(t[p]) = "absent" <=> t[p] = Absent
         /\ KindOf(t[p]) \in {"absent", "dir", "file"}
<1>1. t[p] \in Oids \cup {Absent, Dir} /\ Absent # Dir
  BY DirectoriesAssumption
<1> QED
  BY <1>1 DEF KindOf

LEMMA VisibleIs ==
  ASSUME NEW p \in Paths, Visible(p) # "absent"
  PROVE  Visible(p) = Resolve(p) /\ \A q \in Above(p) : Resolve(q) = "dir"
BY DEF Visible

(* In a directory that can be reached, every directory above can be.       *)
LEMMA InDirectory ==
  ASSUME NEW p \in Paths, IsDir(Parent(p))
  PROVE  \A q \in Above(p) : Resolve(q) = "dir"
<1>1. <<>> \notin Paths
  BY DirectoriesAssumption
<1>2. CASE Above(p) = {}
  BY <1>2
<1>3. CASE Parent(p) \in Paths /\ Above(p) = Above(Parent(p)) \cup {Parent(p)}
  <2>1. Visible(Parent(p)) = "dir"
    BY <1>1, <1>3 DEF IsDir
  <2>2. Resolve(Parent(p)) = "dir" /\ \A q \in Above(Parent(p)) : Resolve(q) = "dir"
    BY <1>3, <2>1, VisibleIs
  <2> QED
    BY <1>3, <2>2
<1> QED
  BY <1>2, <1>3, ParentIs

(* Nothing lives at a path that is free.                                   *)
LEMMA FreePath ==
  ASSUME TypeOK, NEW p \in Paths, MayAdd(p)
  PROVE  ~Live(p) /\ Resolve(p) = "absent" /\ \A q \in Above(p) : Resolve(q) = "dir"
<1>1. \A q \in Above(p) : Resolve(q) = "dir"
  BY InDirectory DEF MayAdd
<1>2. Resolve(p) = "absent"
  BY <1>1 DEF MayAdd, Visible
<1> QED
  BY <1>1, <1>2, ResolveIs

(* A row above a path that can be reached is a directory's.                *)
LEMMA RowOnTheWay ==
  ASSUME TypeOK, NEW p \in Paths, \A q \in Above(p) : Resolve(q) = "dir"
  PROVE  \A q \in Above(p) : Live(q) => NodeType(q) = "dir"
BY ResolveIs, AboveSort

(* A step that gives every live row, but those it counts as lost, what its *)
(* row says.                                                               *)
LEMMA StepKeeps ==
  ASSUME IInv, row' \in [Paths -> RowType], IsDisk(disk'), head' \in Trees, shown' \in Trees,
         NEW S \in SUBSET Paths, Loses(S),
         \A x \in Paths : Live(x)' => x \in lost \cup S \/ disk'[x] = NodeType(x)'
  PROVE  IInv'
<1>1. lost' = {x \in lost \cup S : Live(x)' /\ disk'[x] # NodeType(x)'}
  BY DEF Loses
<1>2. TypeOK'
  <2>1. lost' \subseteq Paths
    BY <1>1 DEF IInv, TypeOK
  <2> QED
    BY <2>1 DEF TypeOK, IsDisk, Entries, RowType, Kinds, NoRow
<1>3. RowsHaveFiles'
  BY <1>1 DEF RowsHaveFiles
<1> QED
  BY <1>2, <1>3 DEF IInv

(* What a step leaves of the rows it does not touch.                       *)
LEMMA Elsewhere ==
  ASSUME IInv, NEW x \in Paths, row'[x] = row[x]
  PROVE  /\ Live(x)' <=> Live(x)
         /\ NodeType(x)' = NodeType(x)
         /\ Live(x) => x \in lost \/ disk[x] = NodeType(x)
BY DEF IInv, RowsHaveFiles, Live, HasRow, NodeType

LEMMA TypesOf == IInv => /\ TypeOK /\ IsDisk(disk) /\ row \in [Paths -> RowType]
                         /\ head \in Trees /\ shown \in Trees /\ lost \subseteq Paths
                         /\ disk \in [Paths -> Entries]
BY DEF IInv, TypeOK, Entries

LEMMA RowIs ==
  ASSUME NEW k \in Kinds, NEW s \in Oids \cup {NoPath}, NEW t \in Paths \cup {NoPath}
  PROVE  Row(k, s, t) \in RowType /\ Row(k, s, t).kind = k
BY DEF Row, RowType

-----------------------------------------------------------------------------
(* The operations.                                                         *)

LEMMA CreateKeeps ==
  ASSUME IInv, NEW p \in Paths, CreateFile(p)
  PROVE  IInv'
<1> DEFINE m == Made(disk, p)
<1>1. /\ IsDisk(m) /\ \A q \in Above(p) : m[q] = "dir"
      /\ \A q \in Paths \ Above(p) : m[q] = disk[q]
  BY TypesOf, MadeIs DEF CreateFile
<1>2. disk' = [m EXCEPT ![p] = "file"] /\ m[p] \in {"none", "file"}
  BY <1>1, TypesOf, Irreflexive DEF CreateFile, Entries
<1> HIDE DEF m
<1>3. /\ IsDisk(disk') /\ disk'[p] = "file" /\ \A q \in Paths \ {p} : disk'[q] = m[q]
  BY <1>1, <1>2, Put, ZenonT(40)
<1>4. /\ row' \in [Paths -> RowType] /\ row'[p].kind = "create"
      /\ \A x \in Paths \ {p} : row'[x] = row[x]
  <2>1. Row("create", NoPath, NoPath) \in RowType /\ Row("create", NoPath, NoPath).kind = "create"
    BY RowIs DEF Kinds
  <2> QED
    BY <2>1, TypesOf DEF CreateFile
<1>5. \A q \in Above(p) : Live(q) => NodeType(q) = "dir"
  BY FreePath, RowOnTheWay, TypesOf DEF CreateFile
<1>6. ASSUME NEW x \in Paths, Live(x)' PROVE x \in lost \cup {} \/ disk'[x] = NodeType(x)'
  <2>1. CASE x = p
    BY <1>3, <1>4, <2>1 DEF NodeType
  <2>2. CASE x # p
    <3>1. Live(x) /\ NodeType(x)' = NodeType(x) /\ (x \in lost \/ disk[x] = NodeType(x))
      BY <1>4, <1>6, <2>2, Elsewhere
    <3> QED
      BY <1>1, <1>3, <1>5, <2>2, <3>1
  <2> QED
    BY <2>1, <2>2
<1> QED
  BY <1>3, <1>4, <1>6, StepKeeps, TypesOf DEF CreateFile

LEMMA MkdirKeeps ==
  ASSUME IInv, NEW p \in Paths, Mkdir(p)
  PROVE  IInv'
<1> DEFINE m == Made(disk, p)
<1>1. /\ IsDisk(m) /\ \A q \in Above(p) : m[q] = "dir"
      /\ \A q \in Paths \ Above(p) : m[q] = disk[q]
  BY TypesOf, MadeIs DEF Mkdir
<1>2. disk' = [m EXCEPT ![p] = "dir"] /\ m[p] \in {"none", "dir"}
  BY <1>1, TypesOf, Irreflexive DEF Mkdir, Entries
<1> HIDE DEF m
<1>3. /\ IsDisk(disk') /\ disk'[p] = "dir" /\ \A q \in Paths \ {p} : disk'[q] = m[q]
  BY <1>1, <1>2, Put
<1>4. /\ row' \in [Paths -> RowType] /\ row'[p].kind = "mkdir"
      /\ \A x \in Paths \ {p} : row'[x] = row[x]
  <2>1. Row("mkdir", NoPath, NoPath) \in RowType /\ Row("mkdir", NoPath, NoPath).kind = "mkdir"
    BY RowIs DEF Kinds
  <2> QED
    BY <2>1, TypesOf DEF Mkdir
<1>5. \A q \in Above(p) : Live(q) => NodeType(q) = "dir"
  BY FreePath, VisibleIs, RowOnTheWay, TypesOf DEF Mkdir
<1>6. ASSUME NEW x \in Paths, Live(x)' PROVE x \in lost \cup {} \/ disk'[x] = NodeType(x)'
  <2>1. CASE x = p
    BY <1>3, <1>4, <2>1 DEF NodeType
  <2>2. CASE x # p
    <3>1. Live(x) /\ NodeType(x)' = NodeType(x) /\ (x \in lost \/ disk[x] = NodeType(x))
      BY <1>4, <1>6, <2>2, Elsewhere
    <3> QED
      BY <1>1, <1>3, <1>5, <2>2, <3>1
  <2> QED
    BY <2>1, <2>2
<1> QED
  BY <1>3, <1>4, <1>6, StepKeeps, TypesOf DEF Mkdir

-----------------------------------------------------------------------------
(* Operations on files, and the refresh.                                   *)

LEMMA TakenSort == \A p \in Paths : Taken(p) \subseteq Paths
BY DEF Taken

(* A copy keeps what the other rows say, but for the row whose file has    *)
(* the name of its temporary file.                                         *)
LEMMA CopyKeeps ==
  ASSUME IInv, NEW p \in Paths, ~HasRow(p), CanCopy(p), \A q \in Above(p) : Resolve(q) = "dir"
  PROVE  \A x \in Paths \ {p} : Live(x) => x \in lost \cup Taken(p) \/ Copied(p)[x] = NodeType(x)
<1> SUFFICES ASSUME NEW x \in Paths \ {p}, Live(x), x \notin lost, x \notin Taken(p)
             PROVE  Copied(p)[x] = NodeType(x)
  OBVIOUS
<1>1. disk[x] = NodeType(x) /\ NodeType(x) \in {"dir", "file"}
  BY TypesOf, ResolveIs DEF IInv, RowsHaveFiles
<1>2. CASE x \in Above(p)
  BY <1>2, CopiedIs, RowOnTheWay, TypesOf
<1>3. CASE x = Tmp[p]
  <2>1. disk[x] # "dir"
    BY <1>3, DirectoriesAssumption DEF CanCopy
  <2> QED
    BY <1>1, <1>3, <2>1 DEF Taken
<1>4. CASE x \notin Above(p) /\ x # Tmp[p]
  BY <1>1, <1>4, CopiedIs, TypesOf
<1> QED
  BY <1>2, <1>3, <1>4

(* The source of a rename is copied if it is only the commit's.            *)
LEMMA ReadyIs ==
  ASSUME IInv, NEW p \in Paths, HasRow(p) \/ CanCopy(p), \A q \in Above(p) : Resolve(q) = "dir"
  PROVE  /\ IsDisk(Ready(p))
         /\ ~HasRow(p) => Ready(p)[p] = "file"
         /\ \A x \in Paths : Live(x) => x \in lost \cup Taken(p) \/ Ready(p)[x] = NodeType(x)
<1>1. CASE HasRow(p)
  BY <1>1, TypesOf DEF Ready, IInv, RowsHaveFiles
<1>2. CASE ~HasRow(p)
  <2>1. Ready(p) = Copied(p) /\ CanCopy(p) /\ ~Live(p)
    BY <1>2 DEF Ready, Live
  <2>2. IsDisk(Ready(p)) /\ Ready(p)[p] = "file"
    BY <2>1, CopiedIs, TypesOf
  <2>3. \A x \in Paths \ {p} : Live(x) => x \in lost \cup Taken(p) \/ Ready(p)[x] = NodeType(x)
    BY <1>2, <2>1, CopyKeeps
  <2> QED
    BY <2>1, <2>2, <2>3
<1> QED
  BY <1>1, <1>2

LEMMA WriteKeeps ==
  ASSUME IInv, NEW p \in Paths, Write(p)
  PROVE  IInv'
<1>1. Visible(p) = "file" /\ Resolve(p) = "file" /\ \A q \in Above(p) : Resolve(q) = "dir"
  BY VisibleIs DEF Write
<1>2. CASE ~HasRow(p)
  <2>1. CanCopy(p) /\ disk' = Copied(p) /\ row' = [row EXCEPT ![p] = Row("modify", shown[p], NoPath)]
    BY <1>2 DEF Write
  <2>2. shown[p] \in Oids
    BY <1>1, <1>2, ResolveIs, TreeIs, TypesOf
  <2>3. Row("modify", shown[p], NoPath) \in RowType /\ Row("modify", shown[p], NoPath).kind = "modify"
    BY <2>2, RowIs DEF Kinds
  <2>4. /\ row' \in [Paths -> RowType] /\ row'[p].kind = "modify"
        /\ \A x \in Paths \ {p} : row'[x] = row[x]
    BY <2>1, <2>3, TypesOf
  <2>5. IsDisk(disk') /\ disk'[p] = "file"
    BY <2>1, CopiedIs, TypesOf
  <2>6. ASSUME NEW x \in Paths, Live(x)'
        PROVE  x \in lost \cup Taken(p) \/ disk'[x] = NodeType(x)'
    <3>1. CASE x = p
      BY <2>4, <2>5, <3>1 DEF NodeType
    <3>2. CASE x # p
      <4>1. Live(x) /\ NodeType(x)' = NodeType(x)
        BY <2>4, <2>6, <3>2, Elsewhere
      <4> QED
        BY <1>1, <1>2, <2>1, <3>2, <4>1, CopyKeeps
    <3> QED
      BY <3>1, <3>2
  <2> QED
    BY <2>4, <2>5, <2>6, StepKeeps, TypesOf, TakenSort DEF Write
<1>3. CASE HasRow(p)
  <2>1. /\ disk[p] # "dir" /\ \A q \in Above(p) : disk[q] = "dir"
        /\ disk' = [disk EXCEPT ![p] = "file"]
        /\ row' = [row EXCEPT ![p].kind = IF @ = "create" THEN @ ELSE "modify"]
    BY <1>3 DEF Write
  <2>2. /\ IsDisk(disk') /\ disk'[p] = "file" /\ \A q \in Paths \ {p} : disk'[q] = disk[q]
    BY <2>1, Put, TypesOf, ZenonT(40) DEF Entries
  <2>3. /\ row' \in [Paths -> RowType] /\ row'[p].kind \in {"create", "modify"}
        /\ \A x \in Paths \ {p} : row'[x] = row[x]
    <3> DEFINE k == IF row[p].kind = "create" THEN "create" ELSE "modify"
               r == [row[p] EXCEPT !.kind = k]
    <3>1. row[p] \in [kind : Kinds, src : Oids \cup {NoPath}, target : Paths \cup {NoPath}]
      BY <1>3, TypesOf DEF RowType, HasRow
    <3>2. r \in RowType /\ r.kind \in {"create", "modify"}
      BY <3>1 DEF RowType, Kinds
    <3>3. row' = [row EXCEPT ![p] = r]
      BY <2>1, TypesOf
    <3> HIDE DEF r
    <3> QED
      BY <3>2, <3>3, TypesOf
  <2>4. ASSUME NEW x \in Paths, Live(x)'
        PROVE  x \in lost \cup Taken(p) \/ disk'[x] = NodeType(x)'
    <3>1. CASE x = p
      BY <2>2, <2>3, <3>1 DEF NodeType
    <3>2. CASE x # p
      BY <2>2, <2>3, <2>4, <3>2, Elsewhere
    <3> QED
      BY <3>1, <3>2
  <2> QED
    BY <2>2, <2>3, <2>4, StepKeeps, TypesOf, TakenSort DEF Write
<1> QED
  BY <1>2, <1>3

LEMMA WhitenKeeps ==
  ASSUME IInv, NEW p \in Paths, Whiten(p)
  PROVE  IInv'
<1>1. IsDisk(disk') /\ \A q \in Paths \ {p} : disk'[q] = disk[q]
  BY RemovedIs, TypesOf DEF Whiten
<1>2. /\ row' \in [Paths -> RowType] /\ row'[p].kind = "delete"
      /\ \A x \in Paths \ {p} : row'[x] = row[x]
  <2>1. Row("delete", NoPath, NoPath) \in RowType /\ Row("delete", NoPath, NoPath).kind = "delete"
    BY RowIs DEF Kinds
  <2> QED
    BY <2>1, TypesOf DEF Whiten, Whiteout
<1>3. ASSUME NEW x \in Paths, Live(x)' PROVE x \in lost \cup {} \/ disk'[x] = NodeType(x)'
  <2>1. x # p
    BY <1>2, <1>3 DEF Live
  <2> QED
    BY <1>1, <1>2, <1>3, <2>1, Elsewhere
<1> QED
  BY <1>1, <1>2, <1>3, StepKeeps, TypesOf DEF Whiten

LEMMA CopyFailsKeeps ==
  ASSUME IInv, NEW p \in Paths, CopyFails(p)
  PROVE  IInv'
<1> DEFINE t == Tmp[p]
<1>1. /\ t \in Paths /\ Above(t) = Above(p) /\ disk[t] # "dir" /\ disk' = [disk EXCEPT ![t] = "file"]
      /\ disk[p] = "dir" /\ row' = row
  BY Sibling DEF CopyFails
<1> HIDE DEF t
<1>2. \A q \in Above(t) : disk[q] = "dir"
  BY <1>1, TypesOf DEF IsDisk
<1>3. IsDisk(disk') /\ disk'[t] = "file" /\ \A q \in Paths \ {t} : disk'[q] = disk[q]
  BY <1>1, <1>2, Put, TypesOf, ZenonT(40) DEF Entries
<1>4. ASSUME NEW x \in Paths, Live(x)' PROVE x \in lost \cup {} \/ disk'[x] = NodeType(x)'
  <2>1. Live(x) /\ NodeType(x)' = NodeType(x) /\ (x \in lost \/ disk[x] = NodeType(x))
    BY <1>1, <1>4, Elsewhere
  <2>2. NodeType(x) \in {"dir", "file"}
    BY ResolveIs, TypesOf
  <2>3. CASE x = t
    BY <1>1, <1>3, <2>1, <2>2, <2>3
  <2>4. CASE x # t
    BY <1>3, <2>1, <2>4
  <2> QED
    BY <2>3, <2>4
<1> QED
  BY <1>1, <1>3, <1>4, StepKeeps, TypesOf DEF CopyFails

LEMMA ReconcileKeeps ==
  ASSUME IInv, Reconcile
  PROVE  IInv'
<1> DEFINE S == Stale(head')
           F == {p \in S : Live(p)}
           E == Erased(F)
<1>1. /\ row' = [p \in Paths |-> IF p \in S THEN NoRow ELSE row[p]]
      /\ disk' = [p \in Paths |-> IF p \in E THEN "none" ELSE disk[p]]
  BY DEF Reconcile
<1>2. E \subseteq F /\ F \subseteq S
  BY DEF Erased
<1>3. \A p \in Paths : p \in E <=> p \in F /\ \A q \in Below(p) : disk[q] # "none" => q \in F
  BY DEF Erased
<1> HIDE DEF S, F, E
<1>4. NoRow \in RowType /\ NoRow.kind = "none"
  BY DEF NoRow, RowType
<1>5. row' \in [Paths -> RowType]
  BY <1>1, <1>4, TypesOf
<1>6. disk' \in [Paths -> Entries]
  BY <1>1, TypesOf DEF Entries
<1>7. ASSUME NEW x \in Paths, disk'[x] # "none", NEW y \in Above(x)
      PROVE  disk'[y] = "dir"
  <2>1. y \in Paths /\ x \in Below(y)
    BY AboveSort, Converse
  <2>2. x \notin E /\ disk[x] # "none" /\ disk[y] = "dir"
    BY <1>1, <1>7, TypesOf DEF IsDisk
  <2>3. y \notin E
    <3>1. SUFFICES ASSUME y \in E PROVE x \in E
      BY <2>2
    <3>2. x \in F
      BY <1>3, <2>1, <2>2, <3>1
    <3>3. ASSUME NEW z \in Below(x), disk[z] # "none" PROVE z \in F
      <4>1. z \in Below(y)
        BY <2>1, Transitive, Converse, AboveSort
      <4> QED
        BY <1>3, <2>1, <3>1, <3>3, <4>1
    <3> QED
      BY <1>3, <3>2, <3>3
  <2> QED
    BY <1>1, <2>1, <2>2, <2>3
<1>8. IsDisk(disk')
  BY <1>6, <1>7 DEF IsDisk
<1>9. ASSUME NEW x \in Paths, Live(x)' PROVE x \in lost \cup {} \/ disk'[x] = NodeType(x)'
  <2>1. x \notin S
    BY <1>1, <1>9 DEF Live, HasRow
  <2>2. row'[x] = row[x] /\ disk'[x] = disk[x]
    BY <1>1, <1>2, <2>1
  <2> QED
    BY <1>9, <2>2, Elsewhere
<1> QED
  BY <1>5, <1>8, <1>9, StepKeeps, TypesOf DEF Reconcile

-----------------------------------------------------------------------------
(* Renames.                                                                *)

(* Nothing is at or below two paths neither of which is above the other.   *)
LEMMA Apart ==
  ASSUME NEW p \in Paths, NEW q \in Paths, q \notin {p} \cup Below(p) \cup Above(p),
         NEW x \in {q} \cup Below(q)
  PROVE  /\ x \in Paths /\ x \notin {p} \cup Below(p)
         /\ p \notin {q} \cup Below(q) \cup Above(q)
<1>1. x \in Paths
  BY AboveSort
<1>2. p \notin Above(q) /\ q \notin Above(p) /\ p # q
  BY Converse
<1>3. CASE x = q
  BY <1>1, <1>2, <1>3, Converse
<1>4. CASE x \in Below(q)
  <2>1. q \in Above(x)
    BY <1>1, <1>4, Converse
  <2>2. x # p /\ x \notin Below(p)
    BY <1>1, <1>2, <2>1, Converse, Linear
  <2> QED
    BY <1>1, <1>2, <2>2, Converse
<1> QED
  BY <1>3, <1>4

LEMMA MovedIs ==
  ASSUME NEW d, IsDisk(d), NEW p \in Paths, NEW q \in Paths,
         q \notin {p} \cup Below(p) \cup Above(p), \A y \in Above(q) : d[y] = "dir"
  PROVE  /\ IsDisk(Moved(d, p, q))
         /\ Moved(d, p, q)[q] = d[p]
         /\ \A x \in {p} \cup Below(p) : Moved(d, p, q)[x] = "none"
         /\ \A x \in Paths \ ({p, q} \cup Below(p) \cup Below(q)) : Moved(d, p, q)[x] = d[x]
<1> DEFINE m == Moved(d, p, q)
<1>1. d \in [Paths -> Entries] /\ "none" \in Entries
  BY DEF IsDisk, Entries
<1>2. \A x \in {q} \cup Below(q) :
        m[x] = IF From(p, q, x) \in Paths THEN d[From(p, q, x)] ELSE "none"
  BY Apart DEF Moved
<1>3. \A x \in {p} \cup Below(p) : m[x] = "none"
  BY Apart, AboveSort DEF Moved
<1>4. \A x \in Paths \ ({p, q} \cup Below(p) \cup Below(q)) : m[x] = d[x]
  BY DEF Moved
<1>5. m[q] = d[p]
  BY <1>2, FromSelf
<1>6. m = [x \in Paths |-> m[x]]
  BY DEF Moved
<1> HIDE DEF m
<1>7. m \in [Paths -> Entries]
  <2>1. ASSUME NEW x \in Paths PROVE m[x] \in Entries
    BY <1>1, <1>2, <1>3, <1>4
  <2> QED
    BY <1>6, <2>1
<1>8. \A y \in Above(q) : m[y] = "dir"
  <2> SUFFICES ASSUME NEW y \in Above(q) PROVE m[y] = "dir"
    OBVIOUS
  <2>1. y \in Paths /\ y \notin {q} \cup Below(q)
    BY AboveSort, Irreflexive, Converse, Transitive
  <2>2. y \notin {p} \cup Below(p)
    BY <2>1, Apart, Converse, Transitive
  <2> QED
    BY <1>4, <2>1, <2>2
<1>9. ASSUME NEW x \in Paths, m[x] # "none", NEW y \in Above(x)
      PROVE  m[y] = "dir"
  <2>0. y \in Paths
    BY AboveSort
  <2>1. x \notin {p} \cup Below(p)
    BY <1>3, <1>9
  <2>2. CASE x = q
    BY <1>8, <1>9, <2>2
  <2>3. CASE x \in Below(q)
    <3>1. From(p, q, x) \in Paths /\ d[From(p, q, x)] # "none"
      BY <1>2, <1>9, <2>3
    <3>2. \A z \in Above(From(p, q, x)) : d[z] = "dir"
      BY <3>1 DEF IsDisk
    <3>3. CASE y = q
      BY <1>5, <2>3, <3>1, <3>2, <3>3, FromBelow, Converse
    <3>4. CASE y \in Below(q)
      BY <1>2, <2>3, <3>1, <3>2, <3>4, <1>9, FromAbove
    <3>5. CASE y \in Above(q)
      BY <1>8, <3>5
    <3> QED
      BY <1>9, <2>0, <2>3, <3>3, <3>4, <3>5, Linear, Converse
  <2>4. CASE x \notin {q} \cup Below(q)
    <3>1. d[x] # "none"
      BY <1>4, <1>9, <2>1, <2>4
    <3>2. d[y] = "dir"
      BY <1>9, <3>1 DEF IsDisk
    <3>3. y \notin {p} \cup Below(p)
      BY <1>9, <2>0, <2>1, Converse, Transitive
    <3>4. y \notin {q} \cup Below(q)
      BY <1>9, <2>0, <2>4, Converse, Transitive
    <3> QED
      BY <1>4, <2>0, <3>2, <3>3, <3>4
  <2> QED
    BY <2>2, <2>3, <2>4
<1>10. IsDisk(m)
  BY <1>7, <1>9 DEF IsDisk
<1> QED
  BY <1>3, <1>4, <1>5, <1>10 DEF m

(* What a rename, or one that fails, may rely on.                          *)
LEMMA MayRenameIs ==
  ASSUME IInv, NEW p \in Paths, NEW q \in Paths, MayRename(p, q)
  PROVE  /\ Visible(p) = Resolve(p) /\ Visible(p) \in {"file", "dir"}
         /\ \A y \in Above(p) : Resolve(y) = "dir"
         /\ \A y \in Above(q) : Resolve(y) = "dir"
         /\ q \notin {p} \cup Below(p) \cup Above(p)
         /\ p \notin {q} \cup Below(q) \cup Above(q)
         /\ HasRow(p) => Live(p) /\ NodeType(p) = Visible(p)
         /\ row[p].kind = "mkdir" => Visible(p) = "dir" /\ shown[p] = Absent /\ shown[q] = Absent
         /\ row[p].kind # "mkdir" => Visible(p) = "file" /\ shown[q] # Dir
         /\ ~HasRow(p) => shown[p] \in Oids
         /\ row[p].kind # "delete"
<1>1. Visible(p) = Resolve(p) /\ Visible(p) # "absent" /\ \A y \in Above(p) : Resolve(y) = "dir"
  BY VisibleIs DEF MayRename
<1>2. \A y \in Above(q) : Resolve(y) = "dir"
  BY InDirectory DEF MayRename
<1>3. q \notin {p} \cup Below(p) \cup Above(p) /\ p \notin {q} \cup Below(q) \cup Above(q)
  BY Apart DEF MayRename
<1>4. HasRow(p) => Live(p) /\ NodeType(p) = Visible(p)
  BY <1>1, ResolveIs, TypesOf
<1>5. row[p].kind # "delete"
  BY <1>4 DEF Live, HasRow, NoRow
<1>6. /\ row[p].kind = "mkdir" => shown[p] = Absent /\ shown[q] = Absent
      /\ row[p].kind # "mkdir" => Visible(p) = "file" /\ shown[q] # Dir
  BY DEF MayRename
<1>7. row[p].kind = "mkdir" => Visible(p) = "dir"
  BY <1>4 DEF NodeType, HasRow, NoRow
<1>8. ~HasRow(p) => shown[p] \in Oids
  BY <1>1, <1>6, ResolveIs, TreeIs, TypesOf
<1> QED
  BY <1>1, <1>2, <1>3, <1>4, <1>5, <1>6, <1>7, <1>8

(* The disk when the directories of the target have been made.             *)
LEMMA PreparedIs ==
  ASSUME IInv, NEW p \in Paths, NEW q \in Paths, MayRename(p, q), HasRow(p) \/ CanCopy(p),
         CanMake(Ready(p), q)
  PROVE  /\ IsDisk(Made(Ready(p), q))
         /\ \A y \in Above(q) : Made(Ready(p), q)[y] = "dir"
         /\ ~HasRow(p) => Made(Ready(p), q)[p] = "file"
         /\ \A x \in Paths : Live(x) => x \in lost \cup Taken(p) \/ Made(Ready(p), q)[x] = NodeType(x)
<1>1. /\ IsDisk(Ready(p))
      /\ ~HasRow(p) => Ready(p)[p] = "file"
      /\ \A x \in Paths : Live(x) => x \in lost \cup Taken(p) \/ Ready(p)[x] = NodeType(x)
  BY MayRenameIs, ReadyIs
<1>2. /\ IsDisk(Made(Ready(p), q))
      /\ \A y \in Above(q) : Made(Ready(p), q)[y] = "dir"
      /\ \A y \in Paths \ Above(q) : Made(Ready(p), q)[y] = Ready(p)[y]
  BY <1>1, MadeIs
<1>3. p \notin Above(q) /\ \A y \in Above(q) : Live(y) => NodeType(y) = "dir"
  BY MayRenameIs, RowOnTheWay, TypesOf
<1> QED
  BY <1>1, <1>2, <1>3

LEMMA NewRowIs ==
  ASSUME IInv, NEW p \in Paths, NEW q \in Paths, MayRename(p, q)
  PROVE  /\ NewRow(p, q) \in RowType /\ OldRow(p) \in RowType
         /\ NewRow(p, q).kind \in {"create", "modify", "rename", "mkdir"}
         /\ NewRow(p, q).kind = "mkdir" <=> row[p].kind = "mkdir"
         /\ OldRow(p).kind \in {"none", "delete"}
<1>1. /\ row[p] \in RowType /\ row[p].kind # "delete"
      /\ ~HasRow(p) => shown[p] \in Oids /\ row[p].kind = "none"
      /\ HasRow(p) => row[p].kind \in Kinds /\ row[p].src \in Oids \cup {NoPath}
      /\ row[p].kind = "create" => shown[q] # Dir
  BY MayRenameIs, TypesOf DEF RowType, HasRow, NoRow
<1>2. Origin(p) \in Paths
  BY <1>1 DEF Origin, RowType, NoRow
<1>3. OldRow(p) \in RowType /\ OldRow(p).kind \in {"none", "delete"}
  <2>1. Row("delete", NoPath, Origin(p)) \in RowType /\ Row("delete", NoPath, Origin(p)).kind = "delete"
    BY <1>2, RowIs DEF Kinds
  <2>2. NoRow \in RowType /\ NoRow.kind = "none"
    BY DEF NoRow, RowType
  <2> QED
    BY <2>1, <2>2 DEF OldRow, Whiteout
<1>4. CASE row[p].kind = "create"
  <2>1. HasRow(p) /\ shown[q] \in Oids \cup {Absent}
    BY <1>1, <1>4, TreeIs, TypesOf
  <2>2. NewRow(p, q) = IF shown[q] # Absent THEN Row("modify", shown[q], NoPath)
                                            ELSE Row("create", NoPath, NoPath)
    BY <1>4, <2>1 DEF NewRow
  <2> QED
    BY <1>3, <1>4, <2>1, <2>2, RowIs DEF Kinds
<1>5. CASE row[p].kind = "mkdir"
  <2>1. HasRow(p)
    BY <1>1, <1>5
  <2>2. NewRow(p, q) = Row("mkdir", NoPath, NoPath)
    BY <1>5, <2>1 DEF NewRow
  <2> QED
    BY <1>3, <1>5, <2>2, RowIs DEF Kinds
<1>6. CASE row[p].kind \in {"modify", "rename"}
  <2>1. HasRow(p)
    BY <1>1, <1>6
  <2>2. NewRow(p, q) = Row("rename", row[p].src, Origin(p))
    BY <1>6, <2>1 DEF NewRow
  <2> QED
    BY <1>1, <1>2, <1>3, <1>6, <2>1, <2>2, RowIs DEF Kinds
<1>7. CASE ~HasRow(p)
  <2>1. NewRow(p, q) = Row("rename", shown[p], p)
    BY <1>1, <1>7 DEF NewRow
  <2> QED
    BY <1>1, <1>3, <1>7, <2>1, RowIs DEF Kinds
<1> QED
  BY <1>1, <1>4, <1>5, <1>6, <1>7 DEF Kinds

-----------------------------------------------------------------------------
(* A rename, and the theorems.                                             *)

LEMMA FollowsSort == \A p, q \in Paths : Follows(p, q) \subseteq Paths
BY AboveSort DEF Follows

LEMMA RenameKeeps ==
  ASSUME IInv, NEW p \in Paths, NEW q \in Paths, Rename(p, q)
  PROVE  IInv'
<1> DEFINE d == Made(Ready(p), q)
           S == Taken(p) \cup Follows(p, q)
<1>1. /\ MayRename(p, q) /\ (HasRow(p) \/ CanCopy(p)) /\ CanMake(Ready(p), q)
      /\ ~HasDescendants(p) /\ ~HasRow(q) /\ CanMove(d, p, q) /\ disk' = Moved(d, p, q)
      /\ Loses(S) /\ head' = head /\ shown' = shown
  BY DEF Rename
<1>2. /\ IsDisk(d) /\ \A y \in Above(q) : d[y] = "dir"
      /\ \A x \in Paths : Live(x) => x \in lost \cup Taken(p) \/ d[x] = NodeType(x)
  BY <1>1, PreparedIs
<1>3. ~HasRow(p) => d[p] = "file"
  BY <1>1, PreparedIs
<1>4. /\ q \notin {p} \cup Below(p) \cup Above(p)
      /\ p \notin {q} \cup Below(q) \cup Above(q)
  BY <1>1, MayRenameIs
<1>5. (\A x \in Below(q) : d[x] = "none") /\ d[p] # "none"
  BY <1>1 DEF CanMove
<1>6. S \in SUBSET Paths
  BY TakenSort, FollowsSort
<1>7. Taken(p) \subseteq S /\ Follows(p, q) \subseteq S
  OBVIOUS
<1> HIDE DEF d, S
<1>8. /\ IsDisk(disk') /\ disk'[q] = d[p]
      /\ \A x \in {p} \cup Below(p) : disk'[x] = "none"
      /\ \A x \in Paths \ ({p, q} \cup Below(p) \cup Below(q)) : disk'[x] = d[x]
  BY <1>1, <1>2, <1>4, MovedIs
<1>9. /\ row' = [x \in Paths |-> row'[x]]
      /\ row'[q] = NewRow(p, q)
      /\ row'[p] = OldRow(p)
      /\ \A x \in Below(p) : row'[x] = IF row[p].kind = "mkdir" /\ HasRow(x) THEN NoRow ELSE row[x]
      /\ \A x \in Paths \ ({p, q} \cup Below(p)) : row'[x] = row[x]
  <2>1. p # q /\ q \notin Below(p) /\ p \notin Below(p) /\ Below(p) \subseteq Paths
    BY <1>4, Irreflexive, AboveSort
  <2>2. row' = [x \in Paths |-> CASE x = q -> NewRow(p, q)
                               [] x = p -> OldRow(p)
                               [] row[p].kind = "mkdir" /\ x \in Below(p) /\ HasRow(x) -> NoRow
                               [] OTHER -> row[x]]
    BY DEF Rename
  <2>3. \A x \in Below(p) : row'[x] = IF row[p].kind = "mkdir" /\ HasRow(x) THEN NoRow ELSE row[x]
    <3> SUFFICES ASSUME NEW x \in Below(p)
                 PROVE  row'[x] = IF row[p].kind = "mkdir" /\ HasRow(x) THEN NoRow ELSE row[x]
      OBVIOUS
    <3>1. x \in Paths /\ x # p /\ x # q
      BY <2>1
    <3> QED
      BY <2>2, <3>1
  <2> QED
    BY <2>1, <2>2, <2>3
<1>10. /\ NewRow(p, q) \in RowType /\ OldRow(p) \in RowType
       /\ NewRow(p, q).kind \in {"create", "modify", "rename", "mkdir"}
       /\ NewRow(p, q).kind = "mkdir" <=> row[p].kind = "mkdir"
       /\ OldRow(p).kind \in {"none", "delete"}
  BY <1>1, NewRowIs
<1>11. row' \in [Paths -> RowType]
  <2>1. ASSUME NEW x \in Paths PROVE row'[x] \in RowType
    BY <1>9, <1>10, TypesOf DEF RowType
  <2> QED
    BY <1>9, <2>1
<1>12. ASSUME NEW x \in Paths, Live(x)' PROVE x \in lost \cup S \/ disk'[x] = NodeType(x)'
  <2>1. CASE x = q
    <3>1. NodeType(q)' = IF row[p].kind = "mkdir" THEN "dir" ELSE "file"
      BY <1>9, <1>10 DEF NodeType
    <3>2. CASE HasRow(p)
      <4>1. Live(p) /\ NodeType(p) = NodeType(q)' /\ Taken(p) = {}
        BY <1>1, <3>1, <3>2, MayRenameIs DEF NodeType, Taken
      <4>2. CASE p \in lost
        BY <1>7, <2>1, <4>2 DEF Follows
      <4>3. CASE p \notin lost
        BY <1>2, <1>8, <2>1, <4>1, <4>3
      <4> QED
        BY <4>2, <4>3
    <3>3. CASE ~HasRow(p)
      BY <1>3, <1>8, <2>1, <3>1, <3>3, ResolveIs, TypesOf
    <3> QED
      BY <3>2, <3>3
  <2>2. x # p
    <3>1. SUFFICES ASSUME x = p PROVE FALSE
      OBVIOUS
    <3>2. row'[p].kind \in {"none", "delete"} /\ row'[p] \in RowType
      BY <1>9, <1>10
    <3> QED
      BY <1>12, <3>1, <3>2 DEF Live, HasRow, RowType, Kinds
  <2>3. CASE x \in Below(p)
    <3>1. row'[x] = row[x] /\ Live(x)
      BY <1>9, <1>12, <2>3 DEF Live, HasRow
    <3>2. row[p].kind # "mkdir"
      BY <1>1, <2>3, <3>1 DEF HasDescendants
    <3>3. x \in lost \cup Taken(p) \/ d[x] = NodeType(x)
      BY <1>2, <3>1
    <3>4. CASE d[p] = "file"
      <4>1. d[x] = "none"
        BY <1>2, <2>3, <3>4, NothingBelow
      <4> QED
        BY <1>7, <3>3, <4>1, ResolveIs, TypesOf
    <3>5. CASE d[p] = "dir"
      <4>1. HasRow(p)
        BY <1>3, <3>5
      <4>2. Live(p) /\ NodeType(p) = "file" /\ p \notin Taken(p)
        BY <1>1, <3>2, <4>1, MayRenameIs DEF Taken
      <4>3. p \in lost
        BY <1>2, <3>5, <4>2
      <4> QED
        BY <1>7, <2>3, <4>3 DEF Follows
    <3> QED
      BY <1>2, <1>5, <3>4, <3>5 DEF IsDisk, Entries
  <2>4. CASE x \in Below(q)
    <3>1. x \notin {p} \cup Below(p) /\ x # q
      BY <1>4, <2>4, Apart, Irreflexive
    <3>2. row'[x] = row[x] /\ Live(x)
      BY <1>9, <1>12, <3>1 DEF Live, HasRow
    <3>3. d[x] = "none"
      BY <1>5, <2>4
    <3> QED
      BY <1>2, <1>7, <3>2, <3>3, ResolveIs, TypesOf
  <2>5. CASE x \notin {p, q} \cup Below(p) \cup Below(q)
    <3>1. row'[x] = row[x] /\ disk'[x] = d[x]
      BY <1>8, <1>9, <2>5
    <3>2. Live(x) /\ NodeType(x)' = NodeType(x)
      BY <1>12, <3>1, Elsewhere
    <3> QED
      BY <1>2, <1>7, <3>1, <3>2
  <2> QED
    BY <2>1, <2>2, <2>3, <2>4, <2>5
<1> QED
  BY <1>1, <1>6, <1>8, <1>11, <1>12, StepKeeps, TypesOf

LEMMA RenameFailsKeeps ==
  ASSUME IInv, NEW p \in Paths, NEW q \in Paths, RenameFails(p, q)
  PROVE  IInv'
<1>1. /\ MayRename(p, q) /\ (HasRow(p) \/ CanCopy(p)) /\ Loses(Taken(p))
      /\ row' = IF HasRow(p) THEN row ELSE [row EXCEPT ![p] = Row("modify", shown[p], NoPath)]
      /\ disk' = IF CanMake(Ready(p), q) THEN Made(Ready(p), q) ELSE Ready(p)
      /\ head' = head /\ shown' = shown
  BY DEF RenameFails
<1>2. \A y \in Above(p) : Resolve(y) = "dir"
  BY <1>1, MayRenameIs
<1>3. /\ IsDisk(disk')
      /\ ~HasRow(p) => disk'[p] = "file"
      /\ \A x \in Paths : Live(x) => x \in lost \cup Taken(p) \/ disk'[x] = NodeType(x)
  BY <1>1, <1>2, ReadyIs, PreparedIs
<1>4. CASE HasRow(p)
  <2>1. row' = row
    BY <1>1, <1>4
  <2>2. ASSUME NEW x \in Paths, Live(x)' PROVE x \in lost \cup Taken(p) \/ disk'[x] = NodeType(x)'
    BY <1>3, <2>1, <2>2, Elsewhere
  <2> QED
    BY <1>1, <1>3, <2>1, <2>2, StepKeeps, TypesOf, TakenSort
<1>5. CASE ~HasRow(p)
  <2>1. Row("modify", shown[p], NoPath) \in RowType /\ Row("modify", shown[p], NoPath).kind = "modify"
    BY <1>1, <1>5, MayRenameIs, RowIs DEF Kinds
  <2>2. /\ row' \in [Paths -> RowType] /\ row'[p].kind = "modify"
        /\ \A x \in Paths \ {p} : row'[x] = row[x]
    BY <1>1, <1>5, <2>1, TypesOf
  <2>3. ASSUME NEW x \in Paths, Live(x)' PROVE x \in lost \cup Taken(p) \/ disk'[x] = NodeType(x)'
    <3>1. CASE x = p
      BY <1>3, <1>5, <2>2, <3>1 DEF NodeType
    <3>2. CASE x # p
      BY <1>3, <2>2, <2>3, <3>2, Elsewhere
    <3> QED
      BY <3>1, <3>2
  <2> QED
    BY <1>1, <1>3, <2>2, <2>3, StepKeeps, TypesOf, TakenSort
<1> QED
  BY <1>4, <1>5

LEMMA InvariantStep == IInv /\ [Next]_vars => IInv'
<1> SUFFICES ASSUME IInv, [Next]_vars PROVE IInv'
  OBVIOUS
<1>1. ASSUME NEW p \in Paths, CreateFile(p) \/ Mkdir(p) \/ Write(p) \/ CopyFails(p) PROVE IInv'
  BY <1>1, CreateKeeps, MkdirKeeps, WriteKeeps, CopyFailsKeeps
<1>2. ASSUME NEW p \in Paths, Unlink(p) \/ Rmdir(p) PROVE IInv'
  BY <1>2, WhitenKeeps DEF Unlink, Rmdir
<1>3. ASSUME NEW p \in Paths, NEW q \in Paths, Rename(p, q) \/ RenameFails(p, q) PROVE IInv'
  BY <1>3, RenameKeeps, RenameFailsKeeps
<1>4. CASE Reconcile
  BY <1>4, ReconcileKeeps
<1>5. CASE ReconcileFails \/ SetGeneration \/ UNCHANGED vars
  <2>1. /\ row' = row /\ disk' = disk /\ lost' = lost
        /\ head' \in Trees /\ shown' \in Trees
    BY <1>5, TypesOf DEF ReconcileFails, SetGeneration, vars
  <2> QED
    BY <2>1 DEF IInv, TypeOK, RowsHaveFiles, Live, HasRow, NodeType
<1> QED
  BY <1>1, <1>2, <1>3, <1>4, <1>5 DEF Next, Operation, Refresh

(* The overlay's directory is a tree of files and directories, and every   *)
(* live row has its own there (store.go).                                  *)
THEOREM DirectoriesInvariant == Spec => []IInv
<1>1. Init => IInv
  <2> SUFFICES ASSUME Init PROVE IInv
    OBVIOUS
  <2>1. TypeOK /\ row \in [Paths -> RowType] /\ IsDisk(disk)
    BY DEF Init, TypeOK, NoRow, RowType, IsDisk, Entries
  <2>2. RowsHaveFiles
    BY DEF Init, RowsHaveFiles, Live, HasRow
  <2> QED
    BY <2>1, <2>2 DEF IInv
<1> QED
  BY <1>1, InvariantStep, PTL DEF Spec

(* Rows, files and trees keep their types over every operation and commit. *)
THEOREM DirectoriesTypes == Spec => []TypeOK
<1>1. IInv => TypeOK
  BY DEF IInv
<1> QED
  BY <1>1, DirectoriesInvariant, PTL

(* A live row has its file or directory under upper/, whatever was created,*)
(* renamed, removed or pruned over and under it before (store.go).         *)
THEOREM NamesHaveFiles == Spec => []RowsHaveFiles
<1>1. IInv => RowsHaveFiles
  BY DEF IInv
<1> QED
  BY <1>1, DirectoriesInvariant, PTL

-----------------------------------------------------------------------------
(* Listings and lookups.                                                   *)

LEMMA ChildrenAgree ==
  ASSUME IInv, NEW d \in Paths \cup {<<>>}, IsDir(d), NEW c \in Children(d)
  PROVE  /\ Visible(c) # "absent" => Listed(c)
         /\ Listed(c) => Visible(c) # "absent" \/ (~HasRow(c) /\ Overlaid(c) # {})
         /\ Listed(c) /\ Overlaid(c) \subseteq {c} => ListedAs(c) = {Visible(c)}
<1>1. c \in Paths /\ IsDir(Parent(c))
  BY DEF Children
<1>2. Visible(c) = Resolve(c)
  BY <1>1, InDirectory DEF Visible
<1>3. /\ c \notin Below(c)
      /\ shown[c] = Absent <=> KindOf(shown[c]) = "absent"
  BY <1>1, Irreflexive, TreeIs, TypesOf
<1>4. CASE HasRow(c)
  <2>1. c \in Overlaid(c) /\ (Live(c) <=> row[c].kind # "delete")
    BY <1>1, <1>4 DEF Overlaid, Live
  <2>2. Live(c) => Resolve(c) = NodeType(c) /\ Resolve(c) # "absent"
    BY <1>1, ResolveIs, TypesOf
  <2>3. ~Live(c) => Resolve(c) = "absent"
    BY <1>1, <1>4, ResolveIs, TypesOf
  <2>4. ASSUME Overlaid(c) \subseteq {c} PROVE ListedAs(c) = {NodeType(c)}
    <3>1. Overlaid(c) = {c} /\ Overlaid(c) \cap Below(c) = {}
      BY <1>3, <2>1, <2>4
    <3>2. {r \in Overlaid(c) : Overlaid(c) \cap Below(r) = {}} = {c}
      BY <3>1
    <3> QED
      BY <3>1, <3>2 DEF ListedAs
  <2> QED
    BY <1>2, <2>1, <2>2, <2>3, <2>4 DEF Listed
<1>5. CASE ~HasRow(c)
  <2>1. Resolve(c) = KindOf(shown[c]) /\ row[c].kind # "delete" /\ c \notin Overlaid(c)
    BY <1>1, <1>5, ResolveIs, TypesOf DEF Overlaid
  <2>2. Overlaid(c) \subseteq {c} => ListedAs(c) = {KindOf(shown[c])}
    BY <2>1 DEF ListedAs
  <2> QED
    BY <1>2, <1>3, <1>5, <2>1, <2>2 DEF Listed
<1> QED
  BY <1>4, <1>5

(* A directory's listing has just what can be looked up in it, but for the *)
(* directories a commit took from above a row (ReaddirTyped, ResolvePath). *)
THEOREM ListingsAndLookupsAgree == Spec => []ListingsAgree
<1>1. IInv => ListingsAgree
  BY ChildrenAgree DEF ListingsAgree
<1> QED
  BY <1>1, DirectoriesInvariant, PTL

-----------------------------------------------------------------------------
(* The tree that programs see.                                             *)

LEMMA SameNames ==
  /\ \A p : Promise!Below(p) = Below(p)
  /\ \A p : Promise!Parent(p) = Parent(p)
  /\ \A v : Promise!KindOf(v) = KindOf(v)
BY DEF Promise!Below, Below, Promise!Starts, Starts, Promise!Parent, Parent, Promise!KindOf, KindOf

LEMMA SeenIs == \A p \in Paths : Seen[p] = Visible(p) /\ Seen'[p] = Visible(p)'
BY DEF Seen

(* A tree of a commit is seen as it is.                                    *)
LEMMA InitSeen == Init => Promise!Init
<1> SUFFICES ASSUME Init PROVE Promise!Init
  OBVIOUS
<1>1. shown \in Trees /\ IsTree(shown) /\ Absent # Dir
  BY DirectoriesAssumption DEF Init
<1>2. ASSUME NEW p \in Paths PROVE Visible(p) = KindOf(shown[p])
  <2>1. \A q \in Paths : Resolve(q) = KindOf(shown[q])
    BY DEF Init, Resolve, HasRow, Live
  <2>2. CASE shown[p] = Absent
    BY <1>1, <2>1, <2>2 DEF Visible, KindOf
  <2>3. CASE shown[p] # Absent
    <3>1. \A q \in Above(p) : Resolve(q) = "dir"
      BY <1>1, <2>1, <2>3, AboveSort DEF IsTree, KindOf
    <3> QED
      BY <2>1, <3>1 DEF Visible
  <2> QED
    BY <2>2, <2>3
<1> QED
  BY <1>2, SameNames DEF Promise!Init, Seen, Init

(* Nothing is ever seen outside a directory.                               *)
LEMMA SeenInDirectories == Promise!InDirs
<1> SUFFICES ASSUME NEW p \in Paths, Visible(p) # "absent", Parent(p) # <<>>
             PROVE  Parent(p) \in Paths /\ Visible(Parent(p)) = "dir"
  BY SeenIs, SameNames DEF Promise!InDirs, Promise!IsDir
<1>1. Parent(p) \in Paths /\ Above(p) = Above(Parent(p)) \cup {Parent(p)}
  BY ParentIs
<1> QED
  BY <1>1, VisibleIs DEF Visible

LEMMA StillInDirectories == Promise!InDirs'
BY SeenInDirectories, PTL

(* Where nothing on the way to a path has changed, it is seen as before.   *)
LEMMA SeenElsewhere ==
  ASSUME NEW C, \A x \in Paths \ C : Resolve(x)' = Resolve(x),
         NEW x \in Paths, x \notin C, Above(x) \cap C = {}
  PROVE  Visible(x)' = Visible(x)
BY AboveSort DEF Visible

LEMMA BesideSeen ==
  ASSUME NEW p \in Paths, \A x \in Paths \ {p} : Resolve(x)' = Resolve(x),
         NEW x \in Paths \ ({p} \cup Below(p))
  PROVE  Visible(x)' = Visible(x)
<1>1. x \in Paths /\ x # p /\ p \notin Above(x) /\ Above(x) \subseteq Paths
  BY Converse, AboveSort
<1> QED
  BY <1>1 DEF Visible

LEMMA SeenSame ==
  ASSUME \A x \in Paths : Resolve(x)' = Resolve(x)
  PROVE  Seen' = Seen
<1>1. \A x \in Paths : Visible(x)' = Visible(x)
  BY AboveSort DEF Visible
<1> QED
  BY <1>1 DEF Seen

(* What is resolved where the row stays.                                   *)
LEMMA ResolvedElsewhere ==
  ASSUME shown' = shown, NEW x \in Paths, row'[x] = row[x]
  PROVE  Resolve(x)' = Resolve(x)
BY DEF Resolve, HasRow, Live, NodeType

LEMMA ResolvedRow ==
  ASSUME NEW x \in Paths, row'[x].kind \in Kinds
  PROVE  Resolve(x)' = CASE row'[x].kind = "delete" -> "absent" [] row'[x].kind = "mkdir" -> "dir"
                         [] OTHER -> "file"
BY DEF Resolve, HasRow, Live, NodeType, NoRow, Kinds

(* A new name.                                                             *)
LEMMA AddSeen ==
  ASSUME NEW p \in Paths, NEW k \in {"file", "dir"}, MayAdd(p), UNCHANGED <<head, shown>>,
         Resolve(p)' = k, \A x \in Paths \ {p} : Resolve(x)' = Resolve(x)
  PROVE  Promise!Next
<1>1. Visible(p)' = k
  <2>1. \A y \in Above(p) : Resolve(y)' = "dir"
    BY InDirectory, Irreflexive, AboveSort DEF MayAdd
  <2> QED
    BY <2>1 DEF Visible
<1>2. ASSUME NEW x \in Paths \ ({p} \cup Below(p)) PROVE Visible(x)' = Visible(x)
  BY <1>2, BesideSeen
<1>3. Promise!IsDir(Promise!Parent(p))
  BY ParentIs, SeenIs, SameNames DEF MayAdd, IsDir, Promise!IsDir
<1>4. Promise!Add(p, k)
  BY <1>1, <1>2, <1>3, SeenIs, SameNames DEF Promise!Add, MayAdd
<1> QED
  BY <1>4, StillInDirectories DEF Promise!Next, Promise!Operation

(* A name that goes.                                                       *)
LEMMA RemoveSeen ==
  ASSUME NEW p \in Paths, Visible(p) # "absent", \A x \in Below(p) : Visible(x) = "absent",
         UNCHANGED <<head, shown>>,
         Resolve(p)' = "absent", \A x \in Paths \ {p} : Resolve(x)' = Resolve(x)
  PROVE  Promise!Next
<1>1. Visible(p)' = "absent"
  BY DEF Visible
<1>2. \A x \in Below(p) : Visible(x)' = "absent"
  BY Converse, AboveSort DEF Visible
<1>3. ASSUME NEW x \in Paths \ ({p} \cup Below(p)) PROVE Visible(x)' = Visible(x)
  BY <1>3, BesideSeen
<1>4. Seen' = [Seen EXCEPT ![p] = "absent"]
  BY <1>1, <1>2, <1>3, AboveSort DEF Seen
<1>5. Promise!Remove(p)
  BY <1>4, SeenIs, SameNames, AboveSort DEF Promise!Remove, Promise!Empty
<1> QED
  BY <1>5, StillInDirectories DEF Promise!Next, Promise!Operation

(* Nothing is seen below a file.                                           *)
LEMMA FileIsEmpty ==
  ASSUME NEW p \in Paths, Resolve(p) # "dir"
  PROVE  \A x \in Below(p) : Visible(x) = "absent"
BY Converse, AboveSort DEF Visible

(* Nothing is seen in a directory whose listing is empty.                  *)
LEMMA UnlistedIsEmpty ==
  ASSUME IInv, NEW p \in Paths, \A c \in Children(p) : ~Listed(c)
  PROVE  \A x \in Below(p) : Visible(x) = "absent"
<1> SUFFICES ASSUME NEW x \in Below(p) PROVE Visible(x) = "absent"
  OBVIOUS
<1>1. PICK c \in Children(p) : c = x \/ c \in Above(x)
  BY ChildOnTheWay
<1>2. c \in Paths /\ x \in Paths /\ ~Listed(c)
  BY <1>1, AboveSort DEF Children
<1>3. Resolve(c) = "absent"
  <2>1. CASE HasRow(c)
    <3>1. c \in Overlaid(c)
      BY <1>2, <2>1 DEF Overlaid
    <3>2. row[c].kind = "delete"
      BY <1>2, <3>1 DEF Listed
    <3> QED
      BY <1>2, <2>1, <3>2, ResolveIs, TypesOf DEF Live
  <2>2. CASE ~HasRow(c)
    <3>1. row[c].kind = "none" /\ Resolve(c) = KindOf(shown[c])
      BY <1>2, <2>2, ResolveIs, TypesOf
    <3>2. shown[c] = Absent
      BY <1>2, <3>1 DEF Listed
    <3> QED
      BY <1>2, <3>1, <3>2, TreeIs, TypesOf
  <2> QED
    BY <2>1, <2>2
<1> QED
  BY <1>1, <1>2, <1>3 DEF Visible

-----------------------------------------------------------------------------
(* Every step changes what programs see as its name says, or not at all.   *)

Unseen == Seen' = Seen /\ head' = head /\ shown' = shown

LEMMA CreateSeen ==
  ASSUME IInv, NEW p \in Paths, CreateFile(p)
  PROVE  Promise!Next
<1>1. /\ MayAdd(p) /\ head' = head /\ shown' = shown
      /\ row' = [row EXCEPT ![p] = Row("create", NoPath, NoPath)]
  BY DEF CreateFile
<1>2. row'[p].kind = "create" /\ \A x \in Paths \ {p} : row'[x] = row[x]
  BY <1>1, TypesOf, RowIs DEF Kinds
<1>3. Resolve(p)' = "file" /\ \A x \in Paths \ {p} : Resolve(x)' = Resolve(x)
  BY <1>1, <1>2, ResolvedRow, ResolvedElsewhere DEF Kinds
<1> QED
  BY <1>1, <1>3, AddSeen

LEMMA MkdirSeen ==
  ASSUME IInv, NEW p \in Paths, Mkdir(p)
  PROVE  Promise!Next \/ Unseen
<1>1. /\ MayAdd(p) \/ Visible(p) = "dir"
      /\ head' = head /\ shown' = shown
      /\ row' = [row EXCEPT ![p] = Row("mkdir", NoPath, NoPath)]
  BY DEF Mkdir
<1>2. row'[p].kind = "mkdir" /\ \A x \in Paths \ {p} : row'[x] = row[x]
  BY <1>1, TypesOf, RowIs DEF Kinds
<1>3. Resolve(p)' = "dir" /\ \A x \in Paths \ {p} : Resolve(x)' = Resolve(x)
  BY <1>1, <1>2, ResolvedRow, ResolvedElsewhere DEF Kinds
<1>4. CASE MayAdd(p)
  BY <1>1, <1>3, <1>4, AddSeen
<1>5. CASE Visible(p) = "dir"
  BY <1>1, <1>3, <1>5, VisibleIs, SeenSame DEF Unseen
<1> QED
  BY <1>1, <1>4, <1>5

LEMMA WriteSeen ==
  ASSUME IInv, NEW p \in Paths, Write(p)
  PROVE  Unseen
<1>1. Visible(p) = "file" /\ head' = head /\ shown' = shown
  BY DEF Write
<1>2. row'[p].kind \in {"create", "modify"} /\ \A x \in Paths \ {p} : row'[x] = row[x]
  <2>1. CASE ~HasRow(p)
    <3>1. row' = [row EXCEPT ![p] = Row("modify", shown[p], NoPath)]
      BY <2>1 DEF Write
    <3> QED
      BY <3>1, TypesOf DEF Row
  <2>2. CASE HasRow(p)
    <3> DEFINE r == [row[p] EXCEPT !.kind = IF row[p].kind = "create" THEN "create" ELSE "modify"]
    <3>1. row[p] \in [kind : Kinds, src : Oids \cup {NoPath}, target : Paths \cup {NoPath}]
      BY <2>2, TypesOf DEF RowType, HasRow
    <3>2. r.kind \in {"create", "modify"}
      BY <3>1
    <3>3. row' = [row EXCEPT ![p] = r]
      BY <2>2, TypesOf DEF Write
    <3> HIDE DEF r
    <3> QED
      BY <3>2, <3>3, TypesOf
  <2> QED
    BY <2>1, <2>2
<1>3. Resolve(p)' = "file" /\ \A x \in Paths \ {p} : Resolve(x)' = Resolve(x)
  BY <1>1, <1>2, ResolvedRow, ResolvedElsewhere DEF Kinds
<1> QED
  BY <1>1, <1>3, VisibleIs, SeenSame DEF Unseen

LEMMA WhitenSeen ==
  ASSUME IInv, NEW p \in Paths, Unlink(p) \/ Rmdir(p)
  PROVE  Promise!Next
<1>1. /\ head' = head /\ shown' = shown
      /\ row' = [row EXCEPT ![p] = Whiteout(NoPath)]
  BY DEF Unlink, Rmdir, Whiten
<1>2. row'[p].kind = "delete" /\ \A x \in Paths \ {p} : row'[x] = row[x]
  BY <1>1, TypesOf, RowIs DEF Whiteout, Kinds
<1>3. Resolve(p)' = "absent" /\ \A x \in Paths \ {p} : Resolve(x)' = Resolve(x)
  BY <1>1, <1>2, ResolvedRow, ResolvedElsewhere DEF Kinds
<1>4. Visible(p) # "absent" /\ \A x \in Below(p) : Visible(x) = "absent"
  <2>1. CASE Unlink(p)
    BY <2>1, VisibleIs, FileIsEmpty DEF Unlink
  <2>2. CASE Rmdir(p)
    BY <2>2, UnlistedIsEmpty DEF Rmdir
  <2> QED
    BY <2>1, <2>2
<1> QED
  BY <1>1, <1>3, <1>4, RemoveSeen

LEMMA FailureSeen ==
  ASSUME IInv, NEW p \in Paths, NEW q \in Paths, CopyFails(p) \/ RenameFails(p, q)
  PROVE  Unseen
<1>1. head' = head /\ shown' = shown
  BY DEF CopyFails, RenameFails
<1>2. CASE row' = row
  BY <1>1, <1>2, ResolvedElsewhere, SeenSame DEF Unseen
<1>3. CASE row' # row
  <2>1. /\ MayRename(p, q) /\ ~HasRow(p)
        /\ row' = [row EXCEPT ![p] = Row("modify", shown[p], NoPath)]
    BY <1>3 DEF CopyFails, RenameFails
  <2>2. row'[p].kind = "modify" /\ \A x \in Paths \ {p} : row'[x] = row[x]
    BY <2>1, TypesOf DEF Row
  <2>3. Resolve(p) = "file"
    BY <2>1, MayRenameIs, ResolveIs, TypesOf
  <2>4. \A x \in Paths : Resolve(x)' = Resolve(x)
    BY <1>1, <2>2, <2>3, ResolvedRow, ResolvedElsewhere DEF Kinds
  <2> QED
    BY <1>1, <2>4, SeenSame DEF Unseen
<1> QED
  BY <1>2, <1>3

(* Only what is empty is renamed.                                          *)
LEMMA RenamedIsEmpty ==
  ASSUME IInv, NEW p \in Paths, NEW q \in Paths, MayRename(p, q), ~HasDescendants(p)
  PROVE  \A x \in Below(p) : Visible(x) = "absent"
<1>1. CASE row[p].kind # "mkdir"
  BY <1>1, MayRenameIs, FileIsEmpty
<1>2. CASE row[p].kind = "mkdir"
  <2>1. shown[p] = Absent /\ IsTree(shown) /\ Absent # Dir
    BY <1>2, MayRenameIs, TypesOf, DirectoriesAssumption
  <2>2. ASSUME NEW x \in Below(p) PROVE Visible(x) = "absent"
    <3>1. x \in Paths /\ p \in Above(x)
      BY AboveSort, Converse
    <3>2. shown[x] = Absent
      BY <2>1, <3>1 DEF IsTree
    <3>3. ~Live(x)
      BY <1>2 DEF HasDescendants
    <3>4. Resolve(x) = "absent"
      BY <3>1, <3>2, <3>3, ResolveIs, TreeIs, TypesOf
    <3> QED
      BY <3>4 DEF Visible
  <2> QED
    BY <2>2
<1> QED
  BY <1>1, <1>2

LEMMA RenameSeen ==
  ASSUME IInv, NEW p \in Paths, NEW q \in Paths, Rename(p, q)
  PROVE  Promise!Next
<1>1. /\ MayRename(p, q) /\ ~HasDescendants(p) /\ head' = head /\ shown' = shown
      /\ row' = [x \in Paths |-> CASE x = q -> NewRow(p, q)
                               [] x = p -> OldRow(p)
                               [] row[p].kind = "mkdir" /\ x \in Below(p) /\ HasRow(x) -> NoRow
                               [] OTHER -> row[x]]
  BY DEF Rename
<1>2. /\ q \notin {p} \cup Below(p) \cup Above(p)
      /\ p \notin {q} \cup Below(q) \cup Above(q)
      /\ Visible(p) = Resolve(p) /\ Visible(p) \in {"file", "dir"}
      /\ \A y \in Above(q) : Resolve(y) = "dir"
  BY <1>1, MayRenameIs
<1>3. /\ row'[q] = NewRow(p, q) /\ row'[p] = OldRow(p)
      /\ \A x \in Paths \ ({p, q} \cup Below(p)) : row'[x] = row[x]
  <2>1. p # q /\ q \notin Below(p) /\ p \notin Below(p)
    BY <1>2, Irreflexive
  <2>2. ASSUME NEW x \in Paths \ ({p, q} \cup Below(p)) PROVE row'[x] = row[x]
    <3>1. x # p /\ x # q /\ x \notin Below(p)
      OBVIOUS
    <3> QED
      BY <1>1, <3>1
  <2> QED
    BY <1>1, <2>1, <2>2
<1>4. \A x \in Paths \ ({p, q} \cup Below(p)) : Resolve(x)' = Resolve(x)
  BY <1>1, <1>3, ResolvedElsewhere
<1>5. ASSUME NEW x \in Paths, x \notin {p, q} \cup Below(p) \cup Below(q)
      PROVE  Above(x) \cap ({p, q} \cup Below(p)) = {}
  BY <1>5, Converse, Transitive, AboveSort
<1>6. Visible(q)' = Visible(p)
  <2>1. Resolve(q)' = Resolve(p)
    <3>1. /\ NewRow(p, q).kind \in {"create", "modify", "rename", "mkdir"}
          /\ NewRow(p, q).kind = "mkdir" <=> row[p].kind = "mkdir"
      BY <1>1, NewRowIs
    <3>2. Resolve(q)' = IF row[p].kind = "mkdir" THEN "dir" ELSE "file"
      BY <1>3, <3>1, ResolvedRow DEF Kinds
    <3> QED
      BY <1>1, <1>2, <3>2, MayRenameIs
  <2>2. \A y \in Above(q) : Resolve(y)' = "dir"
    <3>1. ASSUME NEW y \in Above(q) PROVE y \in Paths \ ({p, q} \cup Below(p))
      BY <1>2, Converse, Transitive, Irreflexive, AboveSort
    <3> QED
      BY <1>2, <1>4, <3>1
  <2> QED
    BY <1>2, <2>1, <2>2 DEF Visible
<1>7. Visible(p)' \in {"absent", KindOf(shown[p])}
  <2>1. Resolve(p)' \in {"absent", KindOf(shown[p])}
    <3>1. CASE row[p].kind \in {"create", "mkdir"}
      <4>1. row'[p] = NoRow
        BY <1>3, <3>1 DEF OldRow
      <4>2. ~HasRow(p)' /\ ~Live(p)'
        BY <4>1 DEF HasRow, Live
      <4>3. Resolve(p)' = KindOf(shown'[p])
        BY <4>2 DEF Resolve
      <4> QED
        BY <1>1, <4>3
    <3>2. CASE row[p].kind \notin {"create", "mkdir"}
      <4>1. row'[p].kind = "delete"
        BY <1>3, <3>2 DEF OldRow, Whiteout, Row
      <4> QED
        BY <4>1, ResolvedRow DEF Kinds
    <3> QED
      BY <3>1, <3>2
  <2> QED
    BY <2>1 DEF Visible
<1>8. ASSUME NEW x \in Paths, x \notin {p, q} \cup Below(p) \cup Below(q)
      PROVE  Visible(x)' = Visible(x)
  BY <1>4, <1>5, <1>8, SeenElsewhere
<1>9. Promise!IsDir(Promise!Parent(q))
  BY <1>1, ParentIs, SeenIs, SameNames DEF MayRename, IsDir, Promise!IsDir
<1>10. Promise!Empty(p)
  BY <1>1, RenamedIsEmpty, AboveSort, SeenIs, SameNames DEF Promise!Empty
<1>11. Promise!Free(p)
  BY <1>7, SeenIs, SameNames DEF Promise!Free
<1>12. Visible(q) \in {"absent", Visible(p)}
  BY <1>1 DEF MayRename
<1>13. \A x \in Paths \ ({p, q} \cup Below(p) \cup Below(q)) : Seen'[x] = Seen[x]
  BY <1>8, SeenIs
<1>14. Promise!Rename(p, q)
  BY <1>2, <1>6, <1>9, <1>10, <1>11, <1>12, <1>13, SeenIs, SameNames DEF Promise!Rename
<1> QED
  BY <1>1, <1>14, StillInDirectories DEF Promise!Next, Promise!Operation

LEMMA StepSeen == IInv /\ [Next]_vars => [Promise!Next]_<<Seen, shown, head>>
<1> SUFFICES ASSUME IInv, [Next]_vars PROVE Promise!Next \/ Unseen
  BY DEF Unseen
<1>1. ASSUME NEW p \in Paths,
             CreateFile(p) \/ Mkdir(p) \/ Write(p) \/ CopyFails(p) \/ Unlink(p) \/ Rmdir(p)
      PROVE  Promise!Next \/ Unseen
  BY <1>1, CreateSeen, MkdirSeen, WriteSeen, FailureSeen, WhitenSeen
<1>2. ASSUME NEW p \in Paths, NEW q \in Paths, Rename(p, q) \/ RenameFails(p, q)
      PROVE  Promise!Next \/ Unseen
  BY <1>2, RenameSeen, FailureSeen
<1>3. CASE Refresh
  <2>1. head' # head \/ shown' # shown
    BY <1>3 DEF Refresh, Reconcile, ReconcileFails, SetGeneration
  <2> QED
    BY <2>1, StillInDirectories DEF Promise!Next, Promise!Commit
<1>4. CASE UNCHANGED vars
  BY <1>4, ResolvedElsewhere, SeenSame DEF Unseen, vars
<1> QED
  BY <1>1, <1>2, <1>3, <1>4 DEF Next, Operation

(* Every operation of the engine changes what programs see of the names as *)
(* it says, one name at a time, or not at all; a directory that is removed *)
(* or renamed is empty, and nothing is ever seen outside a directory.      *)
THEOREM DirectoriesKeepPromise == Spec => KeepsPromise
<1>1. Init => Promise!Init
  BY InitSeen
<1>2. IInv /\ [Next]_vars => [Promise!Next]_<<Seen, shown, head>>
  BY StepSeen
<1> QED
  BY <1>1, <1>2, DirectoriesInvariant, PTL DEF Spec, KeepsPromise, Promise!Spec
==============================================================================
