---------------------------- MODULE FilesLemmas ----------------------------
(***************************************************************************)
(* The inductive invariant of Files and the facts its proof rests on: about    *)
(* numbers and recursion, paths and trees, descriptors, what write, writev,     *)
(* read and readv do to a copy, and what exit does to the disk.  FilesProofs    *)
(* has the steps and the theorems.                                              *)
(***************************************************************************)
EXTENDS Files, FiniteSetTheorems, WellFoundedInduction, TLAPS

-----------------------------------------------------------------------------
(***************************************************************************)
(* Numbers.  Where a proof needs induction it takes the least counterexample. *)
(***************************************************************************)
LessThan == {p \in Nat \X Nat : p[1] < p[2]}

\* Every non-empty set of naturals has a least element.
LEMMA LeastNatural ==
    ASSUME NEW T, T \subseteq Nat, T # {}
    PROVE  \E n \in T : \A m \in T : n <= m
<1>1. IsWellFoundedOn(LessThan, Nat)
  BY NatLessThanWellFounded, Zenon DEF OpToRel, LessThan
<1>2. PICK n \in T : \A m \in T : ~ (<<m, n>> \in LessThan)
  BY Zenon, <1>1, WFMin
<1>3. n \in Nat /\ \A m \in T : m \in Nat /\ ~ (m < n)
  BY Zenon, <1>2 DEF LessThan
<1>4. \A m \in T : n <= m
  BY <1>3
<1> QED BY <1>2, <1>4

\* Min of a non-empty set of naturals is its least element.
LEMMA MinIsLeast ==
    ASSUME NEW T, T \subseteq Nat, T # {}
    PROVE  Min(T) \in T /\ \A m \in T : Min(T) <= m
BY Zenon, LeastNatural DEF Min

\* Min of two numbers.
LEMMA MinOfTwo ==
    ASSUME NEW a \in Int, NEW b \in Int
    PROVE  Min({a, b}) = IF a <= b THEN a ELSE b
<1>1. \E x \in {a, b} : \A y \in {a, b} : x =< y
  OBVIOUS
<1>2. /\ Min({a, b}) \in {a, b}
      /\ \A y \in {a, b} : Min({a, b}) =< y
  BY <1>1 DEF Min
<1> QED BY <1>2

\* Max of two numbers.
LEMMA MaxOfTwo ==
    ASSUME NEW a \in Int, NEW b \in Int
    PROVE  Max({a, b}) = IF a >= b THEN a ELSE b
<1>1. \E x \in {a, b} : \A y \in {a, b} : x >= y
  OBVIOUS
<1>2. /\ Max({a, b}) \in {a, b}
      /\ \A y \in {a, b} : Max({a, b}) >= y
  BY <1>1 DEF Max
<1> QED BY <1>2

\* A recursion over 0 .. N whose step is a function has a solution.
Solution(g, S, s0, N, step) ==
    g \in [0 .. N -> S] /\ g[0] = s0 /\ \A n \in 1 .. N : g[n] = step[n][g[n - 1]]

\* It is built number by number.
LEMMA Recursion ==
    ASSUME NEW S, NEW s0 \in S, NEW N \in Nat, NEW step \in [1 .. N -> [S -> S]]
    PROVE  \E g : Solution(g, S, s0, N, step)
<1> DEFINE Solves(g, m) == /\ g \in [0 .. m -> S] /\ g[0] = s0
                           /\ \A n \in 1 .. m : g[n] = step[n][g[n - 1]]
           T == {m \in 0 .. N : ~ \E g : Solves(g, m)}
<1>1. SUFFICES T = {}
  <2>1. N \in 0 .. N
    OBVIOUS
  <2> QED BY Zenon, <1>1, <2>1 DEF Solution
<1>2. SUFFICES ASSUME T # {} PROVE FALSE
  OBVIOUS
<1>3. PICK m \in T : \A i \in T : m <= i
  <2>1. T \subseteq Nat
    OBVIOUS
  <2> HIDE DEF T
  <2> QED BY Zenon, <1>2, <2>1, LeastNatural
<1>4. m \in 0 .. N /\ ~ \E g : Solves(g, m)
  OBVIOUS
<1>5. m # 0
  <2>1. Solves([n \in 0 .. 0 |-> s0], 0)
    OBVIOUS
  <2> HIDE DEF Solves
  <2> QED BY <1>4, <2>1
<1>6. m - 1 \in 0 .. N /\ m - 1 \notin T
  <2> HIDE DEF T
  <2> QED BY <1>3, <1>4, <1>5
<1>7. PICK g : Solves(g, m - 1)
  BY <1>6
<1> DEFINE h == [n \in 0 .. m |-> IF n = m THEN step[m][g[m - 1]] ELSE g[n]]
<1>8. step[m][g[m - 1]] \in S
  BY <1>4, <1>5, <1>7
<1>9. h \in [0 .. m -> S]
  BY <1>4, <1>5, <1>7, <1>8
<1>10. h[0] = s0
  BY <1>4, <1>5, <1>7
<1>11. ASSUME NEW n \in 1 .. m PROVE h[n] = step[n][h[n - 1]]
  <2>1. CASE n = m
    BY <1>4, <1>5, <2>1
  <2>2. CASE n # m
    BY <1>4, <1>5, <1>7, <2>2
  <2> QED BY <2>1, <2>2
<1>12. Solves(h, m)
  <2> HIDE DEF h
  <2> QED BY <1>9, <1>10, <1>11
<1> QED
  <2> HIDE DEF Solves, h
  <2> QED BY <1>4, <1>12

-----------------------------------------------------------------------------
\* What goes from each stage to the next goes through all of them.
LEMMA Stages ==
    ASSUME NEW N \in Nat, NEW S, NEW g, g[0] \in S[0],
           \A n \in 1 .. N : g[n - 1] \in S[n - 1] => g[n] \in S[n]
    PROVE  \A n \in 0 .. N : g[n] \in S[n]
<1> DEFINE T == {n \in 0 .. N : g[n] \notin S[n]}
<1>1. SUFFICES ASSUME T # {} PROVE FALSE
  OBVIOUS
<1>2. PICK m \in T : \A i \in T : m <= i
  <2>1. T \subseteq Nat
    OBVIOUS
  <2> HIDE DEF T
  <2> QED BY Zenon, <1>1, <2>1, LeastNatural
<1>3. m \in 1 .. N /\ g[m] \notin S[m]
  OBVIOUS
<1>4. m - 1 \in 0 .. N /\ ~ (m <= m - 1)
  BY <1>3
<1>5. m - 1 \notin T
  <2> HIDE DEF T
  <2> QED BY <1>2, <1>4
<1>6. g[m - 1] \in S[m - 1]
  BY <1>4, <1>5
<1> QED BY <1>3, <1>6

\* Every solution stays in the set that the step stays in.
LEMMA Iteration ==
    ASSUME NEW S, NEW N \in Nat, NEW step \in [1 .. N -> [S -> S]], NEW g, g[0] \in S,
           \A n \in 1 .. N : g[n - 1] \in S => g[n] = step[n][g[n - 1]]
    PROVE  \A n \in 0 .. N : g[n] \in S
<1> DEFINE F == [n \in 0 .. N |-> S]
<1>1. \A n \in 0 .. N : F[n] = S
  OBVIOUS
<1> HIDE DEF F
<1>2. g[0] \in F[0]
  BY <1>1
<1>3. ASSUME NEW n \in 1 .. N, g[n - 1] \in F[n - 1] PROVE g[n] \in F[n]
  <2>1. n - 1 \in 0 .. N /\ n \in 0 .. N
    OBVIOUS
  <2> QED BY <1>1, <1>3, <2>1
<1>4. \A n \in 0 .. N : g[n] \in F[n]
  BY Zenon, <1>2, <1>3, Stages
<1> QED BY <1>1, <1>4

\* What the assumption says of the numbers.
LEMMA Bounds ==
    /\ Shell \in Procs
    /\ MAX_FDS \in Nat /\ MAX_FDS > 0 /\ MaxLen \in Nat /\ MaxWrites \in Nat
    /\ MaxFaults \in Nat /\ MaxCalls \in Nat /\ MaxCount \in Nat
    /\ Buffers \subseteq Seq(Int) /\ Offsets \subseteq Int
BY FilesAssumption

\* What the assumption says of the paths.
LEMMA PathsAre ==
    /\ IsFiniteSet(Paths)
    /\ \A p \in Paths : p \in Seq(STRING) /\ Len(p) \in Nat /\ Len(p) > 0
    /\ \A p \in Paths : \A n \in 1 .. Len(p) : SubSeq(p, 1, n) \in Paths
<1>1. ASSUME NEW p \in Paths PROVE p \in Seq(STRING) /\ Len(p) \in Nat /\ Len(p) > 0
  <2>1. p \in Seq(STRING) /\ p # <<>>
    BY FilesAssumption
  <2> QED BY <2>1
<1> QED BY <1>1, FilesAssumption

-----------------------------------------------------------------------------
(***************************************************************************)
(* Paths: being below one.                                                    *)
(***************************************************************************)
\* A path is below another when it is longer and goes on from it.
LEMMA BelowIs ==
    ASSUME NEW p \in Paths, NEW q \in Paths
    PROVE  q \in Below(p) <=> Len(p) < Len(q) /\ \A i \in 1 .. Len(p) : p[i] = q[i]
<1>1. /\ p \in Seq(STRING) /\ Len(p) \in Nat /\ Len(p) > 0
      /\ q \in Seq(STRING) /\ Len(q) \in Nat
  BY PathsAre
<1>2. q \in Below(p) <=> Len(p) < Len(q) /\ SubSeq(q, 1, Len(p)) = p
  BY DEF Below
<1>3. ASSUME Len(p) < Len(q)
      PROVE  SubSeq(q, 1, Len(p)) = p <=> \A i \in 1 .. Len(p) : p[i] = q[i]
  <2> DEFINE s == SubSeq(q, 1, Len(p))
  <2>1. s \in Seq(STRING) /\ Len(s) = Len(p) /\ \A i \in 1 .. Len(p) : s[i] = q[i]
    BY <1>1, <1>3
  <2> HIDE DEF s
  <2>2. s = p <=> \A i \in 1 .. Len(p) : s[i] = p[i]
    BY <1>1, <2>1
  <2> QED BY <2>1, <2>2 DEF s
<1> QED BY <1>2, <1>3

\* Below is a strict order.
LEMMA BelowOrder ==
    ASSUME NEW p \in Paths, NEW q \in Paths, NEW r \in Paths
    PROVE  /\ p \notin Below(p)
           /\ q \in Below(p) /\ r \in Below(q) => r \in Below(p)
<1>1. Len(p) \in Nat /\ Len(q) \in Nat /\ Len(r) \in Nat
  BY PathsAre
<1> QED BY <1>1, BelowIs

\* The parent of a path that is not directly under the root.
LEMMA ParentIs ==
    ASSUME NEW p \in Paths, Len(p) > 1
    PROVE  /\ Parent(p) \in Paths /\ p \in Below(Parent(p)) /\ Len(Parent(p)) = Len(p) - 1
           /\ \A q \in Paths : p \in Below(q) => q = Parent(p) \/ Parent(p) \in Below(q)
<1>1. p \in Seq(STRING) /\ Len(p) \in Nat
  BY PathsAre
<1>2. Len(p) - 1 \in 1 .. Len(p)
  BY <1>1
<1> DEFINE u == SubSeq(p, 1, Len(p) - 1)
<1>3. Parent(p) = u
  BY DEF Parent
<1>4. u \in Paths
  BY <1>2, PathsAre
<1>5. u \in Seq(STRING) /\ Len(u) = Len(p) - 1 /\ \A i \in 1 .. Len(p) - 1 : u[i] = p[i]
  BY <1>1, <1>2
<1> HIDE DEF u
<1>6. p \in Below(u)
  BY <1>1, <1>4, <1>5, BelowIs
<1>7. ASSUME NEW q \in Paths, p \in Below(q) PROVE q = u \/ u \in Below(q)
  <2>1. Len(q) < Len(p) /\ \A i \in 1 .. Len(q) : q[i] = p[i]
    BY <1>7, BelowIs
  <2>2. q \in Seq(STRING) /\ Len(q) \in Nat
    BY PathsAre
  <2>3. CASE Len(q) = Len(p) - 1
    <3>1. \A i \in 1 .. Len(q) : q[i] = u[i]
      BY <1>5, <2>1, <2>3
    <3> QED BY <1>5, <2>2, <2>3, <3>1
  <2>4. CASE Len(q) < Len(p) - 1
    BY <1>1, <1>4, <1>5, <2>1, <2>2, <2>4, BelowIs
  <2> QED BY <1>1, <2>1, <2>2, <2>3, <2>4
<1> QED BY <1>3, <1>4, <1>5, <1>6, <1>7

\* A path below another has an ancestor, or is itself, right under the other.
LEMMA ChildOnTheWay ==
    ASSUME NEW p \in Paths, NEW q \in Below(p)
    PROVE  \E c \in Paths : Parent(c) = p /\ (c = q \/ q \in Below(c))
<1>1. q \in Paths /\ p \in Seq(STRING) /\ q \in Seq(STRING) /\ Len(p) \in Nat /\ Len(q) \in Nat
  BY PathsAre DEF Below
<1>2. Len(p) < Len(q) /\ \A i \in 1 .. Len(p) : p[i] = q[i]
  BY <1>1, BelowIs
<1> DEFINE n == Len(p) + 1
           c == SubSeq(q, 1, n)
<1>3. n \in 1 .. Len(q)
  BY <1>1, <1>2
<1>4. c \in Paths
  BY <1>1, <1>3, PathsAre
<1>5. c \in Seq(STRING) /\ Len(c) = n /\ \A i \in 1 .. n : c[i] = q[i]
  BY <1>1, <1>3
<1> HIDE DEF c
<1>6. c \in Below(p)
  <2>1. \A i \in 1 .. Len(p) : p[i] = c[i]
    BY <1>1, <1>2, <1>5
  <2> QED BY <1>1, <1>4, <1>5, <2>1, BelowIs
<1>7. Parent(c) = p
  BY <1>1, <1>5, <1>6 DEF Below, Parent
<1>8. CASE n = Len(q)
  <2>1. c = q
    BY <1>1, <1>5, <1>8
  <2> QED BY <1>4, <1>5, <1>7, <2>1
<1>9. CASE n < Len(q)
  <2>1. q \in Below(c)
    BY <1>1, <1>4, <1>5, <1>9, BelowIs
  <2> QED BY <1>4, <1>5, <1>7, <2>1
<1> QED BY <1>1, <1>3, <1>8, <1>9

-----------------------------------------------------------------------------
(***************************************************************************)
(* Trees.                                                                     *)
(***************************************************************************)
\* What has something below it is a directory.
Shape(t) == \A p, q \in Paths : q \in Below(p) /\ t[q] # Nothing => t[p] = Directory

\* The kinds of nodes are distinct.
LEMMA NodesDiffer ==
    /\ Nothing # Directory /\ Unknown \notin Nodes
    /\ \A data : File(data) # Nothing /\ File(data) # Directory /\ File(data).kind = "file" /\ File(data).data = data
    /\ \A n \in Nodes : /\ n.kind = "file" => n = File(n.data) /\ n.data \in Data
                        /\ n.kind = "none" <=> n = Nothing
                        /\ n.kind = "dir" <=> n = Directory
                        /\ n.kind \in {"none", "dir", "file"}
    /\ \A data \in Data : File(data) \in Nodes
    /\ Nothing \in Nodes /\ Directory \in Nodes /\ <<>> \in Data
<1>1. ASSUME NEW n \in [kind : {"file"}, data : Data] PROVE n.kind = "file" /\ n = File(n.data) /\ n.data \in Data
  BY DEF File
<1>2. <<>> \in Data
  BY Bounds DEF Data
<1>3. \A data \in Data : File(data) \in Nodes
  BY DEF File, Nodes
<1>4. Nothing.kind = "none" /\ Directory.kind = "dir" /\ Unknown.kind = "unknown"
  BY DEF Nothing, Directory, Unknown
<1>5. \A data : File(data).kind = "file" /\ File(data).data = data
  BY DEF File
<1> QED BY <1>1, <1>2, <1>3, <1>4, <1>5 DEF Nodes

\* Every tree a disk may hold has the shape.
LEMMA DiskShape ==
    ASSUME NEW t, IsDisk(t)
    PROVE  Shape(t)
<1> DEFINE Bad(p, q) == q \in Below(p) /\ t[q] # Nothing /\ t[p] # Directory
           T == {n \in Nat : \E p, q \in Paths : Bad(p, q) /\ n = Len(q)}
<1>1. SUFFICES ASSUME T # {} PROVE FALSE
  BY PathsAre DEF Shape
<1>2. PICK n \in T : \A m \in T : n <= m
  <2>1. T \subseteq Nat
    OBVIOUS
  <2> HIDE DEF T
  <2> QED BY Zenon, <1>1, <2>1, LeastNatural
<1>3. PICK p \in Paths, q \in Paths : Bad(p, q) /\ n = Len(q)
  OBVIOUS
<1>4. Len(p) \in Nat /\ Len(p) > 0 /\ Len(q) \in Nat /\ Len(p) < Len(q)
  BY <1>3, PathsAre, BelowIs
<1>5. Len(q) > 1
  BY <1>4
<1>6. t[Parent(q)] = Directory
  BY <1>3, <1>5 DEF IsDisk, ParentExists
<1>7. Parent(q) \in Paths /\ Len(Parent(q)) = n - 1 /\ (p = Parent(q) \/ Parent(q) \in Below(p))
  BY <1>3, <1>5, ParentIs
<1>8. Bad(p, Parent(q))
  BY <1>3, <1>6, <1>7, NodesDiffer
<1>9. n - 1 \in T
  BY <1>3, <1>4, <1>7, <1>8
<1> QED
  <2>1. n \in Nat /\ ~ (n <= n - 1)
    BY <1>3, <1>4
  <2> HIDE DEF T
  <2> QED BY <1>2, <1>9, <2>1

\* What is not a directory has nothing below it.
LEMMA NothingBelow ==
    ASSUME NEW t, Shape(t), NEW p \in Paths, t[p] # Directory, NEW q \in Below(p)
    PROVE  t[q] = Nothing
<1>1. q \in Paths
  BY DEF Below
<1> QED BY <1>1 DEF Shape

\* All ancestors of a path whose parent exists are directories.
LEMMA AncestorsExist ==
    ASSUME NEW t, Shape(t), NEW p \in Paths, ParentExists(t, p), NEW q \in Paths, p \in Below(q)
    PROVE  t[q] = Directory
<1>1. Len(p) > 1
  BY BelowIs, PathsAre
<1>2. t[Parent(p)] = Directory
  BY <1>1 DEF ParentExists
<1>3. Parent(p) \in Paths /\ (q = Parent(p) \/ Parent(p) \in Below(q))
  BY <1>1, ParentIs
<1> QED BY <1>2, <1>3, NodesDiffer DEF Shape

\* A file that is there has its parent.
LEMMA HasParent ==
    ASSUME NEW t, Shape(t), NEW p \in Paths, t[p] # Nothing
    PROVE  ParentExists(t, p)
BY ParentIs DEF ParentExists, Shape

\* write_file keeps the shape, whatever it writes over.
LEMMA WriteKeepsShape ==
    ASSUME NEW t \in [Paths -> Nodes], Shape(t), NEW p \in Paths, ParentExists(t, p), NEW data \in Data
    PROVE  /\ WithFile(t, p, data) \in [Paths -> Nodes]
           /\ Shape(WithFile(t, p, data))
<1> DEFINE u == WithFile(t, p, data)
<1>1. \A q \in Paths : u[q] = IF q = p THEN File(data) ELSE IF q \in Below(p) THEN Nothing ELSE t[q]
  BY DEF WithFile
<1>2. u \in [Paths -> Nodes]
  BY NodesDiffer DEF WithFile
<1> HIDE DEF u
<1>3. ASSUME NEW a \in Paths, NEW b \in Paths, b \in Below(a), u[b] # Nothing PROVE u[a] = Directory
  <2>1. CASE b = p
    <3>1. t[a] = Directory
      BY <1>3, <2>1, AncestorsExist
    <3>2. a # p /\ a \notin Below(p)
      BY <1>3, <2>1, BelowOrder
    <3> QED BY <1>1, <3>1, <3>2
  <2>2. CASE b # p
    <3>1. b \notin Below(p) /\ t[b] # Nothing
      BY <1>1, <1>3, <2>2
    <3>2. a # p /\ a \notin Below(p)
      BY <1>3, <3>1, BelowOrder
    <3>3. t[a] = Directory
      BY <1>3, <3>1 DEF Shape
    <3> QED BY <1>1, <3>2, <3>3
  <2> QED BY <2>1, <2>2
<1> QED BY <1>2, <1>3 DEF Shape, u

\* Over anything but a directory it changes that path alone.
LEMMA WriteChangesOne ==
    ASSUME NEW t, Shape(t), NEW p \in Paths, t[p] # Directory, NEW data, NEW q \in Paths
    PROVE  WithFile(t, p, data)[q] = IF q = p THEN File(data) ELSE t[q]
<1>1. q \in Below(p) => t[q] = Nothing
  BY NothingBelow
<1> QED BY <1>1 DEF WithFile

\* mkdir, unlink and rmdir keep the shape.
LEMMA SetKeepsShape ==
    ASSUME NEW t \in [Paths -> Nodes], Shape(t), NEW p \in Paths, NEW node \in {Nothing, Directory},
           node = Directory => ParentExists(t, p),
           node = Nothing => \A q \in Below(p) : t[q] = Nothing
    PROVE  /\ [t EXCEPT ![p] = node] \in [Paths -> Nodes]
           /\ Shape([t EXCEPT ![p] = node])
<1> DEFINE u == [t EXCEPT ![p] = node]
<1>1. \A q \in Paths : u[q] = IF q = p THEN node ELSE t[q]
  OBVIOUS
<1>2. u \in [Paths -> Nodes]
  BY NodesDiffer
<1> HIDE DEF u
<1>3. ASSUME NEW a \in Paths, NEW b \in Paths, b \in Below(a), u[b] # Nothing PROVE u[a] = Directory
  <2>1. CASE b = p
    <3>1. t[a] = Directory
      BY <1>1, <1>3, <2>1, AncestorsExist
    <3>2. a # p
      BY <1>3, <2>1, BelowOrder
    <3> QED BY <1>1, <3>1, <3>2
  <2>2. CASE b # p
    BY <1>1, <1>3, <2>2, NodesDiffer DEF Shape
  <2> QED BY <2>1, <2>2
<1> QED BY <1>2, <1>3 DEF Shape, u

\* A directory without children has nothing below it.
LEMMA EmptyHasNothingBelow ==
    ASSUME Shape(tree), NEW p \in EmptyDir, NEW q \in Below(p)
    PROVE  tree[q] = Nothing
<1>1. p \in Paths /\ Children(p) = {} /\ q \in Paths
  BY DEF EmptyDir, Below
<1>2. PICK c \in Paths : Parent(c) = p /\ (c = q \/ q \in Below(c))
  BY <1>1, ChildOnTheWay
<1>3. tree[c] = Nothing
  BY <1>1, <1>2 DEF Children
<1> QED BY <1>1, <1>2, <1>3, NodesDiffer DEF Shape

-----------------------------------------------------------------------------
(***************************************************************************)
(* Descriptors.                                                               *)
(***************************************************************************)
Fds == {NoFd, Device} \cup Copies \cup Listings

IsWriter(d) == IsFile(d) /\ d.writable
InRange(d)  == IsFile(d) => d.offset <= Max({MaxLen, Len(d.data)})

\* What the kinds of descriptors have.
LEMMA FdKinds ==
    ASSUME NEW d \in Fds
    PROVE  /\ IsFile(d) <=> d \in Copies \/ d \in Listings
           /\ d \in Copies => IsFile(d) /\ ~ d.is_dir /\ d.name \in Paths /\ d.data \in Data /\ d.offset \in Nat
           /\ d \in Listings => IsFile(d) /\ d.is_dir /\ ~ d.writable /\ ~ d.dirty /\ d.data \in Seq(EntryNames) /\ d.offset \in Nat
           /\ IsWriter(d) => d \in Copies
           /\ IsDirty(d) => IsWriter(d)
           /\ d = NoFd => ~ IsFile(d)
<1>1. d \in Copies => IsFile(d) /\ ~ d.is_dir /\ d.name \in Paths /\ d.data \in Data /\ d.offset \in Nat
  BY Zenon DEF Copies, IsFile
<1>2. d \in Listings => IsFile(d) /\ d.is_dir /\ ~ d.writable /\ ~ d.dirty /\ d.data \in Seq(EntryNames) /\ d.offset \in Nat
  BY Zenon DEF Listings, IsFile
<1>3. ~ IsFile(NoFd) /\ ~ IsFile(Device)
  BY DEF NoFd, Device, IsFile
<1> QED BY <1>1, <1>2, <1>3 DEF Fds, IsWriter, IsDirty

\* A descriptor of the type invariant is one of them with its position in range.
LEMMA DescriptorIs ==
    ASSUME NEW d
    PROVE  IsDescriptor(d) <=> d \in Fds /\ InRange(d)
<1>1. d \in Copies => IsFile(d) /\ d.is_dir = FALSE
  BY Zenon DEF Copies, IsFile
<1>2. d \in Listings => IsFile(d) /\ d.is_dir = TRUE
  BY Zenon DEF Listings, IsFile
<1>3. ~ IsFile(NoFd) /\ ~ IsFile(Device)
  BY DEF NoFd, Device, IsFile
<1> QED BY <1>1, <1>2, <1>3 DEF Fds, IsDescriptor, InRange

\* The type of a table.
LEMMA FdsType ==
    FilesTypeOK => /\ fds \in [Procs -> [FdNums -> Fds]]
                   /\ \A q \in Procs, f \in FdNums : InRange(fds[q][f])
<1> SUFFICES ASSUME FilesTypeOK PROVE /\ fds \in [Procs -> [FdNums -> Fds]]
                                      /\ \A q \in Procs, f \in FdNums : InRange(fds[q][f])
  OBVIOUS
<1>1. \A q \in Procs, f \in FdNums : fds[q][f] \in Fds /\ InRange(fds[q][f])
  BY DescriptorIs DEF FilesTypeOK
<1>2. fds = [q \in Procs |-> [f \in FdNums |-> fds[q][f]]]
  BY DEF FilesTypeOK
<1> QED BY <1>1, <1>2

\* Replacing one descriptor.
LEMMA OneSlot ==
    ASSUME NEW t \in [Procs -> [FdNums -> Fds]], NEW q \in Procs, NEW f \in FdNums, NEW e \in Fds
    PROVE  /\ [t EXCEPT ![q][f] = e] \in [Procs -> [FdNums -> Fds]]
           /\ \A r \in Procs, g \in FdNums :
                 [t EXCEPT ![q][f] = e][r][g] = IF r = q /\ g = f THEN e ELSE t[r][g]
OBVIOUS

\* One free slot or none is filled.
Allocated(t, q, e) ==
    \/ FreeFds(t[q]) = {} /\ [t EXCEPT ![q] = alloc_fd(@, e)] = t
    \/ \E f \in FdNums : t[q][f] = NoFd /\ [t EXCEPT ![q] = alloc_fd(@, e)] = [t EXCEPT ![q][f] = e]

\* It is what alloc_fd does.
LEMMA Allocates ==
    ASSUME NEW t \in [Procs -> [FdNums -> Fds]], NEW q \in Procs, NEW e
    PROVE  Allocated(t, q, e)
<1>1. CASE FreeFds(t[q]) = {}
  <2>1. alloc_fd(t[q], e) = t[q]
    BY <1>1 DEF alloc_fd
  <2> QED BY <1>1, <2>1 DEF Allocated
<1>2. CASE FreeFds(t[q]) # {}
  <2> DEFINE f == Min(FreeFds(t[q]))
  <2>1. FreeFds(t[q]) \subseteq Nat
    BY Bounds DEF FreeFds, FdNums
  <2>2. f \in FreeFds(t[q])
    BY <1>2, <2>1, MinIsLeast
  <2>3. f \in FdNums /\ t[q][f] = NoFd
    BY <2>2 DEF FreeFds
  <2>4. alloc_fd(t[q], e) = [t[q] EXCEPT ![f] = e]
    BY <1>2 DEF alloc_fd
  <2> HIDE DEF f
  <2>5. [t EXCEPT ![q] = alloc_fd(@, e)] = [t EXCEPT ![q][f] = e]
    BY <2>4
  <2> QED BY Zenon, <2>3, <2>5 DEF Allocated
<1> QED BY <1>1, <1>2

-----------------------------------------------------------------------------
(***************************************************************************)
(* The inductive invariant.  Where the rules were kept, the ideal tree and the *)
(* disk have the same kind of node at each path; every writer holds the ideal  *)
(* contents; and where the disk differs, some process still holds unwritten     *)
(* changes.                                                                      *)
(***************************************************************************)
Known(p) == ideal[p] # Unknown

KindsMatch == \A p \in Paths : Known(p) => ideal[p].kind = tree[p].kind

CopiesMatch ==
    \A q \in live, f \in FdNums :
        IsWriter(fds[q][f]) /\ Known(fds[q][f].name) => ideal[fds[q][f].name] = File(fds[q][f].data)

UnwrittenHeld ==
    \A p \in Paths : Known(p) /\ ideal[p] # tree[p] =>
        \E q \in live, f \in FdNums : IsDirty(fds[q][f]) /\ fds[q][f].name = p

Core == Shape(tree) /\ KindsMatch /\ CopiesMatch /\ UnwrittenHeld

FilesInv == FilesTypeOK /\ Core /\ ListingExact

\* Every call that replaces one descriptor and leaves the disk alone keeps the
\* core: open of what is there, dup2, fcntl, read, readv, lseek, getdents64, and
\* close of what has nothing to write back.
LEMMA SlotStep ==
    ASSUME FilesTypeOK, Core, NEW q \in live, NEW f \in FdNums, NEW e \in Fds,
           fds' = [fds EXCEPT ![q][f] = e], live' = live, tree' = tree,
           \A p \in Paths : ideal'[p] = ideal[p] \/ ideal'[p] = Unknown,
           IsDirty(fds[q][f]) /\ ideal'[fds[q][f].name] # Unknown => IsDirty(e) /\ e.name = fds[q][f].name,
           IsWriter(e) /\ ideal'[e.name] # Unknown => ideal'[e.name] = File(e.data)
    PROVE  Core'
<1>1. q \in Procs /\ live \subseteq Procs
  BY DEF FilesTypeOK
<1>2. fds \in [Procs -> [FdNums -> Fds]]
  BY FdsType
<1>3. \A r \in Procs, g \in FdNums : fds'[r][g] = IF r = q /\ g = f THEN e ELSE fds[r][g]
  BY <1>1, <1>2, OneSlot
<1>4. KindsMatch'
  BY DEF Core, KindsMatch, Known
<1>5. CopiesMatch'
  <2> SUFFICES ASSUME NEW r \in live, NEW g \in FdNums,
                      IsWriter(fds'[r][g]), ideal'[fds'[r][g].name] # Unknown
               PROVE  ideal'[fds'[r][g].name] = File(fds'[r][g].data)
    BY DEF CopiesMatch, Known, IsWriter, IsFile
  <2>1. CASE r = q /\ g = f
    BY <1>1, <1>3, <2>1
  <2>2. CASE ~ (r = q /\ g = f)
    <3>1. fds'[r][g] = fds[r][g]
      BY <1>1, <1>3, <2>2
    <3>2. fds[r][g] \in Fds /\ fds[r][g].name \in Paths
      BY <1>1, <1>2, <3>1, FdKinds DEF IsWriter
    <3> QED BY <3>1, <3>2 DEF Core, CopiesMatch, Known
  <2> QED BY <2>1, <2>2
<1>6. UnwrittenHeld'
  <2> SUFFICES ASSUME NEW p \in Paths, ideal'[p] # Unknown, ideal'[p] # tree[p]
               PROVE  \E r \in live, g \in FdNums : IsDirty(fds'[r][g]) /\ fds'[r][g].name = p
    BY DEF UnwrittenHeld, Known, IsDirty, IsFile
  <2>1. ideal'[p] = ideal[p]
    OBVIOUS
  <2>2. PICK r \in live, g \in FdNums : IsDirty(fds[r][g]) /\ fds[r][g].name = p
    BY <2>1 DEF Core, UnwrittenHeld, Known
  <2>3. IsDirty(fds'[r][g]) /\ fds'[r][g].name = p
    <3>1. CASE r = q /\ g = f
      BY <1>1, <1>3, <2>2, <3>1
    <3>2. CASE ~ (r = q /\ g = f)
      BY <1>1, <1>3, <2>2, <3>2
    <3> QED BY <3>1, <3>2
  <2> QED BY <2>3
<1> QED BY <1>4, <1>5, <1>6 DEF Core

-----------------------------------------------------------------------------
(***************************************************************************)
(* Writing.                                                                   *)
(***************************************************************************)
\* Copies before the bounds on the run are known to hold.
Drafts == [kind : {"File"}, name : Paths, data : Seq(Nat), offset : Nat,
           writable : BOOLEAN, dirty : BOOLEAN, is_dir : {FALSE}, given : {<<>>}, sought : {FALSE}]

\* The parts of a copy, and how a copy is known.
LEMMA DraftIs ==
    /\ \A d \in Drafts : d.data \in Seq(Nat) /\ d.offset \in Nat /\ d.name \in Paths
    /\ \A d \in Copies : d \in Drafts
    /\ \A d \in Drafts : d.data \in Data => d \in Copies
<1>1. \A s \in Data : s \in Seq(Nat)
  <2> SUFFICES ASSUME NEW s \in Data PROVE s \in Seq(Nat)
    OBVIOUS
  <2>1. s \in Seq(0 .. MaxWrites)
    BY DEF Data
  <2>2. Len(s) \in Nat /\ \A i \in 1 .. Len(s) : s[i] \in Nat
    BY <2>1, Bounds
  <2> QED BY <2>1, <2>2
<1>2. ASSUME NEW d \in Drafts, d.data \in Data PROVE d \in Copies
  BY Zenon, <1>2 DEF Drafts, Copies
<1>3. ASSUME NEW d \in Copies PROVE d \in Drafts
  BY Zenon, <1>1 DEF Drafts, Copies
<1> QED BY Zenon, <1>2, <1>3 DEF Drafts

\* Sequences as functions.
LEMMA FunIsSeq ==
    ASSUME NEW S, NEW n \in Nat, NEW g \in [1 .. n -> S]
    PROVE  g \in Seq(S) /\ Len(g) = n
OBVIOUS

\* The parts of a concatenation.
LEMMA ConcatIs ==
    ASSUME NEW a \in Seq(Nat), NEW b \in Seq(Nat)
    PROVE  /\ a \o b \in Seq(Nat) /\ Len(a) \in Nat /\ Len(b) \in Nat /\ Len(a \o b) = Len(a) + Len(b)
           /\ \A i \in 1 .. Len(a) + Len(b) : (a \o b)[i] = IF i <= Len(a) THEN a[i] ELSE b[i - Len(a)]
OBVIOUS

\* Sequences are equal when their elements are.
LEMMA SameSeq ==
    ASSUME NEW a \in Seq(Nat), NEW b \in Seq(Nat), Len(a) = Len(b), \A i \in 1 .. Len(b) : a[i] = b[i]
    PROVE  a = b
OBVIOUS

\* Overlaid pointwise.
IsOverlaid(v, D, o, b) ==
    /\ v \in Seq(Nat)
    /\ Len(v) = IF Len(D) >= o + Len(b) THEN Len(D) ELSE o + Len(b)
    /\ \A i \in 1 .. Len(v) : v[i] = IF i \in o + 1 .. o + Len(b) THEN b[i - o]
                                     ELSE IF i <= Len(D) THEN D[i] ELSE 0

\* It is what its definition makes.
LEMMA OverlaidIs ==
    ASSUME NEW D \in Seq(Nat), NEW o \in Nat, NEW b \in Seq(Nat)
    PROVE  IsOverlaid(Overlaid(D, o, b), D, o, b)
<1> DEFINE L == IF Len(D) >= o + Len(b) THEN Len(D) ELSE o + Len(b)
           E(i) == IF i \in o + 1 .. o + Len(b) THEN b[i - o] ELSE IF i <= Len(D) THEN D[i] ELSE 0
<1>1. Len(D) \in Nat /\ Len(b) \in Nat /\ L \in Nat
  OBVIOUS
<1>2. Max({Len(D), o + Len(b)}) = L
  <2>1. Len(D) \in Int /\ o + Len(b) \in Int
    BY <1>1
  <2> QED BY Zenon, <2>1, MaxOfTwo
<1>3. Overlaid(D, o, b) = [i \in 1 .. L |-> E(i)]
  BY <1>2 DEF Overlaid
<1>4. ASSUME NEW i \in 1 .. L PROVE E(i) \in Nat
  <2>1. CASE i \in o + 1 .. o + Len(b)
    <3>1. i - o \in 1 .. Len(b)
      BY <1>1, <2>1
    <3> QED BY <2>1, <3>1
  <2>2. CASE i \notin o + 1 .. o + Len(b)
    BY <1>1, <2>2
  <2> QED BY <2>1, <2>2
<1> HIDE DEF E, L
<1>5. Overlaid(D, o, b) \in Seq(Nat) /\ Len(Overlaid(D, o, b)) = L
  <2>1. Overlaid(D, o, b) \in [1 .. L -> Nat]
    BY <1>3, <1>4
  <2> QED BY <1>1, <2>1, FunIsSeq
<1>6. \A i \in 1 .. L : Overlaid(D, o, b)[i] = E(i)
  BY <1>3
<1> QED BY <1>5, <1>6 DEF E, L, IsOverlaid

\* The buffer g with the bytes b in place of the range from o to end.
IsCut(made, g, b, o, end) ==
    /\ made \in Seq(Nat) /\ Len(made) = Len(g)
    /\ \A i \in 1 .. Len(g) : made[i] = IF i \in o + 1 .. end THEN b[i - o] ELSE g[i]

\* It is what cutting and joining makes.
LEMMA CutIn ==
    ASSUME NEW g \in Seq(Nat), NEW b \in Seq(Nat), NEW o \in Nat, NEW end \in Nat,
           end = o + Len(b), end <= Len(g)
    PROVE  IsCut(SubSeq(g, 1, o) \o b \o SubSeq(g, end + 1, Len(g)), g, b, o, end)
<1> DEFINE left == SubSeq(g, 1, o)
           right == SubSeq(g, end + 1, Len(g))
           lb == left \o b
<1>1. Len(b) \in Nat /\ Len(g) \in Nat
  OBVIOUS
<1>2. left \in Seq(Nat) /\ Len(left) = o /\ \A i \in 1 .. o : left[i] = g[i]
  BY <1>1
<1>3. right \in Seq(Nat) /\ Len(right) = Len(g) - end /\ \A i \in 1 .. Len(g) - end : right[i] = g[end + i]
  BY <1>1
<1> HIDE DEF left, right
<1>4. /\ lb \in Seq(Nat) /\ Len(lb) = end
      /\ \A i \in 1 .. end : lb[i] = IF i <= o THEN left[i] ELSE b[i - o]
  <2>1. /\ lb \in Seq(Nat) /\ Len(lb) = Len(left) + Len(b)
        /\ \A i \in 1 .. Len(left) + Len(b) : lb[i] = IF i <= Len(left) THEN left[i] ELSE b[i - Len(left)]
    BY Zenon, <1>2, ConcatIs
  <2> HIDE DEF lb
  <2> QED BY <1>1, <1>2, <2>1
<1> HIDE DEF lb
<1> DEFINE new == lb \o right
<1>5. /\ new \in Seq(Nat) /\ Len(new) = Len(g)
      /\ \A i \in 1 .. Len(g) : new[i] = IF i <= end THEN lb[i] ELSE right[i - end]
  <2>1. /\ new \in Seq(Nat) /\ Len(new) = Len(lb) + Len(right)
        /\ \A i \in 1 .. Len(lb) + Len(right) : new[i] = IF i <= Len(lb) THEN lb[i] ELSE right[i - Len(lb)]
    BY Zenon, <1>3, <1>4, ConcatIs
  <2> HIDE DEF new
  <2>2. Len(lb) + Len(right) = Len(g)
    BY <1>1, <1>3, <1>4
  <2> QED BY Zenon, <1>4, <2>1, <2>2
<1> HIDE DEF new
<1>6. ASSUME NEW i \in 1 .. Len(g)
      PROVE  new[i] = IF i \in o + 1 .. end THEN b[i - o] ELSE g[i]
  <2>1. CASE i <= o
    <3>1. i \in 1 .. o /\ i \in 1 .. end /\ i <= end /\ i \notin o + 1 .. end
      BY <1>1, <2>1
    <3> QED BY <1>2, <1>4, <1>5, <2>1, <3>1
  <2>2. CASE i > o /\ i <= end
    <3>1. i \in 1 .. end /\ i \in o + 1 .. end /\ ~ (i <= o)
      BY <1>1, <2>2
    <3> QED BY Zenon, <1>4, <1>5, <2>2, <3>1
  <2>3. CASE i > end
    <3>1. i - end \in 1 .. Len(g) - end /\ end + (i - end) = i
      BY <1>1, <2>3
    <3>2. right[i - end] = g[i]
      BY <1>3, <3>1
    <3>3. ~ (i <= end) /\ i \notin o + 1 .. end
      BY <1>1, <2>3
    <3> QED BY <1>5, <3>2, <3>3
  <2> QED BY <1>1, <2>1, <2>2, <2>3
<1>7. IsCut(new, g, b, o, end)
  BY <1>5, <1>6 DEF IsCut
<1> QED BY <1>7 DEF new, lb, left, right

\* The buffer with zeros up to a length.
LEMMA GrownIs ==
    ASSUME NEW D \in Seq(Nat), NEW z \in Nat
    PROVE  /\ D \o Zeros(z) \in Seq(Nat) /\ Len(D \o Zeros(z)) = Len(D) + z
           /\ \A i \in 1 .. Len(D) + z : (D \o Zeros(z))[i] = IF i <= Len(D) THEN D[i] ELSE 0
<1> DEFINE zs == Zeros(z)
<1>1. zs \in Seq(Nat) /\ Len(zs) = z /\ \A i \in 1 .. z : zs[i] = 0
  BY DEF Zeros
<1> HIDE DEF zs
<1>2. Len(D) \in Nat
  OBVIOUS
<1>3. /\ D \o zs \in Seq(Nat) /\ Len(D \o zs) = Len(D) + z
      /\ \A i \in 1 .. Len(D) + z : (D \o zs)[i] = IF i <= Len(D) THEN D[i] ELSE zs[i - Len(D)]
  BY <1>1, <1>2
<1>4. \A i \in 1 .. Len(D) + z : i > Len(D) => zs[i - Len(D)] = 0
  BY <1>1, <1>2
<1> QED BY <1>2, <1>3, <1>4 DEF zs

\* What sys_write builds by growing and cutting the buffer is the overlaid
\* contents.
LEMMA Splice ==
    ASSUME NEW D \in Seq(Nat), NEW o \in Nat, NEW bytes \in Seq(Nat), NEW end, end = o + Len(bytes)
    PROVE  LET grown == D \o Zeros(Max({end - Len(D), 0}))
           IN SubSeq(grown, 1, o) \o bytes \o SubSeq(grown, end + 1, Len(grown)) = Overlaid(D, o, bytes)
<1>1. Len(D) \in Nat /\ Len(bytes) \in Nat /\ end \in Nat /\ o <= end
  OBVIOUS
<1> DEFINE z == IF end - Len(D) >= 0 THEN end - Len(D) ELSE 0
           g == D \o Zeros(z)
           new == SubSeq(g, 1, o) \o bytes \o SubSeq(g, end + 1, Len(g))
           v == Overlaid(D, o, bytes)
<1>2. z \in Nat /\ z = IF end - Len(D) >= 0 THEN end - Len(D) ELSE 0
  BY <1>1
<1>3. Max({end - Len(D), 0}) = z
  <2>1. end - Len(D) \in Int /\ 0 \in Int
    BY <1>1
  <2> QED BY Zenon, <2>1, MaxOfTwo
<1> HIDE DEF z
<1>4. Len(D) + z = (IF Len(D) >= end THEN Len(D) ELSE end) /\ end <= Len(D) + z /\ Len(D) + z \in Nat
  BY <1>1, <1>2
<1>5. /\ g \in Seq(Nat) /\ Len(g) = Len(D) + z
      /\ \A i \in 1 .. Len(D) + z : g[i] = IF i <= Len(D) THEN D[i] ELSE 0
  BY Zenon, <1>2, GrownIs
<1> HIDE DEF g
<1>6. /\ new \in Seq(Nat) /\ Len(new) = Len(g)
      /\ \A i \in 1 .. Len(g) : new[i] = IF i \in o + 1 .. end THEN bytes[i - o] ELSE g[i]
  <2>1. end \in Nat /\ end <= Len(g)
    BY <1>1, <1>4, <1>5
  <2>2. g \in Seq(Nat)
    BY <1>5
  <2>3. IsCut(new, g, bytes, o, end)
    BY Zenon, <2>1, <2>2, CutIn
  <2> HIDE DEF new
  <2> QED BY <2>3 DEF IsCut
<1> HIDE DEF new
<1>7. /\ v \in Seq(Nat) /\ Len(v) = IF Len(D) >= o + Len(bytes) THEN Len(D) ELSE o + Len(bytes)
      /\ \A i \in 1 .. Len(v) : v[i] = IF i \in o + 1 .. o + Len(bytes) THEN bytes[i - o]
                                       ELSE IF i <= Len(D) THEN D[i] ELSE 0
  <2>1. IsOverlaid(v, D, o, bytes)
    BY Zenon, OverlaidIs
  <2> HIDE DEF v
  <2> QED BY <2>1 DEF IsOverlaid
<1> HIDE DEF v
<1>8. Len(v) = Len(D) + z /\ Len(new) = Len(D) + z
  BY <1>4, <1>5, <1>6, <1>7
<1>9. ASSUME NEW i \in 1 .. Len(D) + z PROVE new[i] = v[i]
  BY Zenon, <1>5, <1>6, <1>7, <1>8
<1>10. new = v
  BY <1>6, <1>7, <1>8, <1>9
<1> QED BY Zenon, <1>3, <1>10 DEF new, v, g

\* sys_write puts the bytes at the position.
LEMMA WriteBufIs ==
    ASSUME NEW d \in Drafts, NEW bytes \in Seq(Nat)
    PROVE  /\ WriteBuf(d, bytes) \in Drafts
           /\ WriteBuf(d, bytes).data = Overlaid(d.data, d.offset, bytes)
           /\ WriteBuf(d, bytes).offset = d.offset + Len(bytes)
           /\ WriteBuf(d, bytes).name = d.name
           /\ WriteBuf(d, bytes).writable = d.writable
           /\ WriteBuf(d, bytes).dirty = TRUE
<1>1. d.data \in Seq(Nat) /\ d.offset \in Nat /\ Len(bytes) \in Nat
  BY DraftIs
<1>2. PICK new : new = Overlaid(d.data, d.offset, bytes)
  OBVIOUS
<1>3. PICK end \in Nat : end = d.offset + Len(bytes)
  BY <1>1
<1>4. new \in Seq(Nat)
  BY <1>1, <1>2, OverlaidIs DEF IsOverlaid
<1>5. WriteBuf(d, bytes) = [d EXCEPT !.data = new, !.offset = end, !.dirty = TRUE]
  <2> DEFINE grown == d.data \o Zeros(Max({end - Len(d.data), 0}))
             made == SubSeq(grown, 1, d.offset) \o bytes \o SubSeq(grown, end + 1, Len(grown))
  <2>1. WriteBuf(d, bytes) = [d EXCEPT !.data = made, !.offset = end, !.dirty = TRUE]
    BY <1>3 DEF WriteBuf
  <2>2. made = new
    BY Zenon, <1>1, <1>2, <1>3, Splice
  <2> HIDE DEF made
  <2> QED BY <2>1, <2>2
<1> QED BY Zenon, <1>2, <1>3, <1>4, <1>5 DEF Drafts

\* The chunks after the first w.
ChunksFrom(w, n) == [i \in 1 .. n |-> w + i]

\* They are a sequence of numbers.
LEMMA ChunksAre ==
    ASSUME NEW w \in Nat, NEW n \in Nat
    PROVE  /\ ChunksFrom(w, n) \in Seq(Nat) /\ Len(ChunksFrom(w, n)) = n
           /\ \A i \in 1 .. n : ChunksFrom(w, n)[i] = w + i
BY DEF ChunksFrom

\* Two writes in a row put what one write of both would.
WrittenTwice(D, o, w, a, b) ==
    Overlaid(Overlaid(D, o, ChunksFrom(w, a)), o + a, ChunksFrom(w + a, b))
    = Overlaid(D, o, ChunksFrom(w, a + b))

\* It holds of any two lengths.
LEMMA OverlaidTwice ==
    ASSUME NEW D \in Seq(Nat), NEW o \in Nat, NEW w \in Nat, NEW a \in Nat, NEW b \in Nat
    PROVE  WrittenTwice(D, o, w, a, b)
<1> DEFINE c1 == ChunksFrom(w, a)
           c2 == ChunksFrom(w + a, b)
           c3 == ChunksFrom(w, a + b)
           u == Overlaid(D, o, c1)
           v == Overlaid(u, o + a, c2)
           x == Overlaid(D, o, c3)
<1>1. w + a \in Nat /\ a + b \in Nat /\ o + a \in Nat /\ Len(D) \in Nat
  OBVIOUS
<1>2. c1 \in Seq(Nat) /\ Len(c1) = a /\ \A i \in 1 .. a : c1[i] = w + i
  BY Zenon, ChunksAre
<1>3. c2 \in Seq(Nat) /\ Len(c2) = b /\ \A i \in 1 .. b : c2[i] = w + a + i
  BY Zenon, <1>1, ChunksAre
<1>4. c3 \in Seq(Nat) /\ Len(c3) = a + b /\ \A i \in 1 .. a + b : c3[i] = w + i
  BY Zenon, <1>1, ChunksAre
<1> HIDE DEF c1, c2, c3
<1>5. /\ u \in Seq(Nat) /\ Len(u) = IF Len(D) >= o + a THEN Len(D) ELSE o + a
      /\ \A i \in 1 .. Len(u) : u[i] = IF i \in o + 1 .. o + a THEN c1[i - o]
                                       ELSE IF i <= Len(D) THEN D[i] ELSE 0
  <2>1. c1 \in Seq(Nat)
    BY <1>2
  <2>2. IsOverlaid(u, D, o, c1)
    BY Zenon, <2>1, OverlaidIs
  <2> HIDE DEF u
  <2> QED BY <1>2, <2>2 DEF IsOverlaid
<1> HIDE DEF u
<1>6. /\ v \in Seq(Nat) /\ Len(v) = IF Len(u) >= o + a + b THEN Len(u) ELSE o + a + b
      /\ \A i \in 1 .. Len(v) : v[i] = IF i \in o + a + 1 .. o + a + b THEN c2[i - (o + a)]
                                       ELSE IF i <= Len(u) THEN u[i] ELSE 0
  <2>1. c2 \in Seq(Nat) /\ u \in Seq(Nat)
    BY <1>3, <1>5
  <2>2. IsOverlaid(v, u, o + a, c2)
    BY Zenon, <1>1, <2>1, OverlaidIs
  <2> HIDE DEF v
  <2> QED BY <1>3, <2>2 DEF IsOverlaid
<1> HIDE DEF v
<1>7. /\ x \in Seq(Nat) /\ Len(x) = IF Len(D) >= o + (a + b) THEN Len(D) ELSE o + (a + b)
      /\ \A i \in 1 .. Len(x) : x[i] = IF i \in o + 1 .. o + (a + b) THEN c3[i - o]
                                       ELSE IF i <= Len(D) THEN D[i] ELSE 0
  <2>1. c3 \in Seq(Nat)
    BY <1>4
  <2>2. IsOverlaid(x, D, o, c3)
    BY Zenon, <2>1, OverlaidIs
  <2> HIDE DEF x
  <2> QED BY <1>4, <2>2 DEF IsOverlaid
<1> HIDE DEF x
<1>8. Len(v) = Len(x) /\ Len(x) \in Nat
  <2>1. /\ Len(u) = IF Len(D) >= o + a THEN Len(D) ELSE o + a
        /\ Len(v) = IF Len(u) >= o + a + b THEN Len(u) ELSE o + a + b
        /\ Len(x) = IF Len(D) >= o + (a + b) THEN Len(D) ELSE o + (a + b)
    BY <1>5, <1>6, <1>7
  <2> QED BY <1>1, <2>1
<1>9. ASSUME NEW i \in 1 .. Len(x) PROVE v[i] = x[i]
  <2>1. CASE i \in o + 1 .. o + a
    <3>1. /\ i - o \in 1 .. a /\ i - o \in 1 .. a + b /\ i \in 1 .. Len(u) /\ i <= Len(u)
          /\ i \notin o + a + 1 .. o + a + b /\ i \in o + 1 .. o + (a + b)
      BY <1>1, <1>5, <1>8, <2>1
    <3>2. x[i] = w + (i - o)
      BY <1>4, <1>7, <3>1
    <3>3. u[i] = w + (i - o)
      BY <1>2, <1>5, <2>1, <3>1
    <3> QED BY <1>6, <1>8, <3>1, <3>2, <3>3
  <2>2. CASE i \in o + a + 1 .. o + a + b
    <3>1. /\ i - (o + a) \in 1 .. b /\ i - o \in 1 .. a + b /\ i \in o + 1 .. o + (a + b)
          /\ w + a + (i - (o + a)) = w + (i - o)
      BY <1>1, <1>8, <2>2
    <3>2. x[i] = w + (i - o)
      BY <1>4, <1>7, <3>1
    <3>3. v[i] = w + a + (i - (o + a))
      BY <1>3, <1>6, <1>8, <2>2, <3>1
    <3> QED BY <3>1, <3>2, <3>3
  <2>3. CASE i \notin o + 1 .. o + a /\ i \notin o + a + 1 .. o + a + b
    <3>1. i \notin o + 1 .. o + (a + b)
      BY <1>1, <1>8, <2>3
    <3>2. x[i] = IF i <= Len(D) THEN D[i] ELSE 0
      BY <1>7, <3>1
    <3>3. v[i] = IF i <= Len(u) THEN u[i] ELSE 0
      BY <1>6, <1>8, <2>3
    <3>4. i <= Len(u) => i \in 1 .. Len(u)
      BY <1>5, <1>8
    <3>5. i <= Len(u) => u[i] = IF i <= Len(D) THEN D[i] ELSE 0
      BY <1>5, <2>3, <3>4
    <3>6. i <= Len(D) => i <= Len(u)
      BY <1>1, <1>5, <1>8
    <3> QED BY <3>2, <3>3, <3>5, <3>6
  <2> QED BY <2>1, <2>2, <2>3
<1>10. v = x
  <2>1. v \in Seq(Nat) /\ x \in Seq(Nat)
    BY <1>6, <1>7
  <2>2. Len(v) = Len(x) /\ \A i \in 1 .. Len(x) : v[i] = x[i]
    BY <1>8, <1>9
  <2> QED BY <2>1, <2>2, SameSeq
<1> QED BY <1>10 DEF WrittenTwice, v, x, u, c1, c2, c3

\* What writev has done to descriptor d after some of its buffers, n chunks in all.
Written(d) ==
    {a \in [d : Drafts, n : Nat] :
        /\ a.d.name = d.name /\ a.d.writable = d.writable
        /\ a.n = 0 => a.d = d
        /\ a.n > 0 => /\ a.d.data = Overlaid(d.data, d.offset, ChunksFrom(writes, a.n))
                      /\ a.d.offset = d.offset + a.n
                      /\ a.d.dirty = TRUE}

\* One more buffer.
LEMMA WriteNext ==
    ASSUME writes \in Nat, NEW d \in Drafts, NEW a \in Written(d), NEW len \in Nat, len > 0
    PROVE  [d |-> WriteBuf(a.d, [i \in 1 .. len |-> writes + a.n + i]), n |-> a.n + len] \in Written(d)
<1> DEFINE chunks == ChunksFrom(writes + a.n, len)
           e == WriteBuf(a.d, chunks)
<1>1. a.d \in Drafts /\ a.n \in Nat /\ a.d.name = d.name /\ a.d.writable = d.writable
  BY DEF Written
<1>2. d.data \in Seq(Nat) /\ d.offset \in Nat
  BY DraftIs
<1>3. writes + a.n \in Nat /\ a.n + len \in Nat /\ a.n + len > 0
  BY <1>1
<1>4. chunks \in Seq(Nat) /\ Len(chunks) = len
  BY Zenon, <1>3, ChunksAre
<1> HIDE DEF chunks
<1>5. /\ e \in Drafts /\ e.data = Overlaid(a.d.data, a.d.offset, chunks)
      /\ e.offset = a.d.offset + Len(chunks) /\ e.name = a.d.name /\ e.writable = a.d.writable /\ e.dirty = TRUE
  BY Zenon, <1>1, <1>4, WriteBufIs
<1> HIDE DEF e
<1>6. e.offset = d.offset + (a.n + len)
  <2>1. a.d.offset = d.offset + a.n
    BY <1>1, <1>2 DEF Written
  <2> QED BY <1>1, <1>2, <1>4, <1>5, <2>1
<1>7. e.data = Overlaid(d.data, d.offset, ChunksFrom(writes, a.n + len))
  <2>1. CASE a.n = 0
    <3>1. a.d = d
      BY <2>1 DEF Written
    <3>2. writes + a.n = writes /\ a.n + len = len
      BY <2>1
    <3>3. chunks = ChunksFrom(writes, a.n + len)
      BY <3>2 DEF chunks
    <3> QED BY <1>5, <3>1, <3>3
  <2>2. CASE a.n > 0
    <3>1. a.d.data = Overlaid(d.data, d.offset, ChunksFrom(writes, a.n)) /\ a.d.offset = d.offset + a.n
      BY <2>2 DEF Written
    <3>2. WrittenTwice(d.data, d.offset, writes, a.n, len)
      BY Zenon, <1>1, <1>2, OverlaidTwice
    <3> QED BY Zenon, <1>5, <3>1, <3>2 DEF chunks, WrittenTwice
  <2> QED BY <1>1, <2>1, <2>2
<1>8. [d |-> e, n |-> a.n + len] \in Written(d)
  BY <1>1, <1>3, <1>5, <1>6, <1>7 DEF Written
<1>9. chunks = [i \in 1 .. len |-> writes + a.n + i]
  BY DEF chunks, ChunksFrom
<1> QED BY <1>8, <1>9 DEF e

\* sys_writev writes the chunks of its buffers one after another.
LEMMA WriteEachIs ==
    ASSUME writes \in Nat, NEW d \in Drafts, NEW iov \in Seq(Int)
    PROVE  WriteEach(d, iov) \in Written(d)
<1> DEFINE N == Len(iov)
           S == Written(d)
           Skipped(k) == iov[k] = 0 \/ \E j \in 1 .. k : iov[j] < 0
           Next1(a, k) == [d |-> WriteBuf(a.d, [i \in 1 .. iov[k] |-> writes + a.n + i]), n |-> a.n + iov[k]]
           Step(a, k) == IF Skipped(k) THEN a ELSE Next1(a, k)
           s0 == [d |-> d, n |-> 0]
           step == [k \in 1 .. N |-> [a \in S |-> Step(a, k)]]
           Eqn(h) == h = [k \in 0 .. N |-> IF k = 0 THEN s0 ELSE Step(h[k - 1], k)]
           after == CHOOSE h : Eqn(h)
<1>1. N \in Nat
  OBVIOUS
<1>2. s0 \in S
  BY DEF Written
<1>3. ASSUME NEW k \in 1 .. N, NEW a \in S PROVE Step(a, k) \in S
  <2>1. CASE Skipped(k)
    BY <2>1
  <2>2. CASE ~ Skipped(k)
    <3>1. iov[k] \in Nat /\ iov[k] > 0
      BY <1>1, <2>2
    <3>2. Next1(a, k) \in S
      BY Zenon, <3>1, WriteNext
    <3> HIDE DEF Next1, Skipped
    <3> QED BY <2>2, <3>2
  <2> QED BY <2>1, <2>2
<1> HIDE DEF Step, S, s0, N
<1>4. step \in [1 .. N -> [S -> S]]
  BY <1>3
<1>5. \A k \in 1 .. N, a \in S : step[k][a] = Step(a, k)
  OBVIOUS
<1> HIDE DEF step
<1>6. \E h : Eqn(h)
  <2>1. PICK h : Solution(h, S, s0, N, step)
    BY Zenon, <1>1, <1>2, <1>4, Recursion
  <2>2. ASSUME NEW k \in 0 .. N PROVE h[k] = IF k = 0 THEN s0 ELSE Step(h[k - 1], k)
    BY <1>1, <1>5, <2>1 DEF Solution
  <2>3. Eqn(h)
    BY <2>1, <2>2 DEF Solution
  <2> HIDE DEF Eqn
  <2> QED BY <2>3
<1>7. Eqn(after)
  <2> HIDE DEF Eqn
  <2> QED BY <1>6
<1>8. WriteEach(d, iov) = after[N]
  BY DEF WriteEach, Step, s0, N
<1> HIDE DEF after
<1>9. after[0] = s0 /\ \A k \in 1 .. N : after[k] = Step(after[k - 1], k)
  BY <1>1, <1>7
<1>10. \A k \in 1 .. N : after[k - 1] \in S => after[k] = step[k][after[k - 1]]
  BY <1>5, <1>9
<1>11. after[0] \in S
  BY <1>2, <1>9
<1>12. \A k \in 0 .. N : after[k] \in S
  BY Zenon, <1>1, <1>4, <1>10, <1>11, Iteration
<1> QED BY <1>1, <1>8, <1>12 DEF S

-----------------------------------------------------------------------------
(***************************************************************************)
(* Reading.                                                                   *)
(***************************************************************************)
\* The copies that differ from d in the position at most.
Moved(d) ==
    {e \in Copies : /\ e.name = d.name /\ e.data = d.data /\ e.writable = d.writable /\ e.dirty = d.dirty
                    /\ e.offset <= Max({MaxLen, Len(e.data)})}

\* The length and the contents of a copy.
LEMMA CopyIs ==
    ASSUME NEW d \in Copies
    PROVE  d.data \in Data /\ Len(d.data) \in Nat /\ d.offset \in Nat /\ Len(d.data) <= MaxLen
           /\ Max({MaxLen, Len(d.data)}) = MaxLen
<1>1. d.data \in Data /\ d.offset \in Nat
  BY DEF Copies
<1>2. Len(d.data) \in Nat /\ Len(d.data) <= MaxLen /\ MaxLen \in Int /\ Len(d.data) \in Int
  BY <1>1, Bounds DEF Data
<1>3. Max({MaxLen, Len(d.data)}) = IF MaxLen >= Len(d.data) THEN MaxLen ELSE Len(d.data)
  BY Zenon, <1>2, MaxOfTwo
<1> QED BY <1>1, <1>2, <1>3, Bounds

\* sys_read moves the position, up to the end of the data at most.
LEMMA ReadBufIs ==
    ASSUME NEW d \in Copies, NEW e \in Moved(d), NEW count \in Nat
    PROVE  ReadBuf(e, count) \in Moved(d) /\ ReadLen(e, count) \in Nat
<1>1. e \in Copies /\ e.offset <= Max({MaxLen, Len(e.data)})
  BY DEF Moved
<1>2. Len(e.data) \in Nat /\ e.offset \in Nat /\ Max({MaxLen, Len(e.data)}) = MaxLen /\ Len(e.data) <= MaxLen
  BY <1>1, CopyIs
<1> DEFINE L == Len(e.data)
           m == Min({e.offset, L})
           n == Min({L - m, count})
<1>3. m = IF e.offset <= L THEN e.offset ELSE L
  <2>1. e.offset \in Int /\ L \in Int
    BY <1>2
  <2> QED BY Zenon, <2>1, MinOfTwo
<1>4. m \in Nat /\ m <= L /\ m <= e.offset
  <2> HIDE DEF m
  <2> QED BY <1>2, <1>3
<1> HIDE DEF m
<1>5. n = IF L - m <= count THEN L - m ELSE count
  <2>1. L - m \in Int /\ count \in Int
    BY <1>2, <1>4
  <2> QED BY Zenon, <2>1, MinOfTwo
<1> HIDE DEF n
<1>6. n \in Nat /\ n <= L - m
  BY <1>2, <1>4, <1>5
<1>7. e.offset + n \in Nat /\ e.offset + n <= MaxLen
  BY <1>1, <1>2, <1>3, <1>4, <1>6, Bounds
<1>8. ReadLen(e, count) = n
  BY DEF ReadLen, n, m
<1>9. ReadBuf(e, count) = [e EXCEPT !.offset = e.offset + n]
  BY <1>8 DEF ReadBuf
<1> DEFINE r == [e EXCEPT !.offset = e.offset + n]
<1>10. r \in Copies /\ r.name = e.name /\ r.data = e.data /\ r.writable = e.writable /\ r.dirty = e.dirty /\ r.offset = e.offset + n
  BY Zenon, <1>1, <1>7 DEF Copies
<1> HIDE DEF r
<1>11. r \in Moved(d)
  BY Zenon, <1>2, <1>7, <1>10 DEF Moved
<1> QED BY <1>6, <1>8, <1>9, <1>11 DEF r

\* So does sys_readv.
LEMMA ReadEachIs ==
    ASSUME NEW d \in Copies, d \in Moved(d), NEW iov \in Seq(Int)
    PROVE  ReadEach(d, iov) \in Moved(d)
<1> DEFINE N == Len(iov)
           S == [d : Moved(d), got : Nat, asked : Nat]
           Skipped(a, k) == iov[k] = 0 \/ a.got < a.asked \/ \E j \in 1 .. k : iov[j] < 0
           Next1(a, k) == [d     |-> ReadBuf(a.d, iov[k]),
                           got   |-> a.got + ReadLen(a.d, iov[k]),
                           asked |-> a.asked + iov[k]]
           Step(a, k) == IF Skipped(a, k) THEN a ELSE Next1(a, k)
           s0 == [d |-> d, got |-> 0, asked |-> 0]
           step == [k \in 1 .. N |-> [a \in S |-> Step(a, k)]]
           Eqn(h) == h = [k \in 0 .. N |-> IF k = 0 THEN s0 ELSE Step(h[k - 1], k)]
           after == CHOOSE h : Eqn(h)
<1>1. N \in Nat
  OBVIOUS
<1>2. s0 \in S
  OBVIOUS
<1>3. ASSUME NEW k \in 1 .. N, NEW a \in S PROVE Step(a, k) \in S
  <2>1. CASE Skipped(a, k)
    BY <2>1
  <2>2. CASE ~ Skipped(a, k)
    <3>1. iov[k] \in Nat
      BY <1>1, <2>2
    <3>2. a.d \in Moved(d) /\ a.got \in Nat /\ a.asked \in Nat
      OBVIOUS
    <3>3. ReadBuf(a.d, iov[k]) \in Moved(d) /\ ReadLen(a.d, iov[k]) \in Nat
      BY Zenon, <3>1, <3>2, ReadBufIs
    <3>4. a.got + ReadLen(a.d, iov[k]) \in Nat /\ a.asked + iov[k] \in Nat
      BY <3>1, <3>2, <3>3
    <3>5. Next1(a, k) \in S
      BY <3>3, <3>4
    <3> HIDE DEF Next1, Skipped
    <3> QED BY <2>2, <3>5
  <2> QED BY <2>1, <2>2
<1> HIDE DEF Step, S, s0, N
<1>4. step \in [1 .. N -> [S -> S]]
  BY <1>3
<1>5. \A k \in 1 .. N, a \in S : step[k][a] = Step(a, k)
  OBVIOUS
<1> HIDE DEF step
<1>6. \E h : Eqn(h)
  <2>1. PICK h : Solution(h, S, s0, N, step)
    BY Zenon, <1>1, <1>2, <1>4, Recursion
  <2>2. ASSUME NEW k \in 0 .. N PROVE h[k] = IF k = 0 THEN s0 ELSE Step(h[k - 1], k)
    BY <1>1, <1>5, <2>1 DEF Solution
  <2>3. Eqn(h)
    BY <2>1, <2>2 DEF Solution
  <2> HIDE DEF Eqn
  <2> QED BY <2>3
<1>7. Eqn(after)
  <2> HIDE DEF Eqn
  <2> QED BY <1>6
<1>8. ReadEach(d, iov) = after[N].d
  BY DEF ReadEach, Step, s0, N
<1> HIDE DEF after
<1>9. after[0] = s0 /\ \A k \in 1 .. N : after[k] = Step(after[k - 1], k)
  BY <1>1, <1>7
<1>10. \A k \in 1 .. N : after[k - 1] \in S => after[k] = step[k][after[k - 1]]
  BY <1>5, <1>9
<1>11. after[0] \in S
  BY <1>2, <1>9
<1>12. \A k \in 0 .. N : after[k] \in S
  BY Zenon, <1>1, <1>4, <1>10, <1>11, Iteration
<1> QED BY <1>1, <1>8, <1>12 DEF S

-----------------------------------------------------------------------------
(***************************************************************************)
(* Writing back a table.                                                      *)
(***************************************************************************)
\* The paths under no path that process q writes back to against the rules.
Safe(q, p) == /\ Known(p)
              /\ \A f \in FdNums : IsDirty(fds[q][f]) /\ ~ Known(fds[q][f].name) =>
                                      p \notin Below(fds[q][f].name)

\* The trees after the descriptors below n were written back.
Flushed(q, lost, n) ==
    {t \in [Paths -> Nodes] :
        /\ Shape(t)
        /\ \A p \in Paths : Safe(q, p) =>
              /\ t[p] = tree[p] \/ t[p] = ideal[p]
              /\ \A f \in FdNums \ lost : f < n /\ IsDirty(fds[q][f]) /\ fds[q][f].name = p => t[p] = ideal[p]}

\* One more descriptor: a known path gets its ideal contents, and what is below
\* it is not there.
LEMMA FlushNext ==
    ASSUME FilesTypeOK, Core, NEW q \in live, NEW lost, NEW n \in 1 .. MAX_FDS, NEW t \in Flushed(q, lost, n - 1)
    PROVE  LET d == fds[q][n - 1]
           IN (IF IsDirty(d) /\ n - 1 \notin lost /\ ParentExists(t, d.name)
               THEN WithFile(t, d.name, d.data) ELSE t) \in Flushed(q, lost, n)
<1>1. n - 1 \in FdNums /\ n \in Nat /\ q \in Procs
  BY Bounds DEF FdNums, FilesTypeOK
<1> DEFINE d == fds[q][n - 1]
<1>2. d \in Fds /\ \A f \in FdNums : fds[q][f] \in Fds
  BY <1>1, FdsType
<1>3. t \in [Paths -> Nodes] /\ Shape(t)
  BY DEF Flushed
<1>4. \A f \in FdNums : f < n <=> f < n - 1 \/ f = n - 1
  BY <1>1, Bounds DEF FdNums
<1>5. ASSUME IsDirty(d), Safe(q, d.name)
      PROVE  /\ d.name \in Paths /\ ideal[d.name] = File(d.data)
             /\ t[d.name].kind = "file"
  <2>1. d.name \in Paths /\ IsWriter(d)
    BY Zenon, <1>2, <1>5, FdKinds
  <2>2. Known(d.name)
    BY <1>5 DEF Safe
  <2>3. ideal[d.name] = File(d.data)
    BY <1>1, <2>1, <2>2 DEF Core, CopiesMatch
  <2>4. ideal[d.name].kind = "file" /\ tree[d.name].kind = "file"
    <3>1. File(d.data).kind = "file"
      BY NodesDiffer
    <3>2. ideal[d.name].kind = tree[d.name].kind
      BY <2>1, <2>2 DEF Core, KindsMatch
    <3> QED BY <2>3, <3>1, <3>2
  <2>5. t[d.name] = tree[d.name] \/ t[d.name] = ideal[d.name]
    BY Zenon, <1>5, <2>1 DEF Flushed
  <2> QED BY Zenon, <2>1, <2>3, <2>4, <2>5
<1>6. CASE ~ (IsDirty(d) /\ n - 1 \notin lost /\ ParentExists(t, d.name))
  <2>1. ASSUME NEW p \in Paths, Safe(q, p), NEW f \in FdNums \ lost, f < n, IsDirty(fds[q][f]), fds[q][f].name = p
        PROVE  t[p] = ideal[p]
    <3>1. CASE f < n - 1
      BY <2>1, <3>1 DEF Flushed
    <3>2. CASE f = n - 1
      <4>1. t[p].kind = "file"
        BY Zenon, <1>5, <2>1, <3>2
      <4>2. ParentExists(t, p)
        BY Zenon, <1>3, <4>1, HasParent, NodesDiffer
      <4> QED BY Zenon, <1>6, <2>1, <3>2, <4>2
    <3> QED BY <1>4, <2>1, <3>1, <3>2
  <2>2. t \in Flushed(q, lost, n)
    BY Zenon, <2>1 DEF Flushed
  <2> QED BY Zenon, <1>6, <2>2
<1>7. CASE IsDirty(d) /\ n - 1 \notin lost /\ ParentExists(t, d.name)
  <2> DEFINE u == WithFile(t, d.name, d.data)
  <2>1. d.name \in Paths /\ d.data \in Data
    BY Zenon, <1>2, <1>7, FdKinds
  <2>2. u \in [Paths -> Nodes] /\ Shape(u)
    BY Zenon, <1>3, <1>7, <2>1, WriteKeepsShape
  <2>3. \A p \in Paths : u[p] = IF p = d.name THEN File(d.data) ELSE IF p \in Below(d.name) THEN Nothing ELSE t[p]
    BY DEF WithFile
  <2> HIDE DEF u
  <2>4. ASSUME NEW p \in Paths, Safe(q, p), p # d.name PROVE u[p] = t[p]
    <3>1. CASE p \in Below(d.name)
      <4>1. Known(d.name)
        BY Zenon, <1>1, <1>7, <2>4, <3>1 DEF Safe
      <4>2. Safe(q, d.name)
        <5>1. ASSUME NEW f \in FdNums, IsDirty(fds[q][f]), ~ Known(fds[q][f].name)
              PROVE  d.name \notin Below(fds[q][f].name)
          <6>1. fds[q][f].name \in Paths
            BY Zenon, <1>2, <5>1, FdKinds
          <6>2. p \notin Below(fds[q][f].name)
            BY Zenon, <2>4, <5>1 DEF Safe
          <6> QED BY <2>1, <3>1, <6>1, <6>2, BelowOrder
        <5> QED BY Zenon, <4>1, <5>1 DEF Safe
      <4>3. t[d.name] # Directory
        BY Zenon, <1>5, <1>7, <4>2, NodesDiffer
      <4>4. t[p] = Nothing
        BY Zenon, <1>3, <2>1, <3>1, <4>3, NothingBelow
      <4> QED BY Zenon, <2>3, <2>4, <3>1, <4>4
    <3>2. CASE p \notin Below(d.name)
      BY Zenon, <2>3, <2>4, <3>2
    <3> QED BY <3>1, <3>2
  <2>5. ASSUME NEW p \in Paths, Safe(q, p), p = d.name PROVE u[p] = ideal[p]
    BY Zenon, <1>5, <1>7, <2>3, <2>5
  <2>6. ASSUME NEW p \in Paths, Safe(q, p) PROVE u[p] = tree[p] \/ u[p] = ideal[p]
    BY Zenon, <2>4, <2>5, <2>6 DEF Flushed
  <2>7. ASSUME NEW p \in Paths, Safe(q, p), NEW f \in FdNums \ lost, f < n, IsDirty(fds[q][f]), fds[q][f].name = p
        PROVE  u[p] = ideal[p]
    <3>1. CASE p = d.name
      BY Zenon, <2>5, <2>7, <3>1
    <3>2. CASE p # d.name
      <4>1. f < n - 1
        BY <1>4, <2>7, <3>2
      <4>2. t[p] = ideal[p]
        BY <2>7, <4>1 DEF Flushed
      <4> QED BY <2>4, <2>7, <3>2, <4>2
    <3> QED BY Zenon, <3>1, <3>2
  <2>8. u \in Flushed(q, lost, n)
    BY Zenon, <2>2, <2>6, <2>7 DEF Flushed
  <2> QED BY <1>7, <2>8 DEF u
<1> QED BY Zenon, <1>6, <1>7

\* exit writes back what the table holds.
LEMMA FlushAllIs ==
    ASSUME FilesTypeOK, Core, NEW q \in live, NEW lost
    PROVE  FlushAll(tree, fds[q], lost) \in Flushed(q, lost, MAX_FDS)
<1> DEFINE N == MAX_FDS
           S == {t \in [Paths -> Nodes] : Shape(t)}
           Put(t, d) == WithFile(t, d.name, d.data)
           Step(t, n) == IF IsDirty(fds[q][n - 1]) /\ n - 1 \notin lost /\ ParentExists(t, fds[q][n - 1].name)
                         THEN Put(t, fds[q][n - 1]) ELSE t
           step == [n \in 1 .. N |-> [t \in S |-> Step(t, n)]]
           Eqn(h) == h = [n \in 0 .. N |-> IF n = 0 THEN tree ELSE Step(h[n - 1], n)]
           after == CHOOSE h : Eqn(h)
           F == [n \in 0 .. N |-> Flushed(q, lost, n)]
<1>1. N \in Nat /\ q \in Procs
  BY Bounds DEF FilesTypeOK
<1>2. tree \in S
  BY DEF FilesTypeOK, Core
<1>3. ASSUME NEW n \in 1 .. N, NEW t \in S PROVE Step(t, n) \in S
  <2>1. n - 1 \in FdNums
    BY <1>1 DEF FdNums
  <2> DEFINE d == fds[q][n - 1]
  <2>2. d \in Fds
    BY <1>1, <2>1, FdsType
  <2>3. IsDirty(d) => d.name \in Paths /\ d.data \in Data
    BY Zenon, <2>2, FdKinds
  <2>4. IsDirty(d) /\ ParentExists(t, d.name) => Put(t, d) \in S
    BY Zenon, <2>3, WriteKeepsShape
  <2> HIDE DEF S, Put
  <2> QED BY <2>4
<1>4. ASSUME NEW n \in 1 .. N, NEW t \in Flushed(q, lost, n - 1) PROVE Step(t, n) \in Flushed(q, lost, n)
  BY Zenon, <1>4, FlushNext
<1>5. tree \in Flushed(q, lost, 0)
  <2>1. \A f \in FdNums : ~ (f < 0)
    BY Bounds DEF FdNums
  <2> QED BY <2>1 DEF Flushed, FilesTypeOK, Core
<1> HIDE DEF Step, S, N
<1>6. step \in [1 .. N -> [S -> S]]
  BY <1>3
<1>7. \A n \in 1 .. N, t \in S : step[n][t] = Step(t, n)
  OBVIOUS
<1> HIDE DEF step
<1>8. \E h : Eqn(h)
  <2>1. PICK h : Solution(h, S, tree, N, step)
    BY Zenon, <1>1, <1>2, <1>6, Recursion
  <2>2. ASSUME NEW n \in 0 .. N PROVE h[n] = IF n = 0 THEN tree ELSE Step(h[n - 1], n)
    BY <1>1, <1>7, <2>1 DEF Solution
  <2>3. Eqn(h)
    BY <2>1, <2>2 DEF Solution
  <2> HIDE DEF Eqn
  <2> QED BY <2>3
<1>9. Eqn(after)
  <2> HIDE DEF Eqn
  <2> QED BY <1>8
<1>10. FlushAll(tree, fds[q], lost) = after[N]
  BY DEF FlushAll, Step, N
<1> HIDE DEF after
<1>11. after[0] = tree /\ \A n \in 1 .. N : after[n] = Step(after[n - 1], n)
  BY <1>1, <1>9
<1>12. \A n \in 0 .. N : F[n] = Flushed(q, lost, n)
  OBVIOUS
<1> HIDE DEF F
<1>13. after[0] \in F[0]
  BY <1>1, <1>5, <1>11, <1>12
<1>14. ASSUME NEW n \in 1 .. N, after[n - 1] \in F[n - 1] PROVE after[n] \in F[n]
  <2>1. n - 1 \in 0 .. N /\ n \in 0 .. N
    BY <1>1
  <2> QED BY <1>4, <1>11, <1>12, <1>14, <2>1
<1>15. \A n \in 0 .. N : after[n] \in F[n]
  BY Zenon, <1>1, <1>13, <1>14, Stages
<1> QED BY <1>1, <1>10, <1>12, <1>15 DEF N
=============================================================================
