---------------------------- MODULE FilesProofs ----------------------------
(***************************************************************************)
(* Theorems about Files, for every set of processes, every table size, every  *)
(* set of paths and every bound: what is written through descriptors reaches   *)
(* the file, no writer works on a stale copy, and getdents64 hands out the      *)
(* listing entry by entry.                                                       *)
(***************************************************************************)
EXTENDS FilesCalls

-----------------------------------------------------------------------------
(***************************************************************************)
(* close of a copy with unwritten changes.                                     *)
(***************************************************************************)
\* A write-back keeps what it is not about, unless it goes to a path for which the
\* rules were broken and the other path is below that.
LEMMA WriteBackElsewhere ==
    ASSUME FilesInv, NEW q \in live, NEW f \in FdNums, IsDirty(fds[q][f]), NEW p, p = fds[q][f].name,
           NEW x \in Paths, x # p, x \notin Buried({p})
    PROVE  WithFile(tree, p, fds[q][f].data)[x] = tree[x]
<1> DEFINE d == fds[q][f]
<1>1. FilesTypeOK /\ Core
  BY DEF FilesInv
<1>2. d \in Fds
  BY <1>1, FdsType DEF FilesTypeOK
<1>3. p \in Paths /\ IsWriter(d)
  BY <1>2, FdKinds
<1>4. CASE x \in Below(p)
  <2>1. Known(p)
    BY <1>4 DEF Buried, Known
  <2>2. ideal[p] = File(d.data) /\ ideal[p].kind = tree[p].kind
    BY <1>1, <1>3, <2>1 DEF Core, CopiesMatch, KindsMatch
  <2>3. tree[p] # Directory
    BY <2>2, NodesDiffer DEF Directory
  <2> QED BY <1>1, <1>3, <2>3, WriteChangesOne DEF Core
<1>5. CASE x \notin Below(p)
  BY <1>5 DEF WithFile
<1> QED BY Zenon, <1>4, <1>5

\* It keeps the invariant: the disk gets what the copy held, which is the ideal file.
LEMMA DirtyCloseKeeps ==
    ASSUME FilesInv, NEW q \in live, NEW f \in FdNums, UNCHANGED calls, sys_close(q, f), IsDirty(fds[q][f])
    PROVE  FilesInv'
<1> DEFINE d == fds[q][f]
<1>1. FilesTypeOK /\ Core /\ ListingExact /\ live \subseteq Procs
  BY DEF FilesInv, FilesTypeOK
<1>2. d \in Fds
  BY <1>1, FdsType DEF FilesTypeOK
<1>3. d.name \in Paths /\ d.data \in Data /\ IsWriter(d) /\ IsFile(d)
  BY <1>2, FdKinds
<1> PICK p \in Paths : p = d.name
  BY <1>3
<1>4. PICK r \in write_file(tree, p, d.data) :
          /\ tree' = r.tree /\ faults' = faults + r.fault
          /\ ideal' = Exposed((IF r.ok THEN {} ELSE {p}) \cup Buried({p}))
  BY Zenon DEF sys_close
<1>5. ~ stuck /\ UNCHANGED <<live, cwd, stuck, writes>> /\ fds' = [fds EXCEPT ![q][f] = NoFd]
  BY DEF sys_close, Running
<1>6. /\ tree' \in [Paths -> Nodes] /\ Shape(tree') /\ faults' \in 0 .. MaxFaults
      /\ tree' = tree \/ tree' = WithFile(tree, p, d.data)
      /\ r.ok => tree' = WithFile(tree, p, d.data)
  BY <1>3, <1>4, WriteFileIs
<1>7. Puts(q, f, NoFd)
  BY <1>5 DEF Puts
<1>8. NoFd \in Fds /\ ~ IsFile(NoFd)
  BY DEF Fds, IsFile, NoFd
<1>9. InRange(NoFd) /\ ListingOK(NoFd) /\ ~ IsWriter(NoFd)
  BY <1>8 DEF InRange, ListingOK, IsWriter
<1>10. TablesOK' /\ ListingExact'
  BY <1>1, <1>7, <1>8, <1>9, SlotTypes
<1>11. \A s \in Procs, g \in FdNums : fds'[s][g] = IF s = q /\ g = f THEN NoFd ELSE fds[s][g]
  BY <1>1, <1>7, <1>8, PutIs
<1>12. ScalarsOK'
  BY Zenon, <1>1, <1>5, <1>6 DEF FilesTypeOK, ScalarsOK
<1>13. /\ ideal' \in [Paths -> Nodes \cup {Unknown}]
       /\ \A x \in Paths : ideal'[x] = IF x \in (IF r.ok THEN {} ELSE {p}) \cup Buried({p}) THEN Unknown ELSE ideal[x]
  <2> PICK ps : ps = (IF r.ok THEN {} ELSE {p}) \cup Buried({p})
    BY Zenon
  <2>1. ideal' = Exposed(ps)
    BY Zenon, <1>4
  <2> QED BY Zenon, <1>1, <2>1 DEF Exposed, FilesTypeOK
<1>14. \A x \in Paths : PathOK(x)
  BY <1>1, TypeParts, CoreByPath
<1>15. ASSUME NEW x \in Paths, x # p PROVE PathOK(x)'
  <2>1. CASE x \in Buried({p})
    <3>1. ideal'[x] = Unknown
      BY <1>13, <2>1
    <3> QED BY <3>1 DEF PathOK, Known
  <2>2. CASE x \notin Buried({p})
    <3>1. ideal'[x] = ideal[x]
      BY <1>13, <1>15, <2>2
    <3>2. tree'[x] = tree[x]
      BY <1>6, <1>15, <2>2, WriteBackElsewhere
    <3>3. Elsewhere(x)
      BY <1>1, <1>3, <1>8, <1>11, <1>15 DEF Elsewhere
    <3> QED BY <1>5, <1>14, <3>1, <3>2, <3>3, OtherPath
  <2> QED BY <2>1, <2>2
<1>16. PathOK(p)'
  <2> SUFFICES ASSUME ideal'[p] # Unknown PROVE PathOK(p)'
    BY Zenon DEF PathOK, Known
  <2>1. r.ok /\ ideal'[p] = ideal[p]
    BY <1>13
  <2>2. ideal[p] = File(d.data)
    BY <1>3, <1>14, <2>1 DEF PathOK, Known
  <2>3. tree'[p] = File(d.data)
    BY Zenon, <1>6, <2>1 DEF WithFile
  <2>4. ASSUME NEW s \in live, NEW g \in FdNums, IsWriter(fds'[s][g]), fds'[s][g].name = p
        PROVE  ideal[p] = File(fds'[s][g].data)
    <3>1. fds'[s][g] = fds[s][g]
      BY <1>1, <1>9, <1>11, <2>4
    <3> QED BY <1>14, <2>1, <2>4, <3>1 DEF PathOK, Known
  <2> QED BY Zenon, <1>5, <2>1, <2>2, <2>3, <2>4 DEF PathOK, Known, IsWriter, IsFile
<1>17. \A x \in Paths : PathOK(x)'
  BY <1>15, <1>16
<1> QED BY <1>6, <1>10, <1>12, <1>13, <1>17, ByParts

-----------------------------------------------------------------------------
(***************************************************************************)
(* The life of a table: fork, exit and death.                                  *)
(***************************************************************************)
\* fork_fds keeps the invariant: the child's copies are as good as the parent's.
LEMMA ForkKeeps ==
    ASSUME FilesInv, NEW q \in live, NEW c \in Procs, calls' \in 0 .. MaxCalls, fork_fds(q, c)
    PROVE  FilesInv'
<1>1. FilesTypeOK /\ Core /\ ListingExact /\ live \subseteq Procs
  BY DEF FilesInv, FilesTypeOK
<1>2. /\ ~ stuck /\ c \notin live /\ live' = live \cup {c} /\ fds' = [fds EXCEPT ![c] = fds[q]]
      /\ cwd' = [cwd EXCEPT ![c] = cwd[q]] /\ UNCHANGED <<tree, stuck, writes, faults, ideal>>
  BY DEF fork_fds, Running
<1>3. ScalarsOK'
  BY <1>1, <1>2 DEF FilesTypeOK, ScalarsOK
<1>4. TreesOK /\ TablesOK /\ fds \in [Procs -> [FdNums -> Fds]]
  BY <1>1, TypeParts DEF TablesOK
<1>5. /\ fds' \in [Procs -> [FdNums -> Fds]]
      /\ \A s \in Procs : fds'[s] = IF s = c THEN fds[q] ELSE fds[s]
  BY <1>1, <1>2, <1>4
<1>6. ASSUME NEW s \in Procs, NEW g \in FdNums PROVE InRange(fds'[s][g])
  <2>1. \A r \in Procs : InRange(fds[r][g])
    BY <1>4 DEF TablesOK
  <2>2. \E r \in Procs : fds'[s][g] = fds[r][g]
    BY <1>1, <1>5
  <2> QED BY <2>1, <2>2
<1>7. TablesOK'
  BY <1>5, <1>6 DEF TablesOK, InRange, IsFile
<1>8. ASSUME NEW s \in live' PROVE \E r \in live : fds'[s] = fds[r]
  BY <1>1, <1>2, <1>5
<1>9. ASSUME NEW s \in live', NEW g \in FdNums PROVE ListingOK(fds'[s][g])
  <2>1. PICK r \in live : fds'[s] = fds[r]
    BY <1>8
  <2>2. ListingOK(fds[r][g])
    BY <1>1, <1>2, ListingBySlot
  <2> QED BY <2>1, <2>2
<1>10. ListingExact'
  BY <1>2, <1>9, ListingBySlotNext
<1>11. \A p \in Paths : PathOK(p)
  BY <1>1, TypeParts, CoreByPath
<1>12. ASSUME NEW p \in Paths PROVE PathOK(p)'
  <2> SUFFICES ASSUME ideal[p] # Unknown PROVE PathOK(p)'
    BY <1>2 DEF PathOK, Known
  <2>1. ASSUME NEW s \in live', NEW g \in FdNums, IsWriter(fds'[s][g]), fds'[s][g].name = p
        PROVE  ideal[p] = File(fds'[s][g].data)
    <3>1. PICK r \in live : fds'[s] = fds[r]
      BY <1>8
    <3> QED BY <1>11, <2>1, <3>1 DEF PathOK, Known
  <2>2. ideal[p] = tree[p] \/ \E s \in live', g \in FdNums : IsDirty(fds'[s][g]) /\ fds'[s][g].name = p
    <3> SUFFICES ASSUME ideal[p] # tree[p]
                 PROVE  \E s \in live', g \in FdNums : IsDirty(fds'[s][g]) /\ fds'[s][g].name = p
      OBVIOUS
    <3>1. PICK s \in live, g \in FdNums : IsDirty(fds[s][g]) /\ fds[s][g].name = p
      BY <1>11 DEF PathOK, Known
    <3>2. s \in live' /\ fds'[s] = fds[s]
      BY <1>1, <1>2, <1>5
    <3> QED BY <3>1, <3>2
  <2>3. ideal[p].kind = tree[p].kind
    BY <1>11 DEF PathOK, Known
  <2> QED BY Zenon, <1>2, <2>1, <2>2, <2>3 DEF PathOK, Known, IsWriter, IsDirty, IsFile
<1>13. tree' \in [Paths -> Nodes] /\ ideal' \in [Paths -> Nodes \cup {Unknown}] /\ Shape(tree')
  BY <1>1, <1>2 DEF FilesTypeOK, Core
<1> QED BY <1>3, <1>7, <1>10, <1>12, <1>13, ByParts

\* A process goes: the tables stay well-formed, the listings exact, and the others
\* keep what they have.
LEMMA GoneIs ==
    ASSUME FilesInv, NEW q \in live, Gone(q), q # Shell, ~ stuck, UNCHANGED <<stuck, writes, calls>>,
           faults' \in 0 .. MaxFaults
    PROVE  /\ ScalarsOK' /\ TablesOK' /\ ListingExact'
           /\ live' = live \ {q} /\ \A s \in live' : fds'[s] = fds[s]
<1>1. FilesTypeOK /\ ListingExact /\ live \subseteq Procs /\ q \in Procs
  BY DEF FilesInv, FilesTypeOK
<1>2. live' = live \ {q} /\ fds' = [fds EXCEPT ![q] = DefaultTable] /\ cwd' = [cwd EXCEPT ![q] = Root]
  BY DEF Gone
<1>3. ScalarsOK'
  BY <1>1, <1>2 DEF FilesTypeOK, ScalarsOK
<1>4. TablesOK /\ fds \in [Procs -> [FdNums -> Fds]]
  BY <1>1, TypeParts DEF TablesOK
<1>5. /\ DefaultTable \in [FdNums -> Fds]
      /\ \A g \in FdNums : ~ IsFile(DefaultTable[g])
  BY DEF DefaultTable, Fds, IsFile, NoFd, Device
<1>6. /\ fds' \in [Procs -> [FdNums -> Fds]]
      /\ \A s \in Procs : fds'[s] = IF s = q THEN DefaultTable ELSE fds[s]
  BY Zenon, <1>2, <1>4, <1>5
<1>7. ASSUME NEW s \in Procs, NEW g \in FdNums PROVE InRange(fds'[s][g])
  <2>1. CASE s = q
    BY <1>5, <1>6, <2>1 DEF InRange
  <2>2. CASE s # q
    BY <1>4, <1>6, <2>2 DEF TablesOK
  <2> QED BY <2>1, <2>2
<1>8. TablesOK'
  BY <1>6, <1>7 DEF TablesOK, InRange, IsFile
<1>9. ASSUME NEW s \in live' PROVE s \in live /\ fds'[s] = fds[s]
  BY <1>1, <1>2, <1>6
<1>10. ASSUME NEW s \in live', NEW g \in FdNums PROVE ListingOK(fds'[s][g])
  <2>1. ListingOK(fds[s][g])
    BY <1>1, <1>9, ListingBySlot
  <2> QED BY <1>9, <2>1
<1>11. ListingExact'
  BY <1>10, ListingBySlotNext
<1> QED BY <1>2, <1>3, <1>8, <1>9, <1>11

\* A path keeps what the core says of it when a process goes, if what that had not
\* written back is on the disk.
LEMMA GonePath ==
    ASSUME NEW x \in Paths, PathOK(x), NEW q \in live, live' = live \ {q}, \A s \in live' : fds'[s] = fds[s],
           ideal'[x] = ideal[x], tree'[x] = tree[x] \/ tree'[x] = ideal[x],
           (\E f \in FdNums : IsDirty(fds[q][f]) /\ fds[q][f].name = x) => tree'[x] = ideal[x]
    PROVE  PathOK(x)'
<1> SUFFICES ASSUME ideal[x] # Unknown PROVE PathOK(x)'
  BY DEF PathOK, Known
<1>1. ASSUME NEW s \in live', NEW g \in FdNums, IsWriter(fds'[s][g]), fds'[s][g].name = x
      PROVE  ideal[x] = File(fds'[s][g].data)
  BY <1>1 DEF PathOK, Known
<1>2. ideal[x] = tree'[x] \/ \E s \in live', g \in FdNums : IsDirty(fds'[s][g]) /\ fds'[s][g].name = x
  <2> SUFFICES ASSUME ideal[x] # tree'[x]
               PROVE  \E s \in live', g \in FdNums : IsDirty(fds'[s][g]) /\ fds'[s][g].name = x
    OBVIOUS
  <2>1. PICK s \in live, g \in FdNums : IsDirty(fds[s][g]) /\ fds[s][g].name = x
    BY DEF PathOK, Known
  <2>2. s # q
    BY <2>1
  <2> QED BY <2>1, <2>2
<1>3. ideal[x].kind = tree'[x].kind
  BY DEF PathOK, Known
<1> QED BY <1>1, <1>2, <1>3 DEF PathOK, Known, IsWriter, IsDirty, IsFile

\* release_current_process_fds keeps the invariant: exit writes every copy back, in
\* the order of the descriptors, and the last one that counts is the ideal file.
LEMMA ReleaseKeeps ==
    ASSUME FilesInv, NEW q \in live, UNCHANGED calls, release_current_process_fds(q)
    PROVE  FilesInv'
<1>1. FilesTypeOK /\ Core /\ q \in Procs /\ faults \in Nat
  BY DEF FilesInv, FilesTypeOK
<1>2. PICK bad \in SUBSET {f \in FdNums : IsDirty(fds[q][f])} :
          /\ faults + Cardinality(bad) <= MaxFaults /\ faults' = faults + Cardinality(bad)
          /\ \E lost \in SUBSET bad : tree' = FlushAll(tree, fds[q], lost)
          /\ ideal' = Exposed(DirtyNames(fds[q], bad) \cup Buried(DirtyNames(fds[q], FdNums)))
  BY Zenon DEF release_current_process_fds
<1>3. PICK lost \in SUBSET bad : tree' = FlushAll(tree, fds[q], lost)
  BY <1>2
<1>4. Gone(q) /\ q # Shell /\ ~ stuck /\ UNCHANGED <<stuck, writes>>
  BY DEF release_current_process_fds, Running
<1>5. Cardinality(bad) \in Nat
  <2>1. 0 \in Int /\ MAX_FDS - 1 \in Int
    BY Bounds
  <2>2. IsFiniteSet(FdNums)
    BY <2>1, FS_Interval DEF FdNums
  <2>3. IsFiniteSet(bad)
    BY <2>2, FS_Subset
  <2> QED BY <2>3, FS_CardinalityType
<1>6. faults' \in 0 .. MaxFaults
  BY <1>1, <1>2, <1>5, Bounds
<1>7. /\ ScalarsOK' /\ TablesOK' /\ ListingExact'
      /\ live' = live \ {q} /\ \A s \in live' : fds'[s] = fds[s]
  BY <1>4, <1>6, GoneIs
<1>8. tree' \in Flushed(q, lost, MAX_FDS)
  BY <1>1, <1>3, FlushAllIs
<1>9. tree' \in [Paths -> Nodes] /\ Shape(tree')
  BY <1>8 DEF Flushed
<1> PICK ps : ps = DirtyNames(fds[q], bad) \cup Buried(DirtyNames(fds[q], FdNums))
  BY Zenon
<1>10. ideal' = Exposed(ps)
  BY Zenon, <1>2
<1>11. /\ ideal' \in [Paths -> Nodes \cup {Unknown}]
       /\ \A x \in Paths : ideal'[x] = IF x \in ps THEN Unknown ELSE ideal[x]
  BY <1>1, <1>10, ExposedIs
<1>12. \A x \in Paths : PathOK(x)
  BY <1>1, TypeParts, CoreByPath
<1>13. ASSUME NEW x \in Paths, ideal'[x] # Unknown PROVE PathOK(x)'
  <2>1. x \notin ps /\ ideal'[x] = ideal[x]
    BY <1>11, <1>13
  <2>2. ASSUME NEW f \in FdNums, IsDirty(fds[q][f]), ~ Known(fds[q][f].name)
        PROVE  x \notin Below(fds[q][f].name)
    <3>1. fds[q][f].name \in DirtyNames(fds[q], FdNums)
      BY <2>2 DEF DirtyNames
    <3> QED BY <2>1, <2>2, <3>1 DEF Buried, Known
  <2>3. Safe(q, x)
    BY <1>13, <2>1, <2>2 DEF Safe, Known
  <2>4. /\ tree'[x] = tree[x] \/ tree'[x] = ideal[x]
        /\ \A f \in FdNums \ lost : f < MAX_FDS /\ IsDirty(fds[q][f]) /\ fds[q][f].name = x => tree'[x] = ideal[x]
    BY <1>8, <2>3 DEF Flushed
  <2>5. ASSUME NEW f \in FdNums, IsDirty(fds[q][f]), fds[q][f].name = x PROVE tree'[x] = ideal[x]
    <3>1. f \notin lost
      BY <2>1, <2>5 DEF DirtyNames
    <3>2. f < MAX_FDS
      BY Bounds DEF FdNums
    <3> QED BY <2>4, <2>5, <3>1, <3>2
  <2> QED BY Zenon, <1>7, <1>12, <2>1, <2>4, <2>5, GonePath
<1>14. ASSUME NEW x \in Paths PROVE PathOK(x)'
  BY <1>13 DEF PathOK, Known
<1> QED BY <1>7, <1>9, <1>11, <1>14, ByParts

\* forget_process keeps the invariant: what a dead process had not written back is lost.
LEMMA ForgetKeeps ==
    ASSUME FilesInv, NEW q \in live, UNCHANGED calls, forget_process(q)
    PROVE  FilesInv'
<1>1. FilesTypeOK /\ Core /\ faults \in 0 .. MaxFaults
  BY DEF FilesInv, FilesTypeOK
<1>2. Gone(q) /\ q # Shell /\ ~ stuck /\ UNCHANGED <<tree, stuck, writes, faults>>
  BY DEF forget_process, Running
<1>3. /\ ScalarsOK' /\ TablesOK' /\ ListingExact'
      /\ live' = live \ {q} /\ \A s \in live' : fds'[s] = fds[s]
  BY <1>1, <1>2, GoneIs
<1> PICK ps : ps = DirtyNames(fds[q], FdNums)
  OBVIOUS
<1>4. ideal' = Exposed(ps)
  BY DEF forget_process
<1>5. /\ ideal' \in [Paths -> Nodes \cup {Unknown}]
      /\ \A x \in Paths : ideal'[x] = IF x \in ps THEN Unknown ELSE ideal[x]
  BY <1>1, <1>4, ExposedIs
<1>6. \A x \in Paths : PathOK(x)
  BY <1>1, TypeParts, CoreByPath
<1>7. ASSUME NEW x \in Paths, ideal'[x] # Unknown PROVE PathOK(x)'
  <2>1. x \notin ps /\ ideal'[x] = ideal[x]
    BY <1>5, <1>7
  <2>2. ~ \E f \in FdNums : IsDirty(fds[q][f]) /\ fds[q][f].name = x
    BY <2>1 DEF DirtyNames
  <2>3. tree'[x] = tree[x]
    BY <1>2
  <2> QED BY <1>3, <1>6, <2>1, <2>2, <2>3, GonePath
<1>8. ASSUME NEW x \in Paths PROVE PathOK(x)'
  BY Zenon, <1>7 DEF PathOK, Known
<1>9. tree' \in [Paths -> Nodes] /\ Shape(tree')
  BY <1>1, <1>2 DEF FilesTypeOK, Core
<1> QED BY <1>3, <1>5, <1>8, <1>9, ByParts

-----------------------------------------------------------------------------
(***************************************************************************)
(* Calls on paths.                                                            *)
(***************************************************************************)
\* sys_chdir keeps the invariant.
LEMMA ChdirKeeps ==
    ASSUME FilesInv, NEW q \in live, NEW up, calls' \in 0 .. MaxCalls, sys_chdir(q, up)
    PROVE  FilesInv'
<1>1. FilesTypeOK /\ q \in Procs
  BY DEF FilesInv, FilesTypeOK
<1>2. UNCHANGED <<tree, live, fds, stuck, writes, faults, ideal>>
  BY DEF sys_chdir
<1>3. \E p \in Paths \cup {Root} : cwd' = [cwd EXCEPT ![q] = p]
  BY Zenon DEF sys_chdir
<1>4. cwd' \in [Procs -> Paths \cup {Root}]
  BY <1>1, <1>3 DEF FilesTypeOK
<1>5. ideal' = Exposed({})
  BY <1>1, <1>2, ExposedIs
<1> QED BY <1>2, <1>4, <1>5, IdleKeeps

\* A change of one path keeps the invariant when the tree allows it.
LEMMA SetNodeKeeps ==
    ASSUME FilesInv, NEW p \in Paths, NEW node \in {Nothing, Directory}, SetNode(p, node),
           node = Directory => ParentExists(tree, p),
           node = Nothing => \A x \in Below(p) : tree[x] = Nothing,
           UNCHANGED <<live, cwd, fds, stuck, writes>>, ~ stuck, calls' \in 0 .. MaxCalls
    PROVE  FilesInv'
<1> DEFINE u == [tree EXCEPT ![p] = node]
<1>1. /\ FilesTypeOK /\ Core /\ ListingExact /\ tree \in [Paths -> Nodes] /\ faults \in 0 .. MaxFaults
      /\ Shape(tree) /\ ideal \in [Paths -> Nodes \cup {Unknown}]
  BY DEF FilesInv, FilesTypeOK, Core
<1>2. u \in [Paths -> Nodes] /\ Shape(u)
  BY Zenon, <1>1, SetKeepsShape
<1>3. PICK r \in Outcomes(tree, u) :
          /\ tree' = r.tree /\ faults' = faults + r.fault
          /\ ideal' = IF r.ok /\ Writers(p) = {} THEN [ideal EXCEPT ![p] = node] ELSE Exposed(AndBelow(p))
  BY DEF SetNode
<1>4. \A x \in Paths : u[x] = IF x = p THEN node ELSE tree[x]
  BY <1>1
<1> HIDE DEF u
<1>5. /\ r.tree = tree \/ r.tree = u
      /\ r.ok => r.tree = u
      /\ faults + r.fault \in 0 .. MaxFaults
  BY <1>1, Bounds DEF Outcomes
<1>6. tree' \in [Paths -> Nodes] /\ Shape(tree')
  BY <1>1, <1>2, <1>3, <1>5
<1>7. ScalarsOK'
  BY <1>1, <1>3, <1>5 DEF FilesTypeOK, ScalarsOK
<1>8. TablesOK'
  BY <1>1, TypeParts DEF TablesOK, InRange, IsFile
<1>9. ListingExact'
  BY <1>1, ListingStays
<1>10. \A x \in Paths : PathOK(x)
  BY <1>1, TypeParts, CoreByPath
<1>11. CASE r.ok /\ Writers(p) = {}
  <2>1. /\ ideal' \in [Paths -> Nodes \cup {Unknown}]
        /\ \A x \in Paths : ideal'[x] = IF x = p THEN node ELSE ideal[x]
    BY Zenon, <1>1, <1>3, <1>11, NodesDiffer
  <2>2. \A x \in Paths : tree'[x] = IF x = p THEN node ELSE tree[x]
    BY <1>3, <1>4, <1>5, <1>11
  <2>3. ASSUME NEW x \in Paths, x # p PROVE PathOK(x)'
    <3>1. ideal'[x] = ideal[x] /\ tree'[x] = tree[x]
      BY <2>1, <2>2, <2>3
    <3>2. Elsewhere(x)
      BY DEF Elsewhere
    <3> QED BY <1>10, <3>1, <3>2, OtherPath
  <2>4. ASSUME NEW s \in live, NEW g \in FdNums, IsWriter(fds[s][g]) PROVE fds[s][g].name # p
    <3>1. <<s, g>> \in Procs \X FdNums
      BY <1>1 DEF FilesTypeOK
    <3>2. <<s, g>>[1] = s /\ <<s, g>>[2] = g
      OBVIOUS
    <3>3. <<s, g>> \notin Writers(p)
      BY <1>11
    <3> QED BY <2>4, <3>1, <3>2, <3>3 DEF Writers, Holds, IsWriter
  <2>5. PathOK(p)'
    BY Zenon, <2>1, <2>2, <2>4 DEF PathOK, Known, IsWriter, IsDirty, IsFile
  <2>6. \A x \in Paths : PathOK(x)'
    BY <2>3, <2>5
  <2> QED BY Zenon, <1>6, <1>7, <1>8, <1>9, <2>1, <2>6, ByParts
<1>12. CASE ~ (r.ok /\ Writers(p) = {})
  <2> PICK ps : ps = AndBelow(p)
    OBVIOUS
  <2>1. ideal' = Exposed(ps)
    BY <1>3, <1>12
  <2>2. /\ ideal' \in [Paths -> Nodes \cup {Unknown}]
        /\ \A x \in Paths : ideal'[x] = IF x \in ps THEN Unknown ELSE ideal[x]
    BY <1>1, <2>1, ExposedIs
  <2>3. ASSUME NEW x \in Paths, ideal'[x] # Unknown PROVE PathOK(x)'
    <3>1. x # p /\ ideal'[x] = ideal[x]
      BY <2>2, <2>3 DEF AndBelow
    <3>2. tree'[x] = tree[x]
      BY <1>3, <1>4, <1>5, <3>1
    <3>3. Elsewhere(x)
      BY DEF Elsewhere
    <3> QED BY Zenon, <1>10, <3>1, <3>2, <3>3, OtherPath
  <2>4. ASSUME NEW x \in Paths PROVE PathOK(x)'
    BY Zenon, <2>3 DEF PathOK, Known
  <2> QED BY <1>6, <1>7, <1>8, <1>9, <2>2, <2>4, ByParts
<1> QED BY <1>11, <1>12

\* sys_mkdir, sys_unlink and sys_rmdir keep the invariant.
LEMMA PathCallKeeps ==
    ASSUME FilesInv, NEW q \in live, NEW up, calls' \in 0 .. MaxCalls,
           sys_mkdir(q, up) \/ sys_unlink(q, up) \/ sys_rmdir(q, up)
    PROVE  FilesInv'
<1>1. Shape(tree)
  BY DEF FilesInv, Core
<1>2. ASSUME NEW S, NEW node, OnPath(q, up, S, node)
      PROVE  ~ stuck /\ UNCHANGED <<live, cwd, fds, stuck, writes>> /\ \E p \in S : SetNode(p, node)
  BY <1>2 DEF OnPath, Running
<1>3. CASE sys_mkdir(q, up)
  <2>1. ~ stuck /\ UNCHANGED <<live, cwd, fds, stuck, writes>> /\ \E p \in Missing : SetNode(p, Directory)
    BY <1>2, <1>3 DEF sys_mkdir
  <2>2. PICK p \in Missing : SetNode(p, Directory)
    BY <2>1
  <2>3. p \in Paths /\ ParentExists(tree, p)
    BY DEF Missing
  <2> QED BY Zenon, <2>1, <2>2, <2>3, SetNodeKeeps, NodesDiffer
<1>4. CASE sys_unlink(q, up)
  <2>1. ~ stuck /\ UNCHANGED <<live, cwd, fds, stuck, writes>> /\ \E p \in Plain : SetNode(p, Nothing)
    BY <1>2, <1>4 DEF sys_unlink
  <2>2. PICK p \in Plain : SetNode(p, Nothing)
    BY <2>1
  <2>3. p \in Paths /\ tree[p] # Directory
    BY DEF Plain, Directory
  <2>4. \A x \in Below(p) : tree[x] = Nothing
    BY <1>1, <2>3, NothingBelow
  <2> QED BY Zenon, <2>1, <2>2, <2>3, <2>4, SetNodeKeeps, NodesDiffer
<1>5. CASE sys_rmdir(q, up)
  <2>1. ~ stuck /\ UNCHANGED <<live, cwd, fds, stuck, writes>> /\ \E p \in EmptyDir : SetNode(p, Nothing)
    BY <1>2, <1>5 DEF sys_rmdir
  <2>2. PICK p \in EmptyDir : SetNode(p, Nothing)
    BY <2>1
  <2>3. p \in Paths
    BY DEF EmptyDir
  <2>4. \A x \in Below(p) : tree[x] = Nothing
    BY <1>1, EmptyHasNothingBelow
  <2> QED BY Zenon, <2>1, <2>2, <2>3, <2>4, SetNodeKeeps, NodesDiffer
<1> QED BY <1>3, <1>4, <1>5

-----------------------------------------------------------------------------
(***************************************************************************)
(* The invariant, and what follows from it.                                    *)
(***************************************************************************)
\* The state after boot satisfies it: nothing is open but the standard streams.
LEMMA FilesInitInv ==
    FilesInit => FilesInv
<1> SUFFICES ASSUME FilesInit PROVE FilesInv
  OBVIOUS
<1>1. IsDisk(tree)
  BY FilesAssumption DEF FilesInit
<1>2. tree \in [Paths -> Nodes] /\ Shape(tree) /\ ideal = tree
  BY <1>1, DiskShape DEF IsDisk, FilesInit
<1>3. /\ DefaultTable \in [FdNums -> Fds]
      /\ \A g \in FdNums : ~ IsFile(DefaultTable[g])
  BY DEF DefaultTable, Fds, IsFile, NoFd, Device
<1>4. fds \in [Procs -> [FdNums -> Fds]] /\ \A q \in Procs, g \in FdNums : ~ IsFile(fds[q][g])
  BY <1>3 DEF FilesInit
<1>5. TablesOK
  BY <1>4 DEF TablesOK, InRange
<1>6. ScalarsOK /\ ~ stuck
  <2>1. live = {Shell} /\ cwd = [q \in Procs |-> Root] /\ calls = 0 /\ writes = 0 /\ faults = 0
    BY DEF FilesInit
  <2>2. stuck = FALSE
    BY DEF FilesInit
  <2>3. 0 \in 0 .. MaxCalls /\ 0 \in 0 .. MaxWrites /\ 0 \in 0 .. MaxFaults
    BY Bounds
  <2> QED BY Zenon, <2>1, <2>2, <2>3, Bounds DEF ScalarsOK
<1>7. TreesOK
  BY <1>2 DEF TreesOK
<1>8. FilesTypeOK
  BY <1>5, <1>6, <1>7, TypeParts
<1>9. ASSUME NEW p \in Paths PROVE PathOK(p)
  BY <1>2, <1>4, <1>6 DEF PathOK, IsWriter, ScalarsOK
<1>10. Core
  BY <1>2, <1>5, <1>6, <1>9, CoreByPath
<1>11. ListingExact
  BY Zenon, <1>4, <1>6 DEF ListingExact, ScalarsOK
<1> QED BY <1>8, <1>10, <1>11 DEF FilesInv

\* Every call on a descriptor keeps it.
LEMMA OnFdKeeps ==
    ASSUME FilesInv, NEW q \in live, NEW f \in FdNums, calls' \in 0 .. MaxCalls, OnFd(q, f)
    PROVE  FilesInv'
<1>1. CASE \E n \in 0 .. MaxLen : sys_write(q, f, n)
  BY <1>1, WriteKeeps, Bounds
<1>2. CASE \E iov \in Buffers : sys_writev(q, f, iov)
  BY <1>2, WritevKeeps, Bounds
<1>3. CASE \/ \E n \in 1 .. MaxCount : sys_read(q, f, n)
           \/ \E iov \in Buffers : sys_readv(q, f, iov)
  BY <1>3, ReadKeeps
<1>4. CASE \E offset \in Offsets, whence \in {"SEEK_SET", "SEEK_CUR", "SEEK_END"} :
               sys_lseek(q, f, offset, whence)
  BY <1>4, SeekKeeps
<1>5. CASE \E count \in 1 .. MaxCount : sys_getdents64(q, f, count)
  BY <1>5, DirentsKeeps, Bounds
<1>6. CASE \E g \in FdNums : sys_dup2(q, f, g) \/ F_DUPFD(q, f, g)
  BY <1>6, DupKeeps, DupFdKeeps
<1> QED BY <1>1, <1>2, <1>3, <1>4, <1>5, <1>6 DEF OnFd

\* And so does every step.
LEMMA FilesNextInv ==
    FilesInv /\ [FilesNext]_filesVars => FilesInv'
<1> SUFFICES ASSUME FilesInv, [FilesNext]_filesVars PROVE FilesInv'
  OBVIOUS
<1>1. ASSUME NEW q \in live, calls < MaxCalls, calls' = calls + 1,
             \/ \E f \in FdNums : OnFd(q, f)
             \/ \E up \in UserPaths : OnUserPath(q, up)
             \/ \E c \in Procs : fork_fds(q, c)
      PROVE  FilesInv'
  <2>1. calls' \in 0 .. MaxCalls
    BY <1>1, Bounds DEF FilesInv, FilesTypeOK
  <2>2. CASE \E f \in FdNums : OnFd(q, f)
    BY <2>1, <2>2, OnFdKeeps
  <2>3. CASE \E up \in UserPaths : OnUserPath(q, up)
    BY <2>1, <2>3, OpenKeeps, ChdirKeeps, PathCallKeeps DEF OnUserPath
  <2>4. CASE \E c \in Procs : fork_fds(q, c)
    BY <2>1, <2>4, ForkKeeps
  <2> QED BY <1>1, <2>2, <2>3, <2>4
<1>2. ASSUME NEW q \in live, UNCHANGED calls,
             \/ \E f \in FdNums : sys_close(q, f)
             \/ release_current_process_fds(q)
             \/ forget_process(q)
      PROVE  FilesInv'
  <2>1. CASE \E f \in FdNums : sys_close(q, f)
    BY <1>2, <2>1, CleanCloseKeeps, DirtyCloseKeeps
  <2>2. CASE release_current_process_fds(q)
    BY <1>2, <2>2, ReleaseKeeps
  <2>3. CASE forget_process(q)
    BY <1>2, <2>3, ForgetKeeps
  <2> QED BY <1>2, <2>1, <2>2, <2>3
<1>3. CASE UNCHANGED filesVars
  <2>1. FilesTypeOK /\ UNCHANGED <<fds, live, stuck, tree, writes, faults, ideal, calls, cwd>>
    BY <1>3 DEF filesVars, FilesInv
  <2>2. ideal' = Exposed({})
    BY <2>1, ExposedIs
  <2>3. calls' \in 0 .. MaxCalls /\ cwd' \in [Procs -> Paths \cup {Root}]
    BY <2>1 DEF FilesTypeOK
  <2> QED BY <2>1, <2>2, <2>3, IdleKeeps
<1> QED BY <1>1, <1>2, <1>3 DEF FilesNext

\* What a descriptor open for writing is.
LEMMA WriterIs ==
    ASSUME FilesInv, NEW p \in Paths, NEW w \in Writers(p)
    PROVE  /\ w[1] \in live /\ w[2] \in FdNums
           /\ fds[w[1]][w[2]] \in Copies /\ IsWriter(fds[w[1]][w[2]]) /\ fds[w[1]][w[2]].name = p
<1>1. FilesTypeOK
  BY DEF FilesInv
<1>2. /\ w[1] \in live /\ w[1] \in Procs /\ w[2] \in FdNums
      /\ IsWriter(fds[w[1]][w[2]]) /\ fds[w[1]][w[2]].name = p
  BY Zenon DEF Writers, Holds, IsWriter
<1>3. fds[w[1]][w[2]] \in Fds
  BY <1>1, <1>2, FdsType
<1> QED BY Zenon, <1>2, <1>3, FdKinds

\* Without unwritten changes the disk holds what the rules say.
LEMMA InvDurable ==
    FilesInv => Durable
<1> SUFFICES ASSUME FilesInv, NEW p \in Paths, ideal[p] # Unknown,
                    \A w \in Writers(p) : ~ fds[w[1]][w[2]].dirty
             PROVE  tree[p] = ideal[p]
  BY DEF Durable
<1>1. ~ \E w \in Writers(p) : fds[w[1]][w[2]].dirty
  OBVIOUS
<1> QED BY <1>1, SettledIs DEF Known

\* Every writer has what the rules say.
LEMMA InvCopiesCurrent ==
    FilesInv => CopiesCurrent
<1> SUFFICES ASSUME FilesInv, NEW p \in Paths, ideal[p] # Unknown, NEW w \in Writers(p)
             PROVE  LET d == fds[w[1]][w[2]]
                    IN /\ ideal[p] = File(d.data)
                       /\ (\A v \in Writers(p) : ~ fds[v[1]][v[2]].dirty) => sys_stat(p) = sys_fstat(d)
  BY Zenon DEF CopiesCurrent
<1> DEFINE d == fds[w[1]][w[2]]
<1>1. w[1] \in live /\ w[2] \in FdNums /\ d \in Copies /\ IsWriter(d) /\ d.name = p
  BY Zenon, WriterIs
<1>2. ideal[p] = File(d.data)
  BY Zenon, <1>1 DEF FilesInv, Core, CopiesMatch, Known
<1>3. ASSUME \A v \in Writers(p) : ~ fds[v[1]][v[2]].dirty PROVE sys_stat(p) = sys_fstat(d)
  <2>1. ~ \E v \in Writers(p) : fds[v[1]][v[2]].dirty
    BY <1>3
  <2>2. tree[p] = File(d.data)
    BY Zenon, <1>2, <2>1, SettledIs DEF Known
  <2>3. Lookup(p) = File(d.data)
    BY <2>2, PathsAre DEF Lookup, Root
  <2>4. d.is_dir = FALSE
    BY Zenon, <1>1 DEF Copies
  <2> QED BY Zenon, <2>3, <2>4, NodesDiffer DEF sys_stat, sys_fstat
<1> QED BY Zenon, <1>2, <1>3

-----------------------------------------------------------------------------
(***************************************************************************)
(* Theorems.                                                                   *)
(***************************************************************************)
\* The invariant holds.
THEOREM FilesInvariant ==
    FilesSpec => []FilesInv
BY FilesInitInv, FilesNextInv, PTL DEF FilesSpec

\* Every value of the file layer is one the code can hold: descriptors are copies of
\* files or listings with their position in range, whatever the calls and the
\* failures of the file system (syscall/files.rs).
THEOREM FilesTypesCorrect ==
    FilesSpec => []FilesTypeOK
<1>1. FilesInv => FilesTypeOK
  BY DEF FilesInv
<1> QED BY <1>1, FilesInvariant, PTL

\* What is written through descriptors reaches the file: as long as the copies of a
\* file are used one at a time, the disk holds exactly what was written, in order, as
\* soon as no unwritten copy is left, through any sequence of open, dup2, fcntl,
\* fork, close and exit.
THEOREM WritesReachTheFile ==
    FilesSpec => []Durable
BY InvDurable, FilesInvariant, PTL

\* Under the same rules no writer works on a stale copy, and stat and fstat agree.
THEOREM WritersAreCurrent ==
    FilesSpec => []CopiesCurrent
BY InvCopiesCurrent, FilesInvariant, PTL

\* getdents64 gives every entry of the listing once and in order, however the reading
\* is split into calls, and gets stuck only after an lseek on a listing.
THEOREM ListingsAreExact ==
    FilesSpec => []ListingExact
<1>1. FilesInv => ListingExact
  BY DEF FilesInv
<1> QED BY <1>1, FilesInvariant, PTL
=============================================================================
