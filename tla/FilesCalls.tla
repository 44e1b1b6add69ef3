----------------------------- MODULE FilesCalls -----------------------------
(***************************************************************************)
(* The calls on descriptors that leave what is on the disk alone, and open:    *)
(* each keeps the invariant of FilesLemmas.                                    *)
(***************************************************************************)
EXTENDS FilesLemmas

-----------------------------------------------------------------------------
(***************************************************************************)
(* The type invariant in three parts, and the core path by path.               *)
(***************************************************************************)
ScalarsOK ==
    /\ live \subseteq Procs /\ Shell \in live
    /\ cwd \in [Procs -> Paths \cup {Root}]
    /\ stuck \in BOOLEAN
    /\ calls \in 0 .. MaxCalls /\ writes \in 0 .. MaxWrites /\ faults \in 0 .. MaxFaults

TreesOK == tree \in [Paths -> Nodes] /\ ideal \in [Paths -> Nodes \cup {Unknown}]

TablesOK == fds \in [Procs -> [FdNums -> Fds]] /\ \A q \in Procs, f \in FdNums : InRange(fds[q][f])

\* They make up the type invariant.
LEMMA TypeParts ==
    FilesTypeOK <=> ScalarsOK /\ TreesOK /\ TablesOK
<1>1. TablesOK => fds = [q \in Procs |-> [f \in FdNums |-> fds[q][f]]]
  BY DEF TablesOK
<1>2. TablesOK => \A q \in Procs, f \in FdNums : IsDescriptor(fds[q][f])
  BY DescriptorIs DEF TablesOK
<1>3. FilesTypeOK => TablesOK
  BY FdsType DEF TablesOK
<1>4. FilesTypeOK => ScalarsOK /\ TreesOK
  BY DEF FilesTypeOK, ScalarsOK, TreesOK
<1> QED BY <1>1, <1>2, <1>3, <1>4 DEF FilesTypeOK, ScalarsOK, TreesOK

\* Also in the next state.
LEMMA TypePartsNext ==
    FilesTypeOK' <=> ScalarsOK' /\ TreesOK' /\ TablesOK'
BY TypeParts, PTL

\* What the core says of one path.
PathOK(p) ==
    Known(p) =>
        /\ ideal[p].kind = tree[p].kind
        /\ \A q \in live, f \in FdNums :
              IsWriter(fds[q][f]) /\ fds[q][f].name = p => ideal[p] = File(fds[q][f].data)
        /\ ideal[p] = tree[p] \/ \E q \in live, f \in FdNums : IsDirty(fds[q][f]) /\ fds[q][f].name = p

\* The core is what it says of all of them.
LEMMA CoreByPath ==
    ScalarsOK /\ TablesOK => (Core <=> Shape(tree) /\ \A p \in Paths : PathOK(p))
<1> SUFFICES ASSUME ScalarsOK, TablesOK PROVE Core <=> Shape(tree) /\ \A p \in Paths : PathOK(p)
  OBVIOUS
<1>1. ASSUME NEW q \in live, NEW f \in FdNums, IsWriter(fds[q][f]) PROVE fds[q][f].name \in Paths
  <2>1. fds[q][f] \in Fds
    BY DEF ScalarsOK, TablesOK
  <2> QED BY <1>1, <2>1, FdKinds
<1>2. ASSUME Core, NEW p \in Paths PROVE PathOK(p)
  BY <1>2 DEF Core, KindsMatch, CopiesMatch, UnwrittenHeld, PathOK
<1>3. ASSUME Shape(tree), \A p \in Paths : PathOK(p) PROVE Core
  BY <1>1, <1>3 DEF Core, KindsMatch, CopiesMatch, UnwrittenHeld, PathOK
<1>4. Core => Shape(tree)
  BY DEF Core
<1> QED BY <1>2, <1>3, <1>4

\* Also in the next state.
LEMMA CoreByPathNext ==
    ScalarsOK' /\ TablesOK' => (Core' <=> Shape(tree') /\ \A p \in Paths : PathOK(p)')
<1>1. ScalarsOK' /\ TablesOK' => (Core' <=> (Shape(tree) /\ \A p \in Paths : PathOK(p))')
  BY CoreByPath, PTL
<1> QED BY <1>1

\* What ListingExact says of one descriptor.
ListingOK(d) ==
    IsFile(d) /\ d.is_dir /\ ~ d.sought =>
        /\ d.offset = RECLEN * Len(d.given)
        /\ d.given = [i \in 1 .. Len(d.given) |-> d.data[RECLEN * i]]

\* As long as nothing is stuck that is all it says.
LEMMA ListingBySlot ==
    ~ stuck => (ListingExact <=> \A q \in live, f \in FdNums : ListingOK(fds[q][f]))
BY DEF ListingExact, ListingOK

\* Also in the next state.
LEMMA ListingBySlotNext ==
    ~ stuck' => (ListingExact' <=> \A q \in live', f \in FdNums : ListingOK(fds'[q][f]))
BY DEF ListingExact, ListingOK, IsFile

-----------------------------------------------------------------------------
(***************************************************************************)
(* Calls that replace one descriptor.                                          *)
(***************************************************************************)
\* A call by q puts e at f, and nothing gets stuck.
Puts(q, f, e) ==
    /\ q \in live /\ f \in FdNums /\ ~ stuck
    /\ fds' = [fds EXCEPT ![q][f] = e] /\ live' = live /\ stuck' = stuck

\* What the tables are afterwards.
LEMMA PutIs ==
    ASSUME FilesTypeOK, NEW q \in live, NEW f \in FdNums, NEW e \in Fds, Puts(q, f, e)
    PROVE  /\ fds' \in [Procs -> [FdNums -> Fds]] /\ live \subseteq Procs
           /\ \A r \in Procs, g \in FdNums : fds'[r][g] = IF r = q /\ g = f THEN e ELSE fds[r][g]
<1>1. q \in Procs /\ live \subseteq Procs
  BY DEF FilesTypeOK
<1>2. fds \in [Procs -> [FdNums -> Fds]]
  BY FdsType
<1>3. fds' = [fds EXCEPT ![q][f] = e]
  BY DEF Puts
<1> QED BY <1>1, <1>2, <1>3, OneSlot

\* The tables stay well-formed and the listings exact when the new descriptor is.
LEMMA SlotTypes ==
    ASSUME FilesTypeOK, ListingExact, NEW q \in live, NEW f \in FdNums, NEW e \in Fds,
           Puts(q, f, e), InRange(e), ListingOK(e)
    PROVE  TablesOK' /\ ListingExact'
<1>1. /\ fds' \in [Procs -> [FdNums -> Fds]] /\ live \subseteq Procs
      /\ \A r \in Procs, g \in FdNums : fds'[r][g] = IF r = q /\ g = f THEN e ELSE fds[r][g]
  BY PutIs
<1>2. ASSUME NEW r \in Procs, NEW g \in FdNums PROVE InRange(fds'[r][g])
  <2>1. InRange(fds[r][g])
    BY FdsType
  <2>2. fds'[r][g] = e \/ fds'[r][g] = fds[r][g]
    BY <1>1
  <2> QED BY <2>1, <2>2
<1>3. TablesOK'
  BY <1>1, <1>2 DEF TablesOK, InRange, IsFile
<1>4. ~ stuck /\ ~ stuck' /\ live' = live
  BY DEF Puts
<1>5. ASSUME NEW r \in live, NEW g \in FdNums PROVE ListingOK(fds'[r][g])
  <2>1. ListingOK(fds[r][g])
    BY <1>4, ListingBySlot
  <2>2. fds'[r][g] = e \/ fds'[r][g] = fds[r][g]
    BY <1>1
  <2> QED BY <2>1, <2>2
<1>6. ListingExact'
  BY <1>4, <1>5, ListingBySlotNext
<1> QED BY <1>3, <1>6

\* The core and the listings stay when nothing they speak of changes.
LEMMA CoreStays ==
    ASSUME Core, UNCHANGED <<fds, live, tree, ideal>>
    PROVE  Core'
<1>1. Shape(tree)' /\ KindsMatch'
  BY DEF Core, Shape, KindsMatch, Known
<1>2. CopiesMatch'
  BY DEF Core, CopiesMatch, Known, IsWriter, IsFile
<1>3. UnwrittenHeld'
  BY DEF Core, UnwrittenHeld, Known, IsDirty, IsFile
<1> QED BY <1>1, <1>2, <1>3 DEF Core

\* And a getdents64 may be stuck only after an lseek on a listing.
LEMMA ListingStays ==
    ASSUME ListingExact, UNCHANGED <<fds, live>>,
           stuck' => \E q \in live, f \in FdNums : IsFile(fds[q][f]) /\ fds[q][f].sought
    PROVE  ListingExact'
BY DEF ListingExact, IsFile

\* Breaking the rules for some paths, and for none.
LEMMA ExposedIs ==
    ASSUME FilesTypeOK
    PROVE  /\ ideal = Exposed({})
           /\ \A ps : /\ Exposed(ps) \in [Paths -> Nodes \cup {Unknown}]
                      /\ \A p \in Paths : Exposed(ps)[p] = IF p \in ps THEN Unknown ELSE ideal[p]
<1>1. ideal \in [Paths -> Nodes \cup {Unknown}]
  BY DEF FilesTypeOK
<1> QED BY <1>1 DEF Exposed

\* The scalars of a call that changes none but the number of calls.
LEMMA ScalarsStay ==
    ASSUME FilesTypeOK, UNCHANGED <<live, cwd, writes, faults>>, stuck' \in BOOLEAN, calls' \in 0 .. MaxCalls
    PROVE  ScalarsOK'
BY DEF FilesTypeOK, ScalarsOK

\* Every call that replaces one descriptor and leaves the disk alone keeps the
\* invariant.
LEMMA SlotKeeps ==
    ASSUME FilesInv, NEW q \in live, NEW f \in FdNums, NEW e \in Fds,
           Puts(q, f, e), InRange(e), ListingOK(e),
           UNCHANGED <<cwd, tree, writes, faults>>, calls' \in 0 .. MaxCalls,
           NEW ps, ideal' = Exposed(ps),
           IsDirty(fds[q][f]) /\ fds[q][f].name \notin ps => IsDirty(e) /\ e.name = fds[q][f].name,
           IsWriter(e) /\ e.name \notin ps /\ Known(e.name) => ideal[e.name] = File(e.data)
    PROVE  FilesInv'
<1>1. FilesTypeOK /\ Core /\ ListingExact
  BY DEF FilesInv
<1>2. /\ ideal' \in [Paths -> Nodes \cup {Unknown}]
      /\ \A p \in Paths : ideal'[p] = IF p \in ps THEN Unknown ELSE ideal[p]
  BY <1>1, ExposedIs
<1>3. TablesOK' /\ ListingExact'
  BY <1>1, SlotTypes
<1>4. live' = live /\ stuck' = stuck /\ fds' = [fds EXCEPT ![q][f] = e]
  BY DEF Puts
<1>5. ScalarsOK' /\ TreesOK'
  <2>1. stuck' \in BOOLEAN
    BY <1>1, <1>4 DEF FilesTypeOK
  <2>2. ScalarsOK'
    BY <1>1, <1>4, <2>1, ScalarsStay
  <2>3. tree' \in [Paths -> Nodes]
    BY <1>1 DEF FilesTypeOK
  <2> QED BY <1>2, <2>2, <2>3 DEF TreesOK
<1>6. fds[q][f] \in Fds
  BY <1>1, FdsType DEF FilesTypeOK
<1>7. ASSUME IsDirty(fds[q][f]), ideal'[fds[q][f].name] # Unknown PROVE IsDirty(e) /\ e.name = fds[q][f].name
  <2>1. fds[q][f].name \in Paths
    BY <1>6, <1>7, FdKinds
  <2> QED BY <1>2, <1>7, <2>1
<1>8. ASSUME IsWriter(e), ideal'[e.name] # Unknown PROVE ideal'[e.name] = File(e.data)
  <2>1. e.name \in Paths
    BY <1>8, FdKinds
  <2> QED BY <1>2, <1>8, <2>1 DEF Known
<1>9. Core'
  BY Zenon, <1>1, <1>2, <1>4, <1>7, <1>8, SlotStep
<1> QED BY <1>3, <1>5, <1>9, TypePartsNext DEF FilesInv

\* Moving the position of a copy keeps the invariant.
LEMMA MoveKeeps ==
    ASSUME FilesInv, NEW q \in live, NEW f \in FdNums, fds[q][f] \in Copies, NEW e \in Moved(fds[q][f]),
           Puts(q, f, e), UNCHANGED <<cwd, tree, writes, faults, ideal>>, calls' \in 0 .. MaxCalls
    PROVE  FilesInv'
<1> DEFINE d == fds[q][f]
<1>1. FilesTypeOK /\ Core
  BY DEF FilesInv
<1>2. /\ e \in Copies /\ e.name = d.name /\ e.data = d.data /\ e.writable = d.writable /\ e.dirty = d.dirty
      /\ e.offset <= Max({MaxLen, Len(e.data)})
  BY DEF Moved
<1>3. e \in Fds /\ d \in Fds
  BY <1>2 DEF Fds
<1>4. IsFile(e) /\ ~ e.is_dir /\ IsFile(d)
  BY <1>2, <1>3, FdKinds
<1>5. InRange(e) /\ ListingOK(e)
  BY <1>2, <1>4 DEF InRange, ListingOK
<1>6. ideal' = Exposed({})
  BY <1>1, ExposedIs
<1>7. IsDirty(d) => IsDirty(e) /\ e.name = d.name
  BY <1>2, <1>4 DEF IsDirty
<1>8. IsWriter(e) /\ Known(e.name) => ideal[e.name] = File(e.data)
  BY Zenon, <1>1, <1>2, <1>4 DEF Core, CopiesMatch, IsWriter
<1> QED BY <1>3, <1>5, <1>6, <1>7, <1>8, SlotKeeps

\* The descriptor of a copy.
LEMMA CopyAt ==
    ASSUME FilesTypeOK, NEW q \in live, NEW f \in FdNums, IsFile(fds[q][f])
    PROVE  /\ fds[q][f] \in Fds /\ InRange(fds[q][f])
           /\ ~ fds[q][f].is_dir => fds[q][f] \in Copies /\ fds[q][f] \in Moved(fds[q][f])
           /\ fds[q][f].is_dir => fds[q][f] \in Listings
<1> DEFINE d == fds[q][f]
<1>1. d \in Fds /\ InRange(d)
  BY FdsType DEF FilesTypeOK
<1>2. d \in Copies \/ d \in Listings
  BY <1>1, FdKinds
<1>3. ~ d.is_dir => d \in Copies
  BY <1>1, <1>2, FdKinds
<1>4. d.is_dir => d \in Listings
  BY <1>1, <1>2, FdKinds
<1>5. d \in Copies => d \in Moved(d)
  BY Zenon, <1>1 DEF Moved, InRange
<1> QED BY <1>1, <1>3, <1>4, <1>5

\* sys_read and sys_readv keep the invariant.
LEMMA ReadKeeps ==
    ASSUME FilesInv, NEW q \in live, NEW f \in FdNums, calls' \in 0 .. MaxCalls,
           \/ \E n \in 1 .. MaxCount : sys_read(q, f, n)
           \/ \E iov \in Buffers : sys_readv(q, f, iov)
    PROVE  FilesInv'
<1> DEFINE d == fds[q][f]
<1>1. FilesTypeOK /\ q \in Procs
  BY DEF FilesInv, FilesTypeOK
<1>2. CanRead(q, f) /\ UNCHANGED <<live, stuck, cwd, tree, writes, faults, ideal>>
  BY DEF sys_read, sys_readv
<1>3. d \in Copies /\ d \in Moved(d)
  BY <1>1, <1>2, CopyAt DEF CanRead
<1>4. PICK e \in Moved(d) : fds' = [fds EXCEPT ![q][f] = e]
  <2>1. CASE \E n \in 1 .. MaxCount : sys_read(q, f, n)
    <3>1. PICK n \in 1 .. MaxCount : sys_read(q, f, n)
      BY <2>1
    <3>2. n \in Nat
      BY Bounds
    <3>3. ReadBuf(d, n) \in Moved(d)
      BY <1>3, <3>2, ReadBufIs
    <3>4. fds' = [fds EXCEPT ![q][f] = ReadBuf(d, n)]
      BY <3>1 DEF sys_read
    <3> QED BY Zenon, <3>3, <3>4
  <2>2. CASE \E iov \in Buffers : sys_readv(q, f, iov)
    <3>1. PICK iov \in Buffers : sys_readv(q, f, iov)
      BY <2>2
    <3>2. iov \in Seq(Int)
      BY Bounds
    <3>3. ReadEach(d, iov) \in Moved(d)
      BY <1>3, <3>2, ReadEachIs
    <3>4. fds' = [fds EXCEPT ![q][f] = ReadEach(d, iov)]
      BY <3>1 DEF sys_readv
    <3> QED BY Zenon, <3>3, <3>4
  <2> QED BY <2>1, <2>2
<1>5. Puts(q, f, e)
  BY <1>2, <1>4 DEF Puts, CanRead, Running
<1> QED BY <1>2, <1>3, <1>5, MoveKeeps

\* Replacing a listing by one whose names given so far are exact, or whose position
\* was moved, keeps the invariant.
LEMMA ListingKeeps ==
    ASSUME FilesInv, NEW q \in live, NEW f \in FdNums, fds[q][f] \in Listings, NEW e \in Listings,
           Puts(q, f, e), e.offset <= Max({MaxLen, Len(e.data)}), ListingOK(e),
           UNCHANGED <<cwd, tree, writes, faults, ideal>>, calls' \in 0 .. MaxCalls
    PROVE  FilesInv'
<1>1. FilesTypeOK
  BY DEF FilesInv
<1>2. e \in Fds /\ fds[q][f] \in Fds
  BY DEF Fds
<1>3. ~ IsDirty(fds[q][f]) /\ ~ IsWriter(e) /\ InRange(e)
  BY <1>2, FdKinds DEF IsDirty, IsWriter, InRange
<1>4. ideal' = Exposed({})
  BY <1>1, ExposedIs
<1> QED BY <1>2, <1>3, <1>4, SlotKeeps

\* sys_lseek keeps the invariant: a listing is marked when its position is moved.
LEMMA SeekKeeps ==
    ASSUME FilesInv, NEW q \in live, NEW f \in FdNums, calls' \in 0 .. MaxCalls,
           NEW offset, NEW whence, sys_lseek(q, f, offset, whence)
    PROVE  FilesInv'
<1> DEFINE d == fds[q][f]
<1>1. FilesTypeOK /\ q \in Procs
  BY DEF FilesInv, FilesTypeOK
<1>2. /\ Running(q) /\ IsFile(d)
      /\ UNCHANGED <<live, stuck, cwd, tree, writes, faults, ideal>>
  BY Zenon DEF sys_lseek
<1>3. fds \in [Procs -> [FdNums -> Fds]]
  BY <1>1, FdsType
<1>4. PICK x \in 0 .. Max({MaxLen, Len(d.data)}) :
          fds' = [fds EXCEPT ![q][f].offset = x, ![q][f].sought = d.is_dir, ![q][f].given = <<>>]
  BY Zenon DEF sys_lseek
<1> DEFINE e == [d EXCEPT !.offset = x, !.sought = d.is_dir, !.given = <<>>]
<1>5. fds' = [fds EXCEPT ![q][f] = e]
  BY Zenon, <1>1, <1>3, <1>4
<1>6. Puts(q, f, e)
  BY <1>2, <1>5 DEF Puts, Running
<1>7. CASE d.is_dir
  <2>1. d \in Listings /\ d.is_dir = TRUE
    BY Zenon, <1>1, <1>2, <1>7, CopyAt DEF Listings
  <2>2. d.data \in Seq(EntryNames)
    BY Zenon, <2>1 DEF Listings
  <2>3. Max({MaxLen, Len(d.data)}) \in Nat
    <3>1. MaxLen \in Int /\ Len(d.data) \in Int /\ MaxLen \in Nat /\ Len(d.data) \in Nat
      BY <2>2, Bounds
    <3>2. Max({MaxLen, Len(d.data)}) = IF MaxLen >= Len(d.data) THEN MaxLen ELSE Len(d.data)
      BY Zenon, <3>1, MaxOfTwo
    <3> QED BY <3>1, <3>2
  <2>4. x \in Nat /\ x <= Max({MaxLen, Len(d.data)})
    BY <2>3
  <2>5. e \in Listings /\ e.offset = x /\ e.data = d.data /\ e.sought
    <3>1. e = [d EXCEPT !.offset = x, !.sought = TRUE, !.given = <<>>]
      BY Zenon, <2>1
    <3> HIDE DEF e
    <3>2. <<>> \in Seq(EntryNames) /\ TRUE \in BOOLEAN
      OBVIOUS
    <3>3. e \in Listings
      BY Zenon, <2>1, <2>4, <3>1, <3>2 DEF Listings
    <3>4. e.offset = x /\ e.data = d.data /\ e.sought
      BY <2>1, <3>1 DEF Listings
    <3> QED BY <3>3, <3>4
  <2>6. ListingOK(e)
    BY <2>5 DEF ListingOK
  <2> HIDE DEF e
  <2> QED BY <1>2, <1>6, <2>1, <2>4, <2>5, <2>6, ListingKeeps
<1>8. CASE ~ d.is_dir
  <2>1. d \in Copies /\ d.is_dir = FALSE
    BY Zenon, <1>1, <1>2, <1>8, CopyAt DEF Copies
  <2>2. Max({MaxLen, Len(d.data)}) = MaxLen /\ MaxLen \in Nat
    BY <2>1, CopyIs, Bounds
  <2>3. x \in Nat /\ x <= Max({MaxLen, Len(d.data)})
    BY <2>2
  <2>4. /\ e \in Copies /\ e.offset = x /\ e.data = d.data /\ e.name = d.name
        /\ e.writable = d.writable /\ e.dirty = d.dirty
    BY Zenon, <2>1, <2>3 DEF Copies
  <2> HIDE DEF e
  <2>5. e \in Moved(d)
    BY Zenon, <2>3, <2>4 DEF Moved
  <2> QED BY <1>2, <1>6, <2>1, <2>5, MoveKeeps
<1> QED BY <1>7, <1>8

\* Whole records only.
LEMMA WholeRecordsIs ==
    ASSUME NEW d \in Listings, NEW count \in Nat, d.offset < Len(d.data)
    PROVE  \E k \in Nat : /\ WholeRecords(d, count) = 2 * k /\ WholeRecords(d, count) \div RECLEN = k
                          /\ d.offset + 2 * k <= Len(d.data)
<1>1. d.offset \in Nat /\ Len(d.data) \in Nat
  BY DEF Listings
<1> DEFINE m == Min({count, Len(d.data) - d.offset})
<1>2. m = IF count <= Len(d.data) - d.offset THEN count ELSE Len(d.data) - d.offset
  <2>1. count \in Int /\ Len(d.data) - d.offset \in Int
    BY <1>1
  <2> QED BY Zenon, <2>1, MinOfTwo
<1> HIDE DEF m
<1>3. m \in Nat /\ m <= Len(d.data) - d.offset
  BY <1>1, <1>2
<1>4. PICK k \in Nat : k = m \div 2 /\ 2 * k <= m
  BY <1>3
<1>5. WholeRecords(d, count) = 2 * k
  BY <1>4 DEF WholeRecords, RECLEN, m
<1>6. WholeRecords(d, count) \div RECLEN = k
  BY <1>5 DEF RECLEN
<1>7. d.offset + 2 * k <= Len(d.data)
  BY <1>1, <1>3, <1>4
<1> QED BY <1>5, <1>6, <1>7

\* The parts of a listing.
LEMMA ListingIs ==
    ASSUME NEW d \in Listings
    PROVE  d.offset \in Nat /\ d.data \in Seq(EntryNames) /\ Len(d.data) \in Nat /\ d.given \in Seq(EntryNames)
<1>1. d.offset \in Nat /\ d.data \in Seq(EntryNames) /\ d.given \in Seq(EntryNames)
  BY DEF Listings
<1> QED BY <1>1

\* The names more continue the names given by k records from position o on.
Continues(more, data, given, o, k) ==
    /\ more \in Seq(EntryNames)
    /\ o = 2 * Len(given) /\ given = [i \in 1 .. Len(given) |-> data[2 * i]] =>
          o + 2 * k = 2 * Len(more) /\ more = [i \in 1 .. Len(more) |-> data[2 * i]]

\* What sys_getdents64 copies out continues them.
LEMMA GivenMore ==
    ASSUME NEW data \in Seq(EntryNames), NEW given \in Seq(EntryNames), NEW o \in Nat, NEW k \in Nat, o + 2 * k <= Len(data)
    PROVE  Continues(given \o [i \in 1 .. k |-> data[o + 2 * i]], data, given, o, k)
<1> DEFINE new == [i \in 1 .. k |-> data[o + 2 * i]]
           more == given \o new
<1>1. Len(data) \in Nat /\ Len(given) \in Nat
  OBVIOUS
<1>2. ASSUME NEW i \in 1 .. k PROVE data[o + 2 * i] \in EntryNames
  <2>1. o + 2 * i \in 1 .. Len(data)
    BY <1>1
  <2> QED BY <2>1
<1>3. new \in [1 .. k -> EntryNames]
  BY <1>2
<1>4. new \in Seq(EntryNames) /\ Len(new) = k
  BY <1>3, FunIsSeq
<1>5. \A i \in 1 .. k : new[i] = data[o + 2 * i]
  OBVIOUS
<1> HIDE DEF new
<1>6. /\ more \in Seq(EntryNames) /\ Len(more) = Len(given) + k
      /\ \A i \in 1 .. Len(given) + k : more[i] = IF i <= Len(given) THEN given[i] ELSE new[i - Len(given)]
  BY SMTT(20), <1>1, <1>4
<1> HIDE DEF more
<1>7. ASSUME o = 2 * Len(given), given = [i \in 1 .. Len(given) |-> data[2 * i]]
      PROVE  o + 2 * k = 2 * Len(more) /\ more = [i \in 1 .. Len(more) |-> data[2 * i]]
  <2>1. o + 2 * k = 2 * Len(more)
    BY <1>1, <1>6, <1>7
  <2>2. ASSUME NEW i \in 1 .. Len(given) + k PROVE more[i] = data[2 * i]
    <3>1. CASE i <= Len(given)
      <4>1. i \in 1 .. Len(given)
        BY <1>1, <3>1
      <4> QED BY <1>6, <1>7, <3>1, <4>1
    <3>2. CASE i > Len(given)
      <4>1. i - Len(given) \in 1 .. k /\ o + 2 * (i - Len(given)) = 2 * i /\ ~ (i <= Len(given))
        BY <1>1, <1>7, <3>2
      <4>2. more[i] = new[i - Len(given)]
        BY <1>6, <4>1
      <4>3. new[i - Len(given)] = data[o + 2 * (i - Len(given))]
        BY <1>5, <4>1
      <4> QED BY <4>1, <4>2, <4>3
    <3> QED BY <1>1, <3>1, <3>2
  <2>3. more = [i \in 1 .. Len(more) |-> more[i]]
    BY <1>6
  <2>4. more = [i \in 1 .. Len(more) |-> data[2 * i]]
    BY <1>1, <1>6, <2>2, <2>3
  <2> QED BY <2>1, <2>4
<1> QED BY Zenon, <1>6, <1>7 DEF more, new, Continues

\* sys_getdents64 keeps the invariant: it hands out whole records, and gets into the
\* middle of one only where lseek had moved the position.
LEMMA DirentsKeeps ==
    ASSUME FilesInv, NEW q \in live, NEW f \in FdNums, calls' \in 0 .. MaxCalls,
           NEW count \in Nat, sys_getdents64(q, f, count)
    PROVE  FilesInv'
<1> DEFINE d == fds[q][f]
           span == WholeRecords(d, count)
<1>1. FilesTypeOK /\ q \in Procs /\ ListingExact
  BY DEF FilesInv, FilesTypeOK
<1>2. /\ Running(q) /\ IsFile(d) /\ d.is_dir /\ d.offset < Len(d.data)
      /\ UNCHANGED <<live, cwd, tree, writes, faults, ideal>>
  BY Zenon DEF sys_getdents64
<1>3. fds \in [Procs -> [FdNums -> Fds]]
  BY <1>1, FdsType
<1>4. d \in Listings
  BY <1>1, <1>2, CopyAt
<1>5. d.offset \in Nat /\ d.data \in Seq(EntryNames) /\ Len(d.data) \in Nat /\ d.given \in Seq(EntryNames)
  BY <1>4, ListingIs
<1>6. ~ stuck /\ ListingOK(d)
  BY <1>1, <1>2, ListingBySlot DEF Running
<1>7. Len(d.data) <= Max({MaxLen, Len(d.data)}) /\ Max({MaxLen, Len(d.data)}) \in Nat
  <2>1. MaxLen \in Int /\ Len(d.data) \in Int /\ MaxLen \in Nat
    BY <1>5, Bounds
  <2>2. Max({MaxLen, Len(d.data)}) = IF MaxLen >= Len(d.data) THEN MaxLen ELSE Len(d.data)
    BY Zenon, <2>1, MaxOfTwo
  <2> QED BY <1>5, <2>1, <2>2
<1>8. d.offset % RECLEN # 0 => d.sought
  <2> SUFFICES ASSUME ~ d.sought PROVE d.offset % 2 = 0
    BY DEF RECLEN
  <2> HIDE DEF d
  <2>1. d.offset = 2 * Len(d.given)
    BY <1>2, <1>6 DEF ListingOK, RECLEN
  <2>2. PICK n \in Nat : n = Len(d.given)
    BY <1>5
  <2>3. (2 * n) % 2 = 0
    OBVIOUS
  <2> QED BY Zenon, <2>1, <2>2, <2>3
<1>9. CASE /\ d.offset % RECLEN = 0 /\ span > 0
           /\ fds' = [fds EXCEPT ![q][f].offset = @ + span,
                                 ![q][f].given = @ \o [i \in 1 .. span \div RECLEN |-> d.data[d.offset + RECLEN * i]]]
           /\ UNCHANGED stuck
  <2>1. PICK k \in Nat : span = 2 * k /\ span \div RECLEN = k /\ d.offset + 2 * k <= Len(d.data)
    BY Zenon, <1>2, <1>4, WholeRecordsIs
  <2> DEFINE more == d.given \o [i \in 1 .. k |-> d.data[d.offset + 2 * i]]
             e == [d EXCEPT !.offset = d.offset + 2 * k, !.given = more]
  <2>2. fds' = [fds EXCEPT ![q][f] = e]
    BY Zenon, <1>1, <1>3, <1>9, <2>1 DEF RECLEN
  <2>3. /\ more \in Seq(EntryNames)
        /\ d.offset = 2 * Len(d.given) /\ d.given = [i \in 1 .. Len(d.given) |-> d.data[2 * i]] =>
              d.offset + 2 * k = 2 * Len(more) /\ more = [i \in 1 .. Len(more) |-> d.data[2 * i]]
    <3>1. Continues(more, d.data, d.given, d.offset, k)
      BY Zenon, <1>5, <2>1, GivenMore
    <3> HIDE DEF more, d
    <3> QED BY <3>1 DEF Continues
  <2> HIDE DEF more
  <2>4. d.offset + 2 * k \in Nat /\ d.offset + 2 * k <= Max({MaxLen, Len(d.data)})
    BY SMTT(20), <1>5, <1>7, <2>1
  <2>5. e \in Listings /\ e.offset = d.offset + 2 * k /\ e.data = d.data /\ e.given = more /\ e.sought = d.sought
    BY Zenon, <1>4, <2>3, <2>4 DEF Listings
  <2>6. Puts(q, f, e)
    BY Zenon, <1>2, <1>6, <1>9, <2>2 DEF Puts
  <2> HIDE DEF e
  <2>7. ListingOK(e)
    <3> SUFFICES ASSUME ~ e.sought
                 PROVE  e.offset = 2 * Len(e.given) /\ e.given = [i \in 1 .. Len(e.given) |-> e.data[2 * i]]
      BY DEF ListingOK, RECLEN
    <3>1. d.offset = 2 * Len(d.given) /\ d.given = [i \in 1 .. Len(d.given) |-> d.data[2 * i]]
      BY Zenon, <1>2, <1>6, <2>5 DEF ListingOK, RECLEN
    <3> QED BY Zenon, <2>3, <2>5, <3>1
  <2> QED BY <1>2, <1>4, <2>4, <2>5, <2>6, <2>7, ListingKeeps
<1>10. CASE d.offset % RECLEN # 0 /\ stuck' = TRUE /\ UNCHANGED fds
  <2>1. TablesOK' /\ TreesOK'
    BY <1>1, <1>2, <1>10, TypeParts DEF TablesOK, TreesOK, InRange, IsFile
  <2>2. ScalarsOK'
    BY <1>1, <1>2, <1>10, ScalarsStay
  <2>3. Core'
    BY <1>2, <1>10, CoreStays DEF FilesInv
  <2>4. ListingExact'
    <3>1. \E r \in live, g \in FdNums : IsFile(fds[r][g]) /\ fds[r][g].sought
      BY <1>2, <1>8, <1>10
    <3> QED BY <1>1, <1>2, <1>10, <3>1, ListingStays
  <2> QED BY <2>1, <2>2, <2>3, <2>4, TypePartsNext DEF FilesInv
<1>11. CASE /\ d.offset % RECLEN # 0 /\ UNCHANGED stuck
            /\ \E end \in d.offset + 1 .. Len(d.data) : fds' = [fds EXCEPT ![q][f].offset = end]
  <2>1. PICK end \in d.offset + 1 .. Len(d.data) : fds' = [fds EXCEPT ![q][f].offset = end]
    BY Zenon, <1>11
  <2> DEFINE e == [d EXCEPT !.offset = end]
  <2>2. fds' = [fds EXCEPT ![q][f] = e]
    BY <1>1, <1>3, <2>1
  <2>3. end \in Nat /\ end <= Max({MaxLen, Len(d.data)})
    BY SMTT(20), <1>5, <1>7
  <2>4. e \in Listings /\ e.offset = end /\ e.data = d.data /\ e.sought = d.sought
    BY Zenon, <1>4, <2>3 DEF Listings
  <2>5. Puts(q, f, e)
    BY Zenon, <1>2, <1>6, <1>11, <2>2 DEF Puts
  <2> HIDE DEF e
  <2>6. ListingOK(e)
    BY <1>8, <1>11, <2>4 DEF ListingOK
  <2> QED BY Zenon, <1>2, <1>4, <2>3, <2>4, <2>5, <2>6, ListingKeeps
<1> QED BY Zenon, <1>9, <1>10, <1>11 DEF sys_getdents64

\* A copy of another of the process's descriptors is as good as that one.
LEMMA AsGood ==
    ASSUME FilesInv, ~ stuck, NEW q \in live, NEW f \in FdNums
    PROVE  /\ fds[q][f] \in Fds /\ InRange(fds[q][f]) /\ ListingOK(fds[q][f])
           /\ IsWriter(fds[q][f]) /\ Known(fds[q][f].name) => ideal[fds[q][f].name] = File(fds[q][f].data)
<1>1. FilesTypeOK /\ Core /\ ListingExact /\ q \in Procs
  BY DEF FilesInv, FilesTypeOK
<1>2. fds[q][f] \in Fds /\ InRange(fds[q][f])
  BY <1>1, FdsType
<1>3. ListingOK(fds[q][f])
  BY <1>1, ListingBySlot
<1>4. IsWriter(fds[q][f]) /\ Known(fds[q][f].name) => ideal[fds[q][f].name] = File(fds[q][f].data)
  BY <1>1 DEF Core, CopiesMatch
<1> QED BY Zenon, <1>2, <1>3, <1>4

\* sys_dup2 keeps the invariant: unwritten changes of the descriptor it replaces are
\* lost, and that breaks the rules for their file.
LEMMA DupKeeps ==
    ASSUME FilesInv, NEW q \in live, NEW f \in FdNums, NEW g \in FdNums, calls' \in 0 .. MaxCalls, sys_dup2(q, f, g)
    PROVE  FilesInv'
<1> DEFINE e == fds[q][f]
           ps == DirtyNames(fds[q], {g})
<1>1. ~ stuck /\ UNCHANGED <<tree, live, cwd, stuck, writes, faults>> /\ ideal' = Exposed(ps)
  BY DEF sys_dup2, Running
<1>2. Puts(q, g, e)
  BY <1>1 DEF sys_dup2, Puts
<1>3. /\ e \in Fds /\ InRange(e) /\ ListingOK(e)
      /\ IsWriter(e) /\ Known(e.name) => ideal[e.name] = File(e.data)
  BY <1>1, AsGood
<1>4. IsDirty(fds[q][g]) => fds[q][g].name \in ps
  BY DEF DirtyNames
<1> HIDE DEF e, ps
<1> QED BY Zenon, <1>1, <1>2, <1>3, <1>4, SlotKeeps

\* fcntl(F_DUPFD) keeps the invariant: it fills a free slot.
LEMMA DupFdKeeps ==
    ASSUME FilesInv, NEW q \in live, NEW f \in FdNums, NEW start \in FdNums, calls' \in 0 .. MaxCalls, F_DUPFD(q, f, start)
    PROVE  FilesInv'
<1> DEFINE e == fds[q][f]
           free == {n \in FreeFds(fds[q]) : n >= start}
           g == Min(free)
<1>1. /\ ~ stuck /\ UNCHANGED <<tree, live, cwd, stuck, writes, faults, ideal>> /\ free # {}
      /\ fds' = [fds EXCEPT ![q][g] = e]
  BY DEF F_DUPFD, Running
<1>2. free \subseteq Nat
  BY Bounds DEF FreeFds, FdNums
<1>3. g \in free
  <2> HIDE DEF free
  <2> QED BY <1>1, <1>2, MinIsLeast
<1>4. g \in FdNums /\ fds[q][g] = NoFd
  BY <1>3 DEF FreeFds
<1> HIDE DEF g
<1>5. Puts(q, g, e)
  BY <1>1, <1>4 DEF Puts
<1>6. /\ e \in Fds /\ InRange(e) /\ ListingOK(e)
      /\ IsWriter(e) /\ Known(e.name) => ideal[e.name] = File(e.data)
  BY <1>1, AsGood
<1>7. ~ IsDirty(fds[q][g])
  BY <1>4 DEF IsDirty, IsFile, NoFd
<1>8. ideal' = Exposed({})
  BY <1>1, ExposedIs DEF FilesInv
<1> HIDE DEF e
<1> QED BY <1>1, <1>4, <1>5, <1>6, <1>7, <1>8, SlotKeeps

\* Closing a descriptor that has nothing to write back keeps the invariant.
LEMMA CleanCloseKeeps ==
    ASSUME FilesInv, NEW q \in live, NEW f \in FdNums, UNCHANGED calls, sys_close(q, f), ~ IsDirty(fds[q][f])
    PROVE  FilesInv'
<1>1. /\ ~ stuck /\ UNCHANGED <<tree, live, cwd, stuck, writes, faults, ideal>>
      /\ fds' = [fds EXCEPT ![q][f] = NoFd]
  BY DEF sys_close, Running
<1>2. Puts(q, f, NoFd)
  BY <1>1 DEF Puts
<1>3. NoFd \in Fds /\ ~ IsFile(NoFd)
  BY DEF Fds, IsFile, NoFd
<1>4. InRange(NoFd) /\ ListingOK(NoFd) /\ ~ IsWriter(NoFd)
  BY <1>3 DEF InRange, ListingOK, IsWriter
<1>5. ideal' = Exposed({}) /\ calls' \in 0 .. MaxCalls
  BY <1>1, ExposedIs DEF FilesInv, FilesTypeOK
<1> HIDE DEF NoFd
<1> QED BY <1>1, <1>2, <1>3, <1>4, <1>5, SlotKeeps

-----------------------------------------------------------------------------
(***************************************************************************)
(* open.                                                                      *)
(***************************************************************************)
\* The entries of a directory are a sequence of names.
LEMMA EntriesAre ==
    ASSUME NEW p
    PROVE  Entries(p) \in Seq(EntryNames)
<1> DEFINE C == Children(p)
           names == {Name(c) : c \in C}
           n == Cardinality(names)
           slots == CHOOSE s \in Injection(1 .. n, names) : TRUE
<1>1. IsFiniteSet(C) /\ C \subseteq Paths
  <2>1. C \in SUBSET Paths
    BY DEF Children
  <2> QED BY <2>1, PathsAre, FS_Subset
<1> HIDE DEF C
<1>2. names \subseteq EntryNames
  BY <1>1 DEF EntryNames
<1>3. IsFiniteSet(names)
  <2> DEFINE h == [c \in C |-> Name(c)]
  <2>1. h \in Surjection(C, names)
    BY DEF Surjection
  <2> HIDE DEF h
  <2> QED BY <1>1, <2>1, FS_Surjection
<1> HIDE DEF names
<1>4. n \in Nat /\ ExistsBijection(1 .. n, names)
  BY <1>3, FS_CardinalityType
<1> HIDE DEF n
<1>5. slots \in Injection(1 .. n, names)
  BY <1>4 DEF ExistsBijection, Bijection
<1> HIDE DEF slots
<1>6. slots \in [1 .. n -> names]
  BY <1>5 DEF Injection
<1>7. slots \in Seq(EntryNames)
  <2>1. slots \in [1 .. n -> EntryNames]
    BY <1>2, <1>6
  <2> QED BY <1>4, <2>1, FunIsSeq
<1>8. Entries(p) = (IF p = Root THEN <<>> ELSE <<".", "..">>) \o slots
  BY DEF Entries, slots, n, names, C
<1>9. \A a, b \in EntryNames : <<a, b>> \in Seq(EntryNames)
  OBVIOUS
<1>10. <<".", "..">> \in Seq(EntryNames)
  BY Zenon, <1>9 DEF EntryNames
<1>11. CASE p = Root
  <2>1. <<>> \o slots = slots
    BY <1>7
  <2> QED BY <1>7, <1>8, <1>11, <2>1
<1>12. CASE p # Root
  <2> DEFINE dots == <<".", "..">>
  <2>1. Entries(p) = dots \o slots
    BY <1>8, <1>12
  <2> HIDE DEF dots
  <2>2. dots \in Seq(EntryNames)
    BY Zenon, <1>10 DEF dots
  <2> QED BY <1>7, <2>1, <2>2
<1> QED BY <1>11, <1>12

\* So are the cells of their records.
LEMMA CellsAre ==
    ASSUME NEW items \in Seq(EntryNames)
    PROVE  serialize_dirents(items) \in Seq(EntryNames)
<1> DEFINE m == 2 * Len(items)
           cell(i) == items[((i - 1) \div 2) + 1]
<1>1. Len(items) \in Nat /\ m \in Nat
  OBVIOUS
<1>2. ASSUME NEW i \in 1 .. m PROVE cell(i) \in EntryNames
  <2>1. PICK k \in Int : k = (i - 1) \div 2
    BY <1>1
  <2>2. k + 1 \in 1 .. Len(items)
    BY <1>1, <2>1
  <2> QED BY <2>1, <2>2
<1>3. serialize_dirents(items) = [i \in 1 .. m |-> cell(i)]
  BY DEF serialize_dirents, RECLEN
<1> HIDE DEF m, cell
<1>4. serialize_dirents(items) \in [1 .. m -> EntryNames]
  BY <1>2, <1>3
<1> QED BY <1>1, <1>4, FunIsSeq

\* A call that leaves all descriptors and the disk alone keeps the invariant.
LEMMA IdleKeeps ==
    ASSUME FilesInv, UNCHANGED <<fds, live, stuck, tree, writes, faults>>, calls' \in 0 .. MaxCalls,
           cwd' \in [Procs -> Paths \cup {Root}], NEW ps, ideal' = Exposed(ps)
    PROVE  FilesInv'
<1>1. FilesTypeOK /\ Core /\ ListingExact
  BY DEF FilesInv
<1>2. /\ ideal' \in [Paths -> Nodes \cup {Unknown}]
      /\ \A p \in Paths : ideal'[p] = IF p \in ps THEN Unknown ELSE ideal[p]
  BY <1>1, ExposedIs
<1>3. ScalarsOK'
  BY <1>1 DEF FilesTypeOK, ScalarsOK
<1>4. TreesOK'
  BY <1>1, <1>2 DEF FilesTypeOK, TreesOK
<1>5. TablesOK'
  BY <1>1, TypeParts DEF TablesOK, InRange, IsFile
<1>6. ListingExact'
  BY <1>1 DEF ListingExact, IsFile
<1>7. ASSUME NEW p \in Paths PROVE PathOK(p)'
  <2>1. PathOK(p)
    BY <1>1, TypeParts, CoreByPath
  <2> QED BY Zenon, <1>2, <2>1 DEF PathOK, Known, IsWriter, IsDirty, IsFile
<1>8. Shape(tree')
  BY <1>1 DEF Core
<1>9. Core'
  BY <1>3, <1>5, <1>7, <1>8, CoreByPathNext
<1> QED BY <1>3, <1>4, <1>5, <1>6, <1>9, TypePartsNext DEF FilesInv

\* Installing a descriptor keeps the invariant, whether there is room for it or not.
LEMMA InstallKeeps ==
    ASSUME FilesInv, NEW q \in live, ~ stuck, NEW e \in Fds, InRange(e), ListingOK(e), Install(q, e),
           UNCHANGED <<live, cwd, stuck, tree, writes, faults>>, calls' \in 0 .. MaxCalls,
           NEW ps, ideal' = Exposed(ps),
           IsWriter(e) /\ e.name \notin ps /\ Known(e.name) => ideal[e.name] = File(e.data)
    PROVE  FilesInv'
<1>1. FilesTypeOK /\ q \in Procs
  BY DEF FilesInv, FilesTypeOK
<1>2. fds \in [Procs -> [FdNums -> Fds]]
  BY Zenon, <1>1, FdsType
<1>3. CASE fds' = fds
  <2>1. cwd' \in [Procs -> Paths \cup {Root}]
    BY <1>1 DEF FilesTypeOK
  <2> QED BY Zenon, <1>3, <2>1, IdleKeeps
<1>4. CASE \E f \in FdNums : fds[q][f] = NoFd /\ fds' = [fds EXCEPT ![q][f] = e]
  <2>1. PICK f \in FdNums : fds[q][f] = NoFd /\ fds' = [fds EXCEPT ![q][f] = e]
    BY Zenon, <1>4
  <2>2. Puts(q, f, e)
    BY <2>1 DEF Puts
  <2>3. ~ IsDirty(fds[q][f])
    BY <2>1 DEF IsDirty, IsFile, NoFd
  <2> QED BY Zenon, <2>2, <2>3, SlotKeeps
<1>5. fds' = [fds EXCEPT ![q] = alloc_fd(@, e)]
  BY DEF Install
<1>6. Allocated(fds, q, e)
  BY Zenon, <1>1, <1>2, Allocates
<1>7. fds' = fds \/ \E f \in FdNums : fds[q][f] = NoFd /\ fds' = [fds EXCEPT ![q][f] = e]
  BY Zenon, <1>5, <1>6 DEF Allocated
<1> QED BY <1>3, <1>4, <1>7

\* A descriptor that open makes of a file.
Opened(e, p, data, w) ==
    e \in Fds /\ InRange(e) /\ ListingOK(e) /\ e.name = p /\ e.data = data /\ (IsWriter(e) => w)

\* Wherever in the file it starts.
LEMMA OpenedIs ==
    ASSUME NEW p \in Paths, NEW data \in Data, NEW offset \in 0 .. Len(data), NEW w \in BOOLEAN
    PROVE  Opened(OpenFile(p, data, offset, w, FALSE), p, data, w)
<1> DEFINE e == OpenFile(p, data, offset, w, FALSE)
<1>1. Len(data) \in Nat /\ offset \in Nat /\ offset <= Len(data) /\ Len(data) <= MaxLen
  BY DEF Data
<1>2. e \in Copies
  BY <1>1 DEF OpenFile, Copies
<1>3. e.name = p /\ e.data = data /\ e.offset = offset /\ (IsWriter(e) => w) /\ ~ e.is_dir
  BY DEF OpenFile, IsWriter
<1> HIDE DEF e
<1>4. e \in Fds
  BY <1>2 DEF Fds
<1>5. Max({MaxLen, Len(e.data)}) = MaxLen
  BY <1>2, CopyIs
<1>6. InRange(e)
  BY <1>1, <1>3, <1>5, Bounds DEF InRange
<1>7. ListingOK(e)
  BY <1>3 DEF ListingOK
<1> QED BY Zenon, <1>3, <1>4, <1>6, <1>7 DEF e, Opened

\* The root is not a file and is always there.
LEMMA LookupIs ==
    ASSUME NEW p \in Paths \cup {Root}, Lookup(p) # Directory
    PROVE  p \in Paths /\ Lookup(p) = tree[p]
BY DEF Lookup

\* A file without unwritten changes is what the rules say.
LEMMA SettledIs ==
    ASSUME FilesInv, NEW p \in Paths, Known(p), ~ \E w \in Writers(p) : fds[w[1]][w[2]].dirty
    PROVE  ideal[p] = tree[p]
<1>1. FilesTypeOK /\ Core
  BY DEF FilesInv
<1>2. ASSUME NEW q \in live, NEW f \in FdNums, IsDirty(fds[q][f]), fds[q][f].name = p PROVE FALSE
  <2>1. <<q, f>> \in Procs \X FdNums
    BY <1>1 DEF FilesTypeOK
  <2>2. <<q, f>>[1] = q /\ <<q, f>>[2] = f
    OBVIOUS
  <2>3. <<q, f>> \in Writers(p)
    BY Zenon, <1>2, <2>1, <2>2 DEF Writers, Holds, IsDirty
  <2>4. fds[<<q, f>>[1]][<<q, f>>[2]].dirty
    BY Zenon, <1>2, <2>2 DEF IsDirty
  <2> QED BY Zenon, <2>3, <2>4
<1>3. UnwrittenHeld
  BY <1>1 DEF Core
<1> QED BY <1>2, <1>3 DEF UnwrittenHeld

\* Opening a file that is there keeps the invariant.
LEMMA OpenCopyKeeps ==
    ASSUME FilesInv, NEW q \in live, ~ stuck, NEW p \in Paths \cup {Root}, NEW flags \in OpenFlags,
           OpenCopy(q, p, flags), UNCHANGED <<live, cwd, stuck, writes>>, calls' \in 0 .. MaxCalls
    PROVE  FilesInv'
<1> DEFINE data == Lookup(p).data
           off == IF flags.append THEN Len(data) ELSE 0
           e == OpenFile(p, data, off, flags.writable, FALSE)
           held == \E w \in Writers(p) : fds[w[1]][w[2]].dirty
           ps == IF flags.writable /\ held THEN {p} ELSE {}
<1>1. Lookup(p).kind = "file" /\ Install(q, e) /\ ideal' = Exposed(ps) /\ UNCHANGED <<tree, faults>>
  BY Zenon DEF OpenCopy
<1>2. p \in Paths /\ Lookup(p) = tree[p]
  BY SMTT(20), <1>1, LookupIs DEF Directory
<1>3. tree[p] \in Nodes
  BY <1>2 DEF FilesInv, FilesTypeOK
<1>4. data \in Data /\ tree[p] = File(data)
  BY Zenon, <1>1, <1>2, <1>3, NodesDiffer
<1>5. off \in 0 .. Len(data) /\ flags.writable \in BOOLEAN
  BY <1>4 DEF OpenFlags, Data
<1> HIDE DEF data, off
<1>6. e \in Fds /\ InRange(e) /\ ListingOK(e) /\ e.name = p /\ e.data = data /\ (IsWriter(e) => flags.writable)
  <2>1. Opened(e, p, data, flags.writable)
    BY Zenon, <1>2, <1>4, <1>5, OpenedIs
  <2> HIDE DEF e
  <2> QED BY <2>1 DEF Opened
<1> HIDE DEF e, held
<1>7. IsWriter(e) /\ e.name \notin ps /\ Known(e.name) => ideal[e.name] = File(e.data)
  <2> SUFFICES ASSUME IsWriter(e), e.name \notin ps, Known(p) PROVE ideal[p] = tree[p]
    BY Zenon, <1>4, <1>6
  <2>1. ~ held
    BY <1>6
  <2> QED BY Zenon, <1>2, <2>1, SettledIs DEF held
<1> HIDE DEF ps
<1> QED BY Zenon, <1>1, <1>6, <1>7, InstallKeeps

\* Opening a directory keeps the invariant: nothing was given out of its listing.
LEMMA OpenDirectoryKeeps ==
    ASSUME FilesInv, NEW q \in live, ~ stuck, NEW p \in Paths \cup {Root}, NEW flags \in OpenFlags,
           OpenDirectory(q, p, flags), UNCHANGED <<live, cwd, stuck, writes>>, calls' \in 0 .. MaxCalls
    PROVE  FilesInv'
<1> DEFINE data == serialize_dirents(Entries(p))
           e == OpenFile(p, data, 0, FALSE, TRUE)
<1>1. Install(q, e) /\ UNCHANGED <<tree, faults, ideal>>
  BY Zenon DEF OpenDirectory
<1>2. data \in Seq(EntryNames)
  BY EntriesAre, CellsAre
<1> HIDE DEF data
<1>3. Len(data) \in Nat
  BY <1>2
<1>4. <<>> \in Seq(EntryNames)
  OBVIOUS
<1>5. e \in Listings
  BY <1>2, <1>4 DEF OpenFile, Listings
<1>6. e.data = data /\ e.offset = 0 /\ e.given = <<>>
  BY DEF OpenFile
<1> HIDE DEF e
<1>7. e \in Fds /\ ~ IsWriter(e)
  BY <1>5, FdKinds DEF Fds, IsWriter
<1>8. InRange(e)
  <2>1. MaxLen \in Int /\ Len(data) \in Int /\ MaxLen \in Nat
    BY <1>3, Bounds
  <2>2. Max({MaxLen, Len(data)}) = IF MaxLen >= Len(data) THEN MaxLen ELSE Len(data)
    BY Zenon, <2>1, MaxOfTwo
  <2> QED BY <1>3, <1>6, <2>1, <2>2 DEF InRange
<1>9. ListingOK(e)
  <2>1. Len(e.given) = 0 /\ e.given = [i \in 1 .. 0 |-> e.data[RECLEN * i]]
    BY <1>6
  <2> QED BY <1>6, <2>1 DEF ListingOK, RECLEN
<1>10. ideal' = Exposed({})
  BY Zenon, <1>1, ExposedIs DEF FilesInv
<1> QED BY Zenon, <1>1, <1>7, <1>8, <1>9, <1>10, InstallKeeps

\* What an attempt to write a file back may have done.
LEMMA WriteFileIs ==
    ASSUME FilesInv, NEW p \in Paths, NEW data \in Data, NEW r \in write_file(tree, p, data)
    PROVE  /\ r.tree \in [Paths -> Nodes] /\ Shape(r.tree)
           /\ faults + r.fault \in 0 .. MaxFaults
           /\ r.tree = tree \/ r.tree = WithFile(tree, p, data)
           /\ r.ok => r.tree = WithFile(tree, p, data) /\ r.fault = 0
           /\ ~ r.ok /\ r.fault # 1 => r.tree = tree /\ r.fault = 0
<1> DEFINE u == WithFile(tree, p, data)
<1>1. tree \in [Paths -> Nodes] /\ Shape(tree) /\ faults \in 0 .. MaxFaults
  BY DEF FilesInv, FilesTypeOK, Core
<1>2. CASE ParentExists(tree, p)
  <2>1. u \in [Paths -> Nodes] /\ Shape(u)
    BY <1>1, <1>2, WriteKeepsShape
  <2> HIDE DEF u
  <2>2. r \in Outcomes(tree, u)
    BY <1>2 DEF write_file, u
  <2>3. \/ r.tree = u /\ r.ok = TRUE /\ r.fault = 0
        \/ r.tree \in {tree, u} /\ r.ok = FALSE /\ r.fault = 1 /\ faults < MaxFaults
    BY <2>2 DEF Outcomes
  <2>4. faults + r.fault \in 0 .. MaxFaults
    BY <1>1, <2>3, Bounds
  <2> QED BY Zenon, <1>1, <2>1, <2>3, <2>4 DEF u
<1>3. CASE ~ ParentExists(tree, p)
  <2>1. r.tree = tree /\ r.ok = FALSE /\ r.fault = 0
    BY <1>3 DEF write_file
  <2> QED BY <1>1, <2>1, Bounds
<1> QED BY Zenon, <1>2, <1>3

\* At most a free slot was filled with e.
Gained(e) == \A r \in live, g \in FdNums :
                fds'[r][g] = fds[r][g] \/ (fds[r][g] = NoFd /\ fds'[r][g] = e)

\* That is what Install does.
LEMMA InstallIs ==
    ASSUME FilesInv, NEW q \in live, ~ stuck, NEW e \in Fds, InRange(e), ListingOK(e), Install(q, e),
           UNCHANGED <<live, stuck>>
    PROVE  TablesOK' /\ ListingExact' /\ Gained(e)
<1>1. FilesTypeOK /\ ListingExact /\ q \in Procs /\ live \subseteq Procs
  BY DEF FilesInv, FilesTypeOK
<1>2. fds \in [Procs -> [FdNums -> Fds]]
  BY <1>1, FdsType
<1>3. Allocated(fds, q, e)
  BY <1>1, <1>2, Allocates
<1>4. fds' = fds \/ \E f \in FdNums : fds[q][f] = NoFd /\ fds' = [fds EXCEPT ![q][f] = e]
  BY Zenon, <1>3 DEF Install, Allocated
<1>5. CASE fds' = fds
  <2>1. TablesOK'
    BY <1>1, <1>5, TypeParts DEF TablesOK, InRange, IsFile
  <2>2. ListingExact'
    BY <1>1, <1>5, ListingStays
  <2> QED BY <1>5, <2>1, <2>2 DEF Gained
<1>6. CASE \E f \in FdNums : fds[q][f] = NoFd /\ fds' = [fds EXCEPT ![q][f] = e]
  <2>1. PICK f \in FdNums : fds[q][f] = NoFd /\ fds' = [fds EXCEPT ![q][f] = e]
    BY Zenon, <1>6
  <2>2. Puts(q, f, e)
    BY <2>1 DEF Puts
  <2>3. TablesOK' /\ ListingExact'
    BY <1>1, <2>2, SlotTypes
  <2>4. \A r \in Procs, g \in FdNums : fds'[r][g] = IF r = q /\ g = f THEN e ELSE fds[r][g]
    BY <1>1, <2>2, PutIs
  <2>5. Gained(e)
    BY <1>1, <2>1, <2>4 DEF Gained
  <2> QED BY <2>3, <2>5
<1> QED BY <1>4, <1>5, <1>6

\* No descriptor of x came, went or changed.
Elsewhere(x) ==
    \A r \in live, g \in FdNums :
        \/ fds'[r][g] = fds[r][g]
        \/ /\ ~ (IsFile(fds[r][g]) /\ fds[r][g].name = x)
           /\ ~ (IsFile(fds'[r][g]) /\ fds'[r][g].name = x)

\* Then nothing changes for x unless the call is about it.
LEMMA OtherPath ==
    ASSUME NEW x \in Paths, PathOK(x), Elsewhere(x), live' = live, ideal'[x] = ideal[x], tree'[x] = tree[x]
    PROVE  PathOK(x)'
<1> SUFFICES ASSUME ideal[x] # Unknown PROVE PathOK(x)'
  BY Zenon DEF PathOK, Known
<1>1. ASSUME NEW q \in live, NEW f \in FdNums, IsWriter(fds'[q][f]), fds'[q][f].name = x
      PROVE  ideal[x] = File(fds'[q][f].data)
  <2>1. fds'[q][f] = fds[q][f]
    BY Zenon, <1>1 DEF Elsewhere, IsWriter
  <2> QED BY Zenon, <1>1, <2>1 DEF PathOK, Known
<1>2. ideal[x] = tree[x] \/ \E q \in live, f \in FdNums : IsDirty(fds'[q][f]) /\ fds'[q][f].name = x
  <2> SUFFICES ASSUME ideal[x] # tree[x]
               PROVE  \E q \in live, f \in FdNums : IsDirty(fds'[q][f]) /\ fds'[q][f].name = x
    OBVIOUS
  <2>1. PICK q \in live, f \in FdNums : IsDirty(fds[q][f]) /\ fds[q][f].name = x
    BY Zenon DEF PathOK, Known
  <2>2. fds'[q][f] = fds[q][f]
    BY Zenon, <2>1 DEF Elsewhere, IsDirty
  <2> QED BY Zenon, <2>1, <2>2
<1>3. ideal[x].kind = tree[x].kind
  BY Zenon DEF PathOK, Known
<1> QED BY Zenon, <1>1, <1>2, <1>3 DEF PathOK, Known, IsWriter, IsDirty, IsFile

\* The invariant of the next state from its parts.
LEMMA ByParts ==
    ASSUME ScalarsOK', TablesOK', tree' \in [Paths -> Nodes], ideal' \in [Paths -> Nodes \cup {Unknown}],
           Shape(tree'), \A p \in Paths : PathOK(p)', ListingExact'
    PROVE  FilesInv'
<1>1. TreesOK'
  BY DEF TreesOK
<1>2. Core'
  BY CoreByPathNext
<1> QED BY <1>1, <1>2, TypePartsNext DEF FilesInv

\* Emptying or creating a file keeps the invariant: when that works, and nobody else
\* writes to the file, the disk and the descriptor hold the same empty file.
LEMMA OpenEmptiedKeeps ==
    ASSUME FilesInv, NEW q \in live, ~ stuck, NEW p \in Paths \cup {Root}, NEW flags \in OpenFlags,
           OpenEmptied(q, p, flags), UNCHANGED <<live, cwd, stuck, writes>>, calls' \in 0 .. MaxCalls
    PROVE  FilesInv'
<1> DEFINE e == OpenFile(p, <<>>, 0, flags.writable, FALSE)
           full == FreeFds(fds[q]) = {}
           fresh == [ideal EXCEPT ![p] = File(<<>>)]
<1>1. FilesTypeOK /\ Core /\ ListingExact /\ live \subseteq Procs
  BY Zenon DEF FilesInv, FilesTypeOK
<1>2. Lookup(p) # Directory
  BY DEF OpenEmptied, Directory, Nothing
<1>3. p \in Paths /\ tree[p] # Directory
  BY <1>2, LookupIs
<1>4. PICK r \in write_file(tree, p, <<>>) :
          /\ tree' = r.tree /\ faults' = faults + r.fault
          /\ IF r.ok THEN Install(q, e) ELSE UNCHANGED fds
          /\ ideal' = IF r.fault = 1 \/ (r.ok /\ full) \/ Writers(p) # {} THEN Exposed({p})
                      ELSE IF r.ok THEN fresh ELSE ideal
  BY Zenon DEF OpenEmptied
<1>5. <<>> \in Data
  BY Zenon, NodesDiffer
<1>6. /\ tree' \in [Paths -> Nodes] /\ Shape(tree')
      /\ faults' \in 0 .. MaxFaults
      /\ tree' = tree \/ tree' = WithFile(tree, p, <<>>)
      /\ r.ok => tree' = WithFile(tree, p, <<>>) /\ r.fault = 0
      /\ ~ r.ok /\ r.fault # 1 => tree' = tree /\ r.fault = 0
  BY Zenon, <1>3, <1>4, <1>5, WriteFileIs
<1>7. ASSUME NEW x \in Paths PROVE WithFile(tree, p, <<>>)[x] = IF x = p THEN File(<<>>) ELSE tree[x]
  <2>1. Shape(tree)
    BY <1>1 DEF Core
  <2> QED BY <1>3, <2>1, WriteChangesOne
<1>8. e \in Fds /\ InRange(e) /\ ListingOK(e) /\ e.name = p /\ e.data = <<>>
  <2>1. 0 \in 0 .. Len(<<>>) /\ flags.writable \in BOOLEAN
    BY DEF OpenFlags
  <2>2. Opened(e, p, <<>>, flags.writable)
    BY Zenon, <1>3, <1>5, <2>1, OpenedIs
  <2> HIDE DEF e
  <2> QED BY Zenon, <2>2 DEF Opened
<1> HIDE DEF e, full
<1>9. TablesOK' /\ ListingExact' /\ Gained(e)
  <2>1. CASE r.ok
    BY Zenon, <1>4, <1>8, <2>1, InstallIs
  <2>2. CASE ~ r.ok
    <3>1. fds' = fds
      BY <1>4, <2>2
    <3>2. TablesOK'
      BY <1>1, <3>1, TypeParts DEF TablesOK, InRange, IsFile
    <3>3. ListingExact'
      BY <1>1, <3>1, ListingStays
    <3> QED BY <3>1, <3>2, <3>3 DEF Gained
  <2> QED BY <2>1, <2>2
<1>10. ScalarsOK'
  BY <1>1, <1>6 DEF FilesTypeOK, ScalarsOK
<1>11. ideal \in [Paths -> Nodes \cup {Unknown}] /\ File(<<>>) \in Nodes
  BY <1>1, <1>5, NodesDiffer DEF FilesTypeOK
<1>12. /\ fresh \in [Paths -> Nodes \cup {Unknown}]
       /\ \A x \in Paths : fresh[x] = IF x = p THEN File(<<>>) ELSE ideal[x]
  BY Zenon, <1>11
<1> HIDE DEF fresh
<1>13. ideal' \in [Paths -> Nodes \cup {Unknown}] /\ \A x \in Paths : x # p => ideal'[x] = ideal[x]
  BY <1>1, <1>4, <1>11, <1>12, ExposedIs
<1>14. \A x \in Paths : PathOK(x)
  BY <1>1, TypeParts, CoreByPath
<1>15. ASSUME NEW x \in Paths, x # p PROVE PathOK(x)'
  <2>1. ideal'[x] = ideal[x] /\ tree'[x] = tree[x]
    BY Zenon, <1>6, <1>7, <1>13, <1>15
  <2>2. Elsewhere(x)
    <3>1. ~ IsFile(NoFd)
      BY DEF IsFile, NoFd
    <3>2. \A r1 \in live, g \in FdNums :
             fds'[r1][g] = fds[r1][g] \/ (fds[r1][g] = NoFd /\ fds'[r1][g] = e)
      BY Zenon, <1>9 DEF Gained
    <3>3. e.name # x
      BY Zenon, <1>8, <1>15
    <3> QED BY Zenon, <3>1, <3>2, <3>3 DEF Elsewhere
  <2> QED BY <1>14, <2>1, <2>2, OtherPath
<1>16. PathOK(p)'
  <2>1. CASE ideal' = Exposed({p})
    <3>1. ideal'[p] = Unknown
      BY <1>1, <1>3, <2>1, ExposedIs
    <3> QED BY Zenon, <3>1 DEF PathOK, Known
  <2>2. CASE ideal' = fresh /\ r.ok /\ Writers(p) = {}
    <3>1. ideal'[p] = File(<<>>) /\ tree'[p] = File(<<>>)
      BY Zenon, <1>3, <1>6, <1>7, <1>12, <2>2
    <3>2. ASSUME NEW s \in live, NEW g \in FdNums, IsWriter(fds'[s][g]), fds'[s][g].name = p
          PROVE  fds'[s][g].data = <<>>
      <4>1. CASE fds'[s][g] = fds[s][g]
        <5>1. <<s, g>> \in Procs \X FdNums
          BY <1>1
        <5>2. <<s, g>>[1] = s /\ <<s, g>>[2] = g
          OBVIOUS
        <5>3. <<s, g>> \in Writers(p)
          BY Zenon, <3>2, <4>1, <5>1, <5>2 DEF Writers, Holds, IsWriter
        <5> QED BY Zenon, <2>2, <5>3
      <4>2. CASE fds'[s][g] = e
        BY Zenon, <1>8, <4>2
      <4> QED BY <1>9, <4>1, <4>2 DEF Gained
    <3> QED BY Zenon, <3>1, <3>2 DEF PathOK, Known, IsWriter, IsFile
  <2>3. CASE ideal' = ideal /\ ~ r.ok /\ r.fault # 1
    <3>1. fds' = fds /\ tree' = tree
      BY Zenon, <1>4, <1>6, <2>3
    <3>2. Elsewhere(p)
      BY <3>1 DEF Elsewhere
    <3> QED BY Zenon, <1>3, <1>14, <2>3, <3>1, <3>2, OtherPath
  <2> QED BY <1>4, <2>1, <2>2, <2>3
<1>17. \A x \in Paths : PathOK(x)'
  BY <1>15, <1>16
<1> QED BY Zenon, <1>6, <1>9, <1>10, <1>13, <1>17, ByParts

\* sys_open keeps the invariant.
LEMMA OpenKeeps ==
    ASSUME FilesInv, NEW q \in live, NEW up, NEW flags \in OpenFlags, calls' \in 0 .. MaxCalls, sys_open(q, up, flags)
    PROVE  FilesInv'
<1> DEFINE p == resolve_path(q, up)
<1>1. /\ ~ stuck /\ p \in Paths \cup {Root} /\ UNCHANGED <<live, cwd, stuck, writes>>
      /\ OpenCopy(q, p, flags) \/ OpenDirectory(q, p, flags) \/ OpenEmptied(q, p, flags)
  BY DEF sys_open, Running
<1> HIDE DEF p
<1>2. CASE OpenCopy(q, p, flags)
  BY <1>1, <1>2, OpenCopyKeeps
<1>3. CASE OpenDirectory(q, p, flags)
  BY <1>1, <1>3, OpenDirectoryKeeps
<1>4. CASE OpenEmptied(q, p, flags)
  BY <1>1, <1>4, OpenEmptiedKeeps
<1> QED BY <1>1, <1>2, <1>3, <1>4

-----------------------------------------------------------------------------
(***************************************************************************)
(* write and writev.                                                          *)
(***************************************************************************)
\* New chunks within the bounds leave data within the bounds.
LEMMA OverlaidInData ==
    ASSUME NEW D \in Data, NEW o \in Nat, NEW w \in Nat, NEW n \in Nat, o + n <= MaxLen, w + n <= MaxWrites
    PROVE  Overlaid(D, o, ChunksFrom(w, n)) \in Data
<1> DEFINE b == ChunksFrom(w, n)
           v == Overlaid(D, o, b)
<1>1. D \in Seq(0 .. MaxWrites) /\ Len(D) \in Nat /\ Len(D) <= MaxLen /\ MaxWrites \in Nat
  BY Bounds DEF Data
<1>2. D \in Seq(Nat)
  <2>1. \A i \in 1 .. Len(D) : D[i] \in Nat
    BY <1>1
  <2> QED BY <1>1, <2>1
<1>3. b \in Seq(Nat) /\ Len(b) = n /\ \A i \in 1 .. n : b[i] = w + i
  BY Zenon, ChunksAre
<1> HIDE DEF b
<1>4. IsOverlaid(v, D, o, b)
  BY Zenon, <1>2, <1>3, OverlaidIs
<1> HIDE DEF v
<1>5. /\ v \in Seq(Nat) /\ Len(v) = IF Len(D) >= o + n THEN Len(D) ELSE o + n
      /\ \A i \in 1 .. Len(v) : v[i] = IF i \in o + 1 .. o + n THEN b[i - o] ELSE IF i <= Len(D) THEN D[i] ELSE 0
  BY <1>3, <1>4 DEF IsOverlaid
<1>6. Len(v) \in Nat /\ Len(v) <= MaxLen
  BY <1>1, <1>5, Bounds
<1>7. ASSUME NEW i \in 1 .. Len(v) PROVE v[i] \in 0 .. MaxWrites
  <2>1. CASE i \in o + 1 .. o + n
    <3>1. i - o \in 1 .. n
      BY <1>6, <2>1
    <3>2. v[i] = w + (i - o)
      BY <1>3, <1>5, <2>1, <3>1
    <3> QED BY <1>1, <3>1, <3>2
  <2>2. CASE i \notin o + 1 .. o + n /\ i <= Len(D)
    <3>1. i \in 1 .. Len(D) /\ v[i] = D[i]
      BY <1>1, <1>5, <1>6, <2>2
    <3> QED BY <1>1, <3>1
  <2>3. CASE i \notin o + 1 .. o + n /\ ~ (i <= Len(D))
    <3>1. v[i] = 0
      BY <1>5, <2>3
    <3> QED BY <1>1, <3>1
  <2> QED BY <2>1, <2>2, <2>3
<1>8. v \in Seq(0 .. MaxWrites)
  <2>1. v = [i \in 1 .. Len(v) |-> v[i]]
    BY <1>5
  <2>2. v \in [1 .. Len(v) -> 0 .. MaxWrites]
    BY <1>7, <2>1
  <2> QED BY Zenon, <1>6, <2>2, FunIsSeq
<1> QED BY <1>6, <1>8 DEF Data, v, b

\* The copy d after n chunks were written at its position.
Wrote(e, d, n) ==
    /\ e \in Drafts /\ e.data = Overlaid(d.data, d.offset, ChunksFrom(writes, n))
    /\ e.offset = d.offset + n /\ e.name = d.name /\ e.writable = d.writable /\ e.dirty = TRUE

\* Writing keeps the invariant: the only writer of a file that keeps the rules holds
\* what the ideal file gets, and every other write breaks them.
LEMMA WroteKeeps ==
    ASSUME FilesInv, NEW q \in live, NEW f \in FdNums, NEW n \in Nat, NEW e,
           CanWrite(q, f), Within(q, f, n), Wrote(e, fds[q][f], n), Puts(q, f, e), Record(q, f, n),
           UNCHANGED <<tree, cwd, faults>>, calls' \in 0 .. MaxCalls
    PROVE  FilesInv'
<1> DEFINE d == fds[q][f]
<1>1. FilesTypeOK /\ Core /\ ListingExact /\ live \subseteq Procs /\ writes \in 0 .. MaxWrites
  BY DEF FilesInv, FilesTypeOK
<1>2. d \in Copies /\ d.writable
  BY <1>1, CopyAt DEF CanWrite
<1>3. d.data \in Data /\ d.offset \in Nat /\ d.name \in Paths
  BY Zenon, <1>2 DEF Copies
<1> PICK p \in Paths : p = d.name
  BY Zenon, <1>3
<1>4. d.offset + n <= MaxLen /\ writes + n <= MaxWrites /\ writes \in Nat
  <2>1. MaxWrites \in Nat
    BY Bounds
  <2>2. writes \in Nat
    BY <1>1, <2>1
  <2> QED BY <2>2 DEF Within
<1>5. e \in Copies /\ e.data \in Data
  <2>1. Overlaid(d.data, d.offset, ChunksFrom(writes, n)) \in Data
    BY Zenon, <1>3, <1>4, OverlaidInData
  <2> QED BY Zenon, <2>1, DraftIs DEF Wrote
<1>6. /\ e.data = Overlaid(d.data, d.offset, ChunksFrom(writes, n)) /\ e.offset = d.offset + n
      /\ e.name = p /\ e.writable /\ e.dirty
  BY Zenon, <1>2 DEF Wrote
<1>7. e \in Fds /\ IsFile(e) /\ ~ e.is_dir
  BY Zenon, <1>5, FdKinds DEF Fds
<1>8. IsWriter(e) /\ IsDirty(e) /\ ListingOK(e)
  BY Zenon, <1>6, <1>7 DEF IsWriter, IsDirty, ListingOK
<1>9. InRange(e)
  BY Zenon, <1>4, <1>5, <1>6, CopyIs DEF InRange
<1>10. TablesOK' /\ ListingExact'
  BY <1>1, <1>7, <1>8, <1>9, SlotTypes
<1>11. live' = live /\ stuck' = stuck
  BY DEF Puts
<1>12. ScalarsOK'
  <2>1. writes' \in 0 .. MaxWrites
    BY <1>4, Bounds DEF Record
  <2> QED BY <1>1, <1>11, <2>1 DEF FilesTypeOK, ScalarsOK
<1>13. \A r \in Procs, g \in FdNums : fds'[r][g] = IF r = q /\ g = f THEN e ELSE fds[r][g]
  BY <1>1, <1>7, PutIs
<1>14. \A x \in Paths : PathOK(x)
  BY <1>1, TypeParts, CoreByPath
<1>15. ideal \in [Paths -> Nodes \cup {Unknown}] /\ tree' \in [Paths -> Nodes] /\ Shape(tree')
  BY Zenon, <1>1 DEF FilesTypeOK, Core
<1>16. \A x \in Paths : x # p => Elsewhere(x)
  BY Zenon, <1>1, <1>6, <1>13 DEF Elsewhere
<1> HIDE DEF d
<1>17. CASE ideal[p].kind = "file" /\ Writers(p) = {<<q, f>>}
  <2>1. Known(p)
    <3>1. Unknown.kind # "file"
      BY DEF Unknown
    <3> QED BY Zenon, <1>17, <3>1 DEF Known
  <2>2. ideal[p] = File(d.data) /\ ideal[p].kind = tree[p].kind
    BY Zenon, <1>1, <1>2, <1>3, <2>1, FdKinds DEF Core, CopiesMatch, KindsMatch, IsWriter, Fds, d
  <2>3. ideal' = [ideal EXCEPT ![p].data = Overlaid(@, d.offset, ChunksFrom(writes, n))]
    BY <1>17 DEF Record, NewChunks, ChunksFrom, d
  <2>4. ideal' = [ideal EXCEPT ![p] = File(e.data)]
    <3>1. [ideal[p] EXCEPT !.data = Overlaid(@, d.offset, ChunksFrom(writes, n))] = File(e.data)
      BY <1>6, <2>2 DEF File
    <3> QED BY Zenon, <2>3, <3>1
  <2>5. File(e.data) \in Nodes
    BY Zenon, <1>5, NodesDiffer
  <2>6. /\ ideal' \in [Paths -> Nodes \cup {Unknown}]
        /\ \A x \in Paths : ideal'[x] = IF x = p THEN File(e.data) ELSE ideal[x]
    BY <1>3, <1>15, <2>4, <2>5
  <2>7. PathOK(p)'
    <3>1. ASSUME NEW r \in live, NEW g \in FdNums, IsWriter(fds'[r][g]), fds'[r][g].name = p
          PROVE  fds'[r][g] = e
      <4> SUFFICES ASSUME ~ (r = q /\ g = f) PROVE FALSE
        BY Zenon, <1>1, <1>13
      <4>1. fds'[r][g] = fds[r][g]
        BY Zenon, <1>1, <1>13
      <4>2. <<r, g>> \in Procs \X FdNums /\ <<r, g>>[1] = r /\ <<r, g>>[2] = g
        BY Zenon, <1>1
      <4>3. <<r, g>> \in Writers(p)
        BY Zenon, <3>1, <4>1, <4>2 DEF Writers, Holds, IsWriter
      <4> QED BY Zenon, <1>17, <4>3
    <3>2. ideal'[p] = File(e.data) /\ ideal'[p].kind = tree'[p].kind
      <4>1. ideal'[p] = File(e.data) /\ tree'[p] = tree[p]
        BY Zenon, <2>6
      <4>2. File(e.data).kind = "file"
        BY Zenon, NodesDiffer
      <4> QED BY Zenon, <1>17, <2>2, <4>1, <4>2
    <3>3. fds'[q][f] = e
      BY Zenon, <1>1, <1>13
    <3>4. \A r \in live', g \in FdNums : IsWriter(fds'[r][g]) /\ fds'[r][g].name = p => ideal'[p] = File(fds'[r][g].data)
      BY Zenon, <1>11, <3>1, <3>2
    <3>5. \E r \in live', g \in FdNums : IsDirty(fds'[r][g]) /\ fds'[r][g].name = p
      BY Zenon, <1>6, <1>8, <1>11, <3>3
    <3> QED BY Zenon, <3>2, <3>4, <3>5 DEF PathOK, Known, IsWriter, IsDirty, IsFile
  <2>8. ASSUME NEW x \in Paths, x # p PROVE PathOK(x)'
    BY Zenon, <1>11, <1>14, <1>16, <2>6, <2>8, OtherPath
  <2>9. \A x \in Paths : PathOK(x)'
    BY <2>7, <2>8
  <2> QED BY <1>10, <1>12, <1>15, <2>6, <2>9, ByParts
<1>18. CASE ~ (ideal[p].kind = "file" /\ Writers(p) = {<<q, f>>})
  <2>1. ideal' = Exposed({p})
    BY Zenon, <1>18 DEF Record, d
  <2>2. /\ ideal' \in [Paths -> Nodes \cup {Unknown}]
        /\ \A x \in Paths : ideal'[x] = IF x = p THEN Unknown ELSE ideal[x]
    BY Zenon, <1>1, <2>1, ExposedIs
  <2>3. PathOK(p)'
    BY Zenon, <2>2 DEF PathOK, Known
  <2>4. ASSUME NEW x \in Paths, x # p PROVE PathOK(x)'
    BY Zenon, <1>11, <1>14, <1>16, <2>2, <2>4, OtherPath
  <2>5. \A x \in Paths : PathOK(x)'
    BY <2>3, <2>4
  <2> QED BY Zenon, <1>10, <1>12, <1>15, <2>2, <2>5, ByParts
<1> QED BY Zenon, <1>17, <1>18

\* sys_write keeps the invariant.
LEMMA WriteKeeps ==
    ASSUME FilesInv, NEW q \in live, NEW f \in FdNums, NEW n \in Nat, calls' \in 0 .. MaxCalls, sys_write(q, f, n)
    PROVE  FilesInv'
<1> DEFINE d == fds[q][f]
           bytes == ChunksFrom(writes, n)
           e == WriteBuf(d, bytes)
<1>1. /\ CanWrite(q, f) /\ Within(q, f, n) /\ Record(q, f, n)
      /\ UNCHANGED <<tree, live, cwd, stuck, faults>> /\ fds' = [fds EXCEPT ![q][f] = e]
  BY DEF sys_write, NewChunks, ChunksFrom
<1>2. FilesTypeOK /\ writes \in Nat
  BY Bounds DEF FilesInv, FilesTypeOK
<1>3. d \in Drafts
  BY <1>1, <1>2, CopyAt, DraftIs DEF CanWrite
<1>4. bytes \in Seq(Nat) /\ Len(bytes) = n
  BY Zenon, <1>2, ChunksAre
<1> HIDE DEF bytes
<1>5. /\ e \in Drafts /\ e.data = Overlaid(d.data, d.offset, bytes)
      /\ e.offset = d.offset + Len(bytes) /\ e.name = d.name /\ e.writable = d.writable /\ e.dirty = TRUE
  BY Zenon, <1>3, <1>4, WriteBufIs
<1> HIDE DEF e
<1>6. Wrote(e, d, n)
  BY Zenon, <1>4, <1>5 DEF Wrote, bytes
<1>7. Puts(q, f, e)
  BY <1>1 DEF Puts, CanWrite, Running
<1> QED BY <1>1, <1>6, <1>7, WroteKeeps

\* sys_writev keeps the invariant.
LEMMA WritevKeeps ==
    ASSUME FilesInv, NEW q \in live, NEW f \in FdNums, NEW iov \in Seq(Int), calls' \in 0 .. MaxCalls, sys_writev(q, f, iov)
    PROVE  FilesInv'
<1> DEFINE d == fds[q][f]
           done == WriteEach(d, iov)
<1>1. /\ CanWrite(q, f) /\ done.n > 0 /\ Within(q, f, done.n) /\ Record(q, f, done.n)
      /\ UNCHANGED <<tree, live, cwd, stuck, faults>> /\ fds' = [fds EXCEPT ![q][f] = done.d]
  BY DEF sys_writev
<1>2. FilesTypeOK /\ writes \in Nat
  BY Bounds DEF FilesInv, FilesTypeOK
<1>3. d \in Drafts
  BY <1>1, <1>2, CopyAt, DraftIs DEF CanWrite
<1>4. done \in Written(d)
  BY <1>2, <1>3, WriteEachIs
<1> HIDE DEF done
<1>5. done.n \in Nat /\ Wrote(done.d, d, done.n)
  BY Zenon, <1>1, <1>4 DEF Written, Wrote
<1>6. Puts(q, f, done.d)
  BY <1>1 DEF Puts, CanWrite, Running
<1>7. PICK n \in Nat : n = done.n
  BY <1>5
<1>8. PICK e : e = done.d
  OBVIOUS
<1> QED BY <1>1, <1>5, <1>6, <1>7, <1>8, WroteKeeps
=============================================================================
