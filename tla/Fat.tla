--------------------------------- MODULE Fat ---------------------------------
(***************************************************************************)
(* The FAT32 driver (src/src/fs/fat.rs) as the sequence of sector writes its *)
(* operations make, on a disk whose requests may fail and whose power may go *)
(* between any two of them.                                                  *)
(*                                                                           *)
(* An operation runs inside one system call with interrupts off, so no other *)
(* operation runs beside it and everything it reads is what it has written   *)
(* or found.  Its writes are therefore known when it starts: the action of   *)
(* an operation puts them in todo, in the code's order, and Write carries    *)
(* out the first of them.  Each write carries the cluster whose chain the    *)
(* code frees when that write (or a read on the way to it) fails.            *)
(*                                                                           *)
(* Abstracted: a cluster is one sector; a directory is one cluster (the code *)
(* never extends one) and holds SLOTS entries besides "." and ".."; names    *)
(* are already in 8.3 form; a file's length is counted in clusters.          *)
(* Assumed of the device: a request that fails has written nothing, and      *)
(* writes reach the disk in the order the driver waits for them.             *)
(***************************************************************************)
EXTENDS Integers, Sequences, FiniteSets, SequencesExt

CONSTANTS
    NClusters,  \* cluster_count of the volume
    SLOTS,      \* entries of a directory
    NumFats,    \* copies of the FAT
    Paths,      \* the paths in use, closed under prefixes
    Contents,   \* what a file may hold: sequences of chunks, one per cluster
    MaxFaults   \* bound: failed requests and power cuts

ASSUME FatAssumption ==
    /\ NClusters \in Nat \ {0} /\ SLOTS \in Nat \ {0} /\ NumFats \in Nat \ {0}
    /\ MaxFaults \in Nat
    /\ \A p \in Paths : Len(p) > 0 /\ (Len(p) > 1 => Front(p) \in Paths)

VARIABLES
    disk,       \* fat: [1..NumFats -> [Clusters -> entry]], the copies of the FAT;
                \* cell: [Clusters -> what the cluster's sector holds]
    todo,       \* the writes the operation under way has still to make
    seen,       \* history: what lookup shows of every path
    faults,     \* requests failed and power cuts so far
    damage      \* history: "None", "Failed" (requests failed, each before its
                \* operation's commit) or "Lost" (anything worse)

vars == <<disk, todo, seen, faults, damage>>

FIRST_DATA_CLUSTER == 2
Clusters == FIRST_DATA_CLUSTER .. FIRST_DATA_CLUSTER + NClusters - 1
ROOT == FIRST_DATA_CLUSTER
EOC == FIRST_DATA_CLUSTER + NClusters + 6
Chunks == UNION {Range(data) : data \in Contents}
Names == {Last(p) : p \in Paths}

valid_cluster(c) == c \in Clusters

EndOfDirectory == [kind |-> "End", name |-> "", is_dir |-> FALSE, first |-> 0, size |-> 0]
Deleted == [EndOfDirectory EXCEPT !.kind = "Deleted"]
DirEntry(name, is_dir, first, size) ==
    [kind |-> "Used", name |-> name, is_dir |-> is_dir, first |-> first, size |-> size]

EmptyDirectory == [kind |-> "dir", slots |-> [i \in 1..SLOTS |-> EndOfDirectory]]
DataSector(chunk) == [kind |-> "data", chunk |-> chunk]

-----------------------------------------------------------------------------
(***************************************************************************)
(* Reading the disk.  Only the first copy of the FAT is ever read.           *)
(***************************************************************************)

next_cluster(d, c) == d.fat[1][c]

\* The clusters a walk from first visits, at most cluster_count of them.
ChainOf(d, first) ==
    LET walk[n \in 0..NClusters] ==
            IF n = 0 THEN <<>>
            ELSE LET path == walk[n - 1]
                     next == IF n = 1 THEN first
                             ELSE IF path = <<>> THEN 0 ELSE next_cluster(d, Last(path))
                 IN  IF valid_cluster(next) THEN Append(path, next) ELSE path
    IN  walk[NClusters]

\* The slots a scan of the directory sees: those before the end marker.
Scanned(d, dir) ==
    {i \in 1..SLOTS : \A j \in 1..i : d.cell[dir].slots[j].kind # "End"}

Listed(d, dir) == {i \in Scanned(d, dir) : d.cell[dir].slots[i].kind = "Used"}

\* locate_entry: the slot of the first entry with this name, 0 if there is none.
locate_entry(d, dir, name) ==
    LET found == {i \in Listed(d, dir) : d.cell[dir].slots[i].name = name}
    IN  IF found = {} THEN 0 ELSE Min(found)

\* The cluster of the directory with this path, 0 if some component is missing
\* or is a file.
DirectoryAt(d, path) ==
    LET walk[k \in 0..Len(path)] ==
            IF k = 0 THEN ROOT
            ELSE LET dir == walk[k - 1]
                     i == IF dir = 0 THEN 0 ELSE locate_entry(d, dir, path[k])
                 IN  IF i # 0 /\ d.cell[dir].slots[i].is_dir THEN d.cell[dir].slots[i].first ELSE 0
    IN  walk[Len(path)]

resolve_parent(d, p) == DirectoryAt(d, Front(p))

\* find_in_dir on a resolved path; EndOfDirectory stands for NotFound.
find_in_dir(d, p) ==
    LET dir == resolve_parent(d, p)
        i == IF dir = 0 THEN 0 ELSE locate_entry(d, dir, Last(p))
    IN  IF i = 0 THEN EndOfDirectory ELSE d.cell[dir].slots[i]

\* The bytes of a cluster as file data.
ChunkIn(d, c) == IF d.cell[c].kind = "data" THEN d.cell[c].chunk ELSE "entries"

\* The content of a file: size chunks along its chain, fewer if the chain ends.
read_entry(d, entry) ==
    LET chain == ChainOf(d, entry.first)
        upto == IF entry.size < Len(chain) THEN entry.size ELSE Len(chain)
    IN  [i \in 1..upto |-> ChunkIn(d, chain[i])]

\* What lookup and stat show of each path.
lookup(d, p) ==
    LET entry == find_in_dir(d, p)
    IN  IF entry.kind = "End" THEN [kind |-> "none", data |-> <<>>]
        ELSE IF entry.is_dir THEN [kind |-> "dir", data |-> <<>>]
        ELSE [kind |-> "file", data |-> read_entry(d, entry)]

View(d) == [p \in Paths |-> lookup(d, p)]

-----------------------------------------------------------------------------
(***************************************************************************)
(* The writes of the driver's steps.  undo is the cluster whose chain is     *)
(* freed when the write fails, 0 for none.                                   *)
(***************************************************************************)

\* One entry of the FAT, copy after copy.
write_fat_entry(c, value, undo) ==
    [k \in 1..NumFats |->
        [at |-> "fat", copy |-> k, cluster |-> c, value |-> value, undo |-> undo]]

write_sector(c, content, undo) ==
    [at |-> "cell", cluster |-> c, value |-> content, undo |-> undo]

write_dir_entry(dir, i, entry, undo) ==
    [at |-> "slot", cluster |-> dir, slot |-> i, value |-> entry, undo |-> undo]

clear_dir_entry(dir, i) == write_dir_entry(dir, i, Deleted, 0)

\* Mutant: alloc_cluster scans one cluster too far.
FreeClustersInclusive ==
    SetToSortSeq({c \in Clusters : next_cluster(disk, c) = 0} \cup {Max(Clusters) + 1}, <)

\* The free clusters in the order alloc_cluster hands them out.
FreeClusters == SetToSortSeq({c \in Clusters : next_cluster(disk, c) = 0}, <)

\* The first n free clusters, each marked as an end and then linked to from the
\* one before.  A failure in alloc_cluster frees the chain so far; one in the
\* linking returns at once.
alloc_chain(n) ==
    LET c == FreeClusters
        allocate(i) == write_fat_entry(c[i], EOC, IF i = 1 THEN 0 ELSE c[1])
        link(i) == IF i = 1 THEN <<>> ELSE write_fat_entry(c[i - 1], c[i], 0)
    IN  FlattenSeq([i \in 1..n |-> allocate(i) \o link(i)])

\* Mutant: only the first cluster is freed.
free_chain_head(chain) ==
    IF chain = <<>> THEN <<>> ELSE write_fat_entry(chain[1], 0, 0)

\* Every cluster of the chain, from its head.
free_chain(chain) ==
    FlattenSeq([i \in DOMAIN chain |-> write_fat_entry(chain[i], 0, 0)])

write_chain(chain, data) ==
    [i \in DOMAIN data |-> write_sector(chain[i], DataSector(data[i]), chain[1])]

\* The slot of the entry with this name, or else the first deleted slot before
\* the end marker, or else the slot of the marker; 0 for DirFull.
locate_or_free_slot(dir, name) ==
    LET here == locate_entry(disk, dir, name)
        unused == {i \in 1..SLOTS : disk.cell[dir].slots[i].kind # "Used"}
    IN  IF here # 0 THEN here ELSE IF unused = {} THEN 0 ELSE Min(unused)

-----------------------------------------------------------------------------
(***************************************************************************)
(* The operations.                                                           *)
(***************************************************************************)

Idle == todo = <<>>

\* The slot holds a directory with entries, which write_file replaces unseen.
Buries(dir, i) ==
    LET entry == disk.cell[dir].slots[i]
    IN  entry.kind = "Used" /\ entry.is_dir /\ Listed(disk, entry.first) # {}

Begin(writes) ==
    /\ todo' = writes
    /\ UNCHANGED <<disk, seen, faults>>

\* Mutant: the entry is switched before the data is written.
write_file_commits_early(p, data) ==
    /\ Idle
    /\ LET dir == resolve_parent(disk, p)
           i == locate_or_free_slot(dir, Last(p))
           c == FreeClusters
           n == Len(data)
           new_first == IF n = 0 THEN 0 ELSE c[1]
       IN  /\ dir # 0 /\ i # 0 /\ n <= Len(c)
           /\ Begin(alloc_chain(n)
                    \o <<write_dir_entry(dir, i, DirEntry(Last(p), FALSE, new_first, n), new_first)>>
                    \o write_chain(c, data)
                    \o free_chain(ChainOf(disk, disk.cell[dir].slots[i].first)))
    /\ UNCHANGED damage

\* A new chain with the data, the directory entry switched to it, the old chain
\* freed.  Without room for the whole chain what was allocated is freed again.
write_file(p, data) ==
    /\ Idle
    /\ LET dir == resolve_parent(disk, p)
           i == locate_or_free_slot(dir, Last(p))
           c == FreeClusters
           n == Len(data)
           new_first == IF n = 0 THEN 0 ELSE c[1]
           entry == DirEntry(Last(p), FALSE, new_first, n)
       IN  /\ dir # 0
           /\ i # 0
           /\ IF n > Len(c)
              THEN /\ Begin(alloc_chain(Len(c)) \o free_chain(c))
                   /\ UNCHANGED damage
              ELSE /\ Begin(alloc_chain(n)
                            \o write_chain(c, data)
                            \o <<write_dir_entry(dir, i, entry, new_first)>>
                            \o free_chain(ChainOf(disk, disk.cell[dir].slots[i].first)))
                   /\ damage' = IF Buries(dir, i) THEN "Lost" ELSE damage

\* A cluster, the empty directory in it, and its entry in the parent.
mkdir(p) ==
    /\ Idle
    /\ LET dir == resolve_parent(disk, p)
           i == locate_or_free_slot(dir, Last(p))
           c == FreeClusters[1]
       IN  /\ dir # 0
           /\ i # 0
           /\ disk.cell[dir].slots[i].kind # "Used"
           /\ FreeClusters # <<>>
           /\ Begin(alloc_chain(1)
                    \o <<write_sector(c, EmptyDirectory, c)>>
                    \o <<write_dir_entry(dir, i, DirEntry(Last(p), TRUE, c, 0), c)>>)
    /\ UNCHANGED damage

\* Mutant: the chain is freed before the entry is cleared.
RemoveChainFirst(p) ==
    LET dir == resolve_parent(disk, p)
        i == locate_entry(disk, dir, Last(p))
    IN  /\ Begin(free_chain(ChainOf(disk, disk.cell[dir].slots[i].first)) \o <<clear_dir_entry(dir, i)>>)
        /\ UNCHANGED damage

\* What unlink and rmdir do to an entry they accept: entry first, chain second.
RemoveEntry(p) ==
    LET dir == resolve_parent(disk, p)
        i == locate_entry(disk, dir, Last(p))
    IN  /\ Begin(<<clear_dir_entry(dir, i)>> \o free_chain(ChainOf(disk, disk.cell[dir].slots[i].first)))
        /\ UNCHANGED damage

unlink(p) ==
    /\ Idle
    /\ find_in_dir(disk, p).kind = "Used"
    /\ ~find_in_dir(disk, p).is_dir
    /\ RemoveEntry(p)

dir_is_empty(dir) == Listed(disk, dir) = {}

rmdir(p) ==
    /\ Idle
    /\ find_in_dir(disk, p).kind = "Used"
    /\ find_in_dir(disk, p).is_dir
    /\ dir_is_empty(find_in_dir(disk, p).first)
    /\ RemoveEntry(p)

-----------------------------------------------------------------------------
(***************************************************************************)
(* The disk.                                                                 *)
(***************************************************************************)

\* The device carries out the next write.
Write ==
    /\ ~Idle
    /\ LET w == Head(todo)
       IN  disk' = CASE w.at = "fat" -> [disk EXCEPT !.fat[w.copy][w.cluster] = w.value]
                     [] w.at = "cell" -> [disk EXCEPT !.cell[w.cluster] = w.value]
                     [] w.at = "slot" -> [disk EXCEPT !.cell[w.cluster].slots[w.slot] = w.value]
    /\ todo' = Tail(todo)
    /\ seen' = View(disk')
    /\ UNCHANGED <<faults, damage>>

\* The commit of the operation is still to come.
BeforeCommit == \E i \in DOMAIN todo : todo[i].at = "slot"

\* The next request fails: the operation ends with its error, after freeing the
\* chain it has at hand.
DeviceError ==
    /\ ~Idle
    /\ faults < MaxFaults
    /\ faults' = faults + 1
    /\ todo' = IF Head(todo).undo = 0 THEN <<>> ELSE free_chain(ChainOf(disk, Head(todo).undo))
    /\ damage' = IF BeforeCommit /\ damage # "Lost" THEN "Failed" ELSE "Lost"
    /\ UNCHANGED <<disk, seen>>

\* Power goes and comes back; mount keeps nothing from before.
PowerCut ==
    /\ ~Idle
    /\ faults < MaxFaults
    /\ faults' = faults + 1
    /\ todo' = <<>>
    /\ damage' = "Lost"
    /\ UNCHANGED <<disk, seen>>

Init ==
    /\ disk = [fat |-> [k \in 1..NumFats |-> [c \in Clusters |-> IF c = ROOT THEN EOC ELSE 0]],
               cell |-> [c \in Clusters |-> EmptyDirectory]]
    /\ todo = <<>>
    /\ seen = View(disk)
    /\ faults = 0
    /\ damage = "None"

Next ==
    \/ \E p \in Paths : \/ \E data \in Contents : write_file(p, data)
                        \/ mkdir(p)
                        \/ unlink(p)
                        \/ rmdir(p)
    \/ Write
    \/ DeviceError
    \/ PowerCut

Spec == Init /\ [][Next]_vars

-----------------------------------------------------------------------------
(***************************************************************************)
(* Properties.                                                               *)
(***************************************************************************)

Slot == [kind : {"End", "Deleted", "Used"}, name : Names \cup {""}, is_dir : BOOLEAN,
         first : Clusters \cup {0}, size : 0..NClusters]

\* Every sector holds what the driver writes there, and every write under way
\* is to a cluster of the volume (valid_cluster, the bound of alloc_cluster).
FatTypeOK ==
    /\ disk.fat \in [1..NumFats -> [Clusters -> Clusters \cup {0, EOC}]]
    /\ \A c \in Clusters :
          \/ disk.cell[c].kind = "dir" /\ disk.cell[c].slots \in [1..SLOTS -> Slot]
          \/ disk.cell[c].kind = "data" /\ disk.cell[c].chunk \in Chunks
    /\ \A i \in DOMAIN todo : todo[i].cluster \in Clusters /\ todo[i].undo \in Clusters \cup {0}
    /\ faults \in 0..MaxFaults
    /\ damage \in {"None", "Failed", "Lost"}

\* The directories of the tree, and the entries in them as <<cluster, slot>>.
Directories == {ROOT} \cup {DirectoryAt(disk, p) : p \in {q \in Paths : DirectoryAt(disk, q) # 0}}
Entries == {e \in Directories \X (1..SLOTS) : e[2] \in Listed(disk, e[1])}
EntryAt(e) == disk.cell[e[1]].slots[e[2]]
ChainAt(e) == ChainOf(disk, EntryAt(e).first)

\* The order the comment of unlink gives as its reason (fat.rs 785-788): at every
\* moment, after any failures and power cuts, the chain of every entry is whole
\* and allocated, and no cluster belongs to two entries.
NoCrossLink ==
    /\ \A e \in Entries :
          /\ Len(ChainAt(e)) = IF EntryAt(e).is_dir THEN 1 ELSE EntryAt(e).size
          /\ ChainAt(e) # <<>> => next_cluster(disk, Last(ChainAt(e))) = EOC
          /\ IsInjective(ChainAt(e))
          /\ ROOT \notin Range(ChainAt(e))
    /\ \A d, e \in Entries : d # e => Range(ChainAt(d)) \cap Range(ChainAt(e)) = {}

\* The clusters in use: the root and the chains of the entries.
Reached == {ROOT} \cup UNION {Range(ChainAt(e)) : e \in Entries}
Allocated == {c \in Clusters : next_cluster(disk, c) # 0}

\* As long as no request has failed, power has stayed and no directory was
\* written over, an operation leaves no cluster allocated that nothing reaches
\* and all copies of the FAT equal (free_chain, NoSpace rollback, mirroring).
NothingLeaks ==
    Idle /\ damage = "None" =>
        /\ Allocated = Reached
        /\ \A k \in 1..NumFats : disk.fat[k] = disk.fat[1]

Tree == INSTANCE FileTree WITH tree <- seen

\* Seen through lookup, every operation happens at the one write that commits it
\* or not at all, whatever fails and whenever power goes.
ImplementsTree == Tree!TreeSpec
=============================================================================
