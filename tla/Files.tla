------------------------------- MODULE Files -------------------------------
(***************************************************************************)
(* Descriptors of regular files and directories (syscall/files.rs) over the   *)
(* tree that the file system promises (FileTree, which Fat implements).        *)
(*                                                                           *)
(* open reads the whole file into the descriptor; write changes that copy and  *)
(* marks it dirty; close and exit write it back by path.  dup2, fcntl and fork *)
(* copy the descriptor, buffer and position included.  A system call runs with *)
(* interrupts off, so each is one step.  Contents are sequences of chunks: the *)
(* n-th chunk ever written is the number n, and 0 is a chunk of zeros.          *)
(* Descriptors that are not files (console, screen, serial line) are one value. *)
(***************************************************************************)
EXTENDS FileTree, Integers, FiniteSets, FiniteSetsExt

CONSTANTS
    Procs,      \* process slots
    Shell,      \* the process that is there from the start and stays
    MAX_FDS,    \* descriptors per process (16 in the code)
    Image,      \* the trees the disk may hold at boot
    UserPaths,  \* the paths programs pass: [absolute, parts], parts as split at '/'
    Buffers,    \* the buffer arrays programs pass to writev and readv
    Offsets,    \* the offsets programs pass to lseek
    MaxCount,   \* bound on the counts programs pass to read and getdents64
    MaxLen,     \* bound on the length of a file and on a position
    MaxWrites,  \* bound on the chunks written
    MaxFaults,  \* bound on the file system's failures
    MaxCalls    \* bound on the calls that are not close or exit

Data  == {s \in Seq(0 .. MaxWrites) : Len(s) <= MaxLen}
Nodes == {Nothing, Directory} \cup [kind : {"file"}, data : Data]

\* A tree a disk may hold: what is not directly under the root is in a directory.
IsDisk(t) == t \in [Paths -> Nodes] /\ \A p \in Paths : t[p] # Nothing => ParentExists(t, p)

ASSUME FilesAssumption ==
    /\ Shell \in Procs
    /\ {MAX_FDS, MaxLen, MaxWrites} \subseteq Nat \ {0} /\ {MaxFaults, MaxCalls, MaxCount} \subseteq Nat
    /\ Buffers \subseteq Seq(Int) /\ Offsets \subseteq Int
    /\ IsFiniteSet(Paths) /\ Paths \subseteq Seq(STRING) /\ <<>> \notin Paths
    /\ \A p \in Paths : \A n \in 1 .. Len(p) : SubSeq(p, 1, n) \in Paths
    /\ \A t \in Image : IsDisk(t)

VARIABLES
    live,    \* the processes there are
    cwd,     \* per process: its working directory, a path or the root <<>>
    fds,     \* per process: its descriptor table
    stuck,   \* a getdents64 ran off the records of a listing
    \* history
    writes,  \* chunks written so far
    calls,   \* calls so far, close and exit aside
    faults,  \* failures of the file system so far
    ideal    \* the tree if every call had taken effect on the file itself, at once;
             \* Unknown where the rules under which copies are safe were broken

filesVars == <<tree, live, cwd, fds, stuck, calls, writes, faults, ideal>>

Root   == <<>>
FdNums == 0 .. MAX_FDS - 1

(***************************************************************************)
(* Option<Fd>.  Of a directory, data is the listing taken at open.  given and  *)
(* sought are history: the names getdents64 handed out, and whether lseek       *)
(* moved the position of a listing.                                             *)
(***************************************************************************)
NoFd   == [kind |-> "None"]
Device == [kind |-> "Device"]
OpenFile(name, data, offset, writable, is_dir) ==
    [kind |-> "File", name |-> name, data |-> data, offset |-> offset,
     writable |-> writable, dirty |-> FALSE, is_dir |-> is_dir,
     given |-> <<>>, sought |-> FALSE]

Unknown == [kind |-> "unknown", data |-> <<>>]

IsFile(d)  == d.kind = "File"
IsDirty(d) == IsFile(d) /\ d.writable /\ d.dirty

\* ProcState::default(): the standard streams, which here share descriptor 0.
DefaultTable == [f \in FdNums |-> IF f = 0 THEN Device ELSE NoFd]

FilesInit ==
    /\ tree \in Image
    /\ live = {Shell}
    /\ cwd = [q \in Procs |-> Root]
    /\ fds = [q \in Procs |-> DefaultTable]
    /\ stuck = FALSE
    /\ calls = 0 /\ writes = 0 /\ faults = 0
    /\ ideal = tree

(***************************************************************************)
(* Paths.                                                                     *)
(***************************************************************************)
normalize(parts) ==
    LET comps[n \in 0 .. Len(parts)] ==
            IF n = 0 THEN <<>>
            ELSE CASE parts[n] \in {"", "."} -> comps[n - 1]
                   [] parts[n] = ".."        -> Parent(comps[n - 1])
                   [] OTHER                  -> Append(comps[n - 1], parts[n])
    IN comps[Len(parts)]

resolve_path(q, up) == normalize(IF up.absolute THEN up.parts ELSE cwd[q] \o up.parts)

Lookup(p) == IF p = Root THEN Directory ELSE tree[p]

(***************************************************************************)
(* Results of an operation of the file system that takes tree t to u: done,    *)
(* or failed (disk full, device error), and then either nothing happened or,    *)
(* when the failure came after the commit, all of it did (ImplementsTree of     *)
(* Fat).                                                                        *)
(***************************************************************************)
Outcomes(t, u) ==
    {[tree |-> u, ok |-> TRUE, fault |-> 0]} \cup
    {[tree |-> v, ok |-> FALSE, fault |-> 1] : v \in IF faults < MaxFaults THEN {t, u} ELSE {}}

write_file(t, p, data) ==
    IF ParentExists(t, p) THEN Outcomes(t, WithFile(t, p, data))
                          ELSE {[tree |-> t, ok |-> FALSE, fault |-> 0]}

(***************************************************************************)
(* Who holds copies.                                                          *)
(***************************************************************************)
Holds(q, f, p) == q \in live /\ IsFile(fds[q][f]) /\ fds[q][f].name = p

Writers(p) == {w \in Procs \X FdNums : Holds(w[1], w[2], p) /\ fds[w[1]][w[2]].writable}

\* The paths whose unwritten changes go when these descriptors are dropped.
DirtyNames(table, nums) == {table[f].name : f \in {n \in nums : IsDirty(table[n])}}

\* The ideal tree after the rules were broken for the paths ps.
Exposed(ps) == [p \in Paths |-> IF p \in ps THEN Unknown ELSE ideal[p]]

\* A path and what a later write-back to it would take along.
AndBelow(p) == {p} \cup Below(p)

\* What write-backs to the paths ps may bury: a path for which the rules were
\* broken may have become a directory since.
Buried(ps) == UNION {Below(p) : p \in {r \in ps : ideal[r] = Unknown}}

Running(q) == q \in live /\ ~stuck

FreeFds(table) == {f \in FdNums : table[f] = NoFd}

alloc_fd(table, entry) ==
    IF FreeFds(table) = {} THEN table ELSE [table EXCEPT ![Min(FreeFds(table))] = entry]

Install(q, entry) == fds' = [fds EXCEPT ![q] = alloc_fd(@, entry)]

(***************************************************************************)
(* open.  O_TRUNC and O_CREAT act on the disk before a descriptor is looked     *)
(* for, so a full table (EMFILE) fails a call that already took effect.         *)
(***************************************************************************)
RECLEN == 2   \* cells of a linux_dirent64 record: its start and the rest

Children(p) == {c \in Paths : Parent(c) = p /\ tree[c] # Nothing}

\* The entries of a directory, in the order of their slots, which is any order here;
\* subdirectories have "." and "..", the root has none.
Entries(p) ==
    LET names == {Name(c) : c \in Children(p)}
        n     == Cardinality(names)
        slots == CHOOSE s \in Injection(1 .. n, names) : TRUE
    IN (IF p = Root THEN <<>> ELSE <<".", "..">>) \o slots

\* The i-th cell belongs to the record of entry ((i - 1) \div RECLEN) + 1.
serialize_dirents(items) ==
    [i \in 1 .. RECLEN * Len(items) |-> items[((i - 1) \div RECLEN) + 1]]

OpenCopy(q, p, flags) ==
    /\ Lookup(p).kind = "file" /\ ~flags.truncate
    /\ LET data == Lookup(p).data
       IN Install(q, OpenFile(p, data, IF flags.append THEN Len(data) ELSE 0, flags.writable, FALSE))
    /\ ideal' = Exposed(IF /\ flags.writable
                          /\ \E w \in Writers(p) : fds[w[1]][w[2]].dirty
                       THEN {p} ELSE {})
    /\ UNCHANGED <<tree, faults>>

\* Mutant: a directory can be opened for writing.
OpenDirectoryWritable(q, p, flags) ==
    /\ Lookup(p) = Directory
    /\ Install(q, OpenFile(p, serialize_dirents(Entries(p)), 0, flags.writable, TRUE))
    /\ UNCHANGED <<tree, faults, ideal>>

OpenDirectory(q, p, flags) ==
    /\ Lookup(p) = Directory /\ ~flags.writable
    /\ Install(q, OpenFile(p, serialize_dirents(Entries(p)), 0, FALSE, TRUE))
    /\ UNCHANGED <<tree, faults, ideal>>

OpenEmptied(q, p, flags) ==
    /\ \/ Lookup(p).kind = "file" /\ flags.truncate
       \/ Lookup(p) = Nothing /\ flags.create
    /\ \E r \in write_file(tree, p, <<>>) :
          LET full == FreeFds(fds[q]) = {}
          IN /\ tree' = r.tree
             /\ faults' = faults + r.fault
             /\ IF r.ok THEN Install(q, OpenFile(p, <<>>, 0, flags.writable, FALSE))
                        ELSE UNCHANGED fds
             /\ ideal' = IF r.fault = 1 \/ (r.ok /\ full) \/ Writers(p) # {} THEN Exposed({p})
                         ELSE IF r.ok THEN [ideal EXCEPT ![p] = File(<<>>)] ELSE ideal

sys_open(q, up, flags) ==
    /\ Running(q)
    /\ LET p == resolve_path(q, up)
       IN /\ p \in Paths \cup {Root}
          /\ OpenCopy(q, p, flags) \/ OpenDirectory(q, p, flags) \/ OpenEmptied(q, p, flags)
    /\ UNCHANGED <<live, cwd, stuck, writes>>

(***************************************************************************)
(* read, write, lseek and getdents64 on a descriptor.  A bad user buffer        *)
(* (EFAULT) leaves everything as it was.                                        *)
(***************************************************************************)
Zeros(n) == [i \in 1 .. n |-> 0]

\* Mutant: what follows the written range is cut off.
WriteBufCuts(d, bytes) ==
    LET end == d.offset + Len(bytes)
    IN [d EXCEPT !.data   = SubSeq(d.data \o Zeros(Max({end - Len(d.data), 0})), 1, d.offset) \o bytes,
                 !.offset = end,
                 !.dirty  = TRUE]

WriteBuf(d, bytes) ==
    LET end   == d.offset + Len(bytes)
        grown == d.data \o Zeros(Max({end - Len(d.data), 0}))
    IN [d EXCEPT !.data   = SubSeq(grown, 1, d.offset) \o bytes \o SubSeq(grown, end + 1, Len(grown)),
                 !.offset = end,
                 !.dirty  = TRUE]

NewChunks(n) == [i \in 1 .. n |-> writes + i]

\* What a file holds after bytes were put at offset, a gap before them being zeros.
Overlaid(data, offset, bytes) ==
    [i \in 1 .. Max({Len(data), offset + Len(bytes)}) |->
        IF i \in offset + 1 .. offset + Len(bytes) THEN bytes[i - offset]
        ELSE IF i <= Len(data) THEN data[i] ELSE 0]

CanWrite(q, f) == Running(q) /\ IsFile(fds[q][f]) /\ fds[q][f].writable /\ ~fds[q][f].is_dir

\* The history of a write of n chunks through descriptor f.
Record(q, f, n) ==
    LET d == fds[q][f]
    IN /\ writes' = writes + n
       /\ ideal' = IF ideal[d.name].kind = "file" /\ Writers(d.name) = {<<q, f>>}
                   THEN [ideal EXCEPT ![d.name].data = Overlaid(@, d.offset, NewChunks(n))]
                   ELSE Exposed({d.name})

Within(q, f, n) == fds[q][f].offset + n <= MaxLen /\ writes + n <= MaxWrites

sys_write(q, f, n) ==
    /\ CanWrite(q, f) /\ Within(q, f, n)
    /\ fds' = [fds EXCEPT ![q][f] = WriteBuf(@, NewChunks(n))]
    /\ Record(q, f, n)
    /\ UNCHANGED <<tree, live, cwd, stuck, faults>>

(***************************************************************************)
(* writev and readv take an array of buffers: a number of chunks each, or -1    *)
(* for one that cannot be accessed, which ends the call with what was done.     *)
(***************************************************************************)

\* Buffer after buffer: the descriptor d after them, and n chunks written.
WriteEach(open, iov) ==
    LET after[k \in 0 .. Len(iov)] ==
            IF k = 0 THEN [d |-> open, n |-> 0]
            ELSE LET a == after[k - 1]
                 IN IF iov[k] = 0 \/ \E j \in 1 .. k : iov[j] < 0 THEN a
                    ELSE [d |-> WriteBuf(a.d, [i \in 1 .. iov[k] |-> writes + a.n + i]),
                          n |-> a.n + iov[k]]
    IN after[Len(iov)]

sys_writev(q, f, iov) ==
    LET done == WriteEach(fds[q][f], iov)
    IN /\ CanWrite(q, f) /\ done.n > 0 /\ Within(q, f, done.n)
       /\ fds' = [fds EXCEPT ![q][f] = done.d]
       /\ Record(q, f, done.n)
       /\ UNCHANGED <<tree, live, cwd, stuck, faults>>

CanRead(q, f) == Running(q) /\ IsFile(fds[q][f]) /\ ~fds[q][f].is_dir

\* A position past the end reads nothing.
ReadLen(d, count) == Min({Len(d.data) - Min({d.offset, Len(d.data)}), count})

ReadBuf(d, count) == [d EXCEPT !.offset = @ + ReadLen(d, count)]

sys_read(q, f, count) ==
    /\ CanRead(q, f)
    /\ fds' = [fds EXCEPT ![q][f] = ReadBuf(@, count)]
    /\ UNCHANGED <<tree, live, cwd, stuck, writes, faults, ideal>>

\* A short read, one that got less than was asked for, ends it.
ReadEach(open, iov) ==
    LET after[k \in 0 .. Len(iov)] ==
            IF k = 0 THEN [d |-> open, got |-> 0, asked |-> 0]
            ELSE LET a == after[k - 1]
                 IN IF iov[k] = 0 \/ a.got < a.asked \/ \E j \in 1 .. k : iov[j] < 0 THEN a
                    ELSE [d     |-> ReadBuf(a.d, iov[k]),
                          got   |-> a.got + ReadLen(a.d, iov[k]),
                          asked |-> a.asked + iov[k]]
    IN after[Len(iov)].d

sys_readv(q, f, iov) ==
    /\ CanRead(q, f)
    /\ fds' = [fds EXCEPT ![q][f] = ReadEach(@, iov)]
    /\ UNCHANGED <<tree, live, cwd, stuck, writes, faults, ideal>>

\* Any position from 0 on, past the end included; a negative one is EINVAL.
sys_lseek(q, f, offset, whence) ==
    LET d    == fds[q][f]
        base == CASE whence = "SEEK_SET" -> 0
                  [] whence = "SEEK_CUR" -> d.offset
                  [] whence = "SEEK_END" -> Len(d.data)
    IN /\ Running(q) /\ IsFile(d)
       /\ base + offset \in 0 .. Max({MaxLen, Len(d.data)})
       /\ fds' = [fds EXCEPT ![q][f].offset = base + offset, ![q][f].sought = d.is_dir, ![q][f].given = <<>>]
       /\ UNCHANGED <<tree, live, cwd, stuck, writes, faults, ideal>>

(***************************************************************************)
(* getdents64 hands out whole records from the position.  In the middle of a    *)
(* record the length it reads is some bytes of that record: the loop may never   *)
(* end or index outside the listing (stuck), or copy out up to some position.    *)
(***************************************************************************)
\* Mutant: as many bytes as fit, whole records or not.
WholeRecordsNot(d, count) == Min({count, Len(d.data) - d.offset})

WholeRecords(d, count) == RECLEN * (Min({count, Len(d.data) - d.offset}) \div RECLEN)

sys_getdents64(q, f, count) ==
    LET d    == fds[q][f]
        span == WholeRecords(d, count)
    IN /\ Running(q) /\ IsFile(d) /\ d.is_dir /\ d.offset < Len(d.data)
       /\ \/ /\ d.offset % RECLEN = 0 /\ span > 0
             /\ fds' = [fds EXCEPT ![q][f].offset = @ + span,
                                   ![q][f].given = @ \o [i \in 1 .. span \div RECLEN |->
                                                            d.data[d.offset + RECLEN * i]]]
             /\ UNCHANGED stuck
          \/ /\ d.offset % RECLEN # 0
             /\ \/ stuck' = TRUE /\ UNCHANGED fds
                \/ /\ \E end \in d.offset + 1 .. Len(d.data) :
                         fds' = [fds EXCEPT ![q][f].offset = end]
                   /\ UNCHANGED stuck
       /\ UNCHANGED <<tree, live, cwd, writes, faults, ideal>>

(***************************************************************************)
(* close, dup2 and fcntl.                                                      *)
(***************************************************************************)

\* The slot is emptied first: when the write-back fails the data are gone.
sys_close(q, f) ==
    LET d == fds[q][f]
    IN /\ Running(q) /\ d # NoFd
       /\ fds' = [fds EXCEPT ![q][f] = NoFd]
       /\ IF IsDirty(d)
          THEN \E r \in write_file(tree, d.name, d.data) :
                  /\ tree' = r.tree
                  /\ faults' = faults + r.fault
                  /\ ideal' = Exposed((IF r.ok THEN {} ELSE {d.name}) \cup Buried({d.name}))
          ELSE UNCHANGED <<tree, faults, ideal>>
       /\ UNCHANGED <<live, cwd, stuck, writes>>

sys_dup2(q, oldfd, newfd) ==
    /\ Running(q) /\ fds[q][oldfd] # NoFd /\ oldfd # newfd
    /\ fds' = [fds EXCEPT ![q][newfd] = fds[q][oldfd]]
    /\ ideal' = Exposed(DirtyNames(fds[q], {newfd}))
    /\ UNCHANGED <<tree, live, cwd, stuck, writes, faults>>

\* fcntl(F_DUPFD): the lowest free descriptor from start on.
F_DUPFD(q, f, start) ==
    LET free == {n \in FreeFds(fds[q]) : n >= start}
    IN /\ Running(q) /\ fds[q][f] # NoFd /\ free # {}
       /\ fds' = [fds EXCEPT ![q][Min(free)] = fds[q][f]]
       /\ UNCHANGED <<tree, live, cwd, stuck, writes, faults, ideal>>

(***************************************************************************)
(* The table of a process: copied by fork, written back by exit, dropped when   *)
(* the process dies in another way.                                             *)
(***************************************************************************)
fork_fds(q, c) ==
    /\ Running(q) /\ c \notin live
    /\ live' = live \cup {c}
    /\ fds' = [fds EXCEPT ![c] = fds[q]]
    /\ cwd' = [cwd EXCEPT ![c] = cwd[q]]
    /\ UNCHANGED <<tree, stuck, writes, faults, ideal>>

Gone(q) ==
    /\ live' = live \ {q}
    /\ fds' = [fds EXCEPT ![q] = DefaultTable]
    /\ cwd' = [cwd EXCEPT ![q] = Root]

\* Mutant: exit leaves the dirty files to nobody.
FlushNone(t0, table, lost) == t0

\* Descriptor by descriptor; lost are the ones whose write-back the disk refuses.
FlushAll(t0, table, lost) ==
    LET after[n \in 0 .. MAX_FDS] ==
            IF n = 0 THEN t0
            ELSE LET d == table[n - 1]
                     t == after[n - 1]
                 IN IF IsDirty(d) /\ n - 1 \notin lost /\ ParentExists(t, d.name)
                    THEN WithFile(t, d.name, d.data) ELSE t
    IN after[MAX_FDS]

\* Errors are ignored: exit has nobody to report them to.  Of the write-backs
\* that fail (bad) some fail before they have taken effect (lost).
release_current_process_fds(q) ==
    /\ Running(q) /\ q # Shell
    /\ \E bad \in SUBSET {f \in FdNums : IsDirty(fds[q][f])} :
          /\ faults + Cardinality(bad) <= MaxFaults
          /\ faults' = faults + Cardinality(bad)
          /\ \E lost \in SUBSET bad : tree' = FlushAll(tree, fds[q], lost)
          /\ ideal' = Exposed(DirtyNames(fds[q], bad) \cup Buried(DirtyNames(fds[q], FdNums)))
    /\ Gone(q)
    /\ UNCHANGED <<stuck, writes>>

forget_process(q) ==
    /\ Running(q) /\ q # Shell
    /\ ideal' = Exposed(DirtyNames(fds[q], FdNums))
    /\ Gone(q)
    /\ UNCHANGED <<tree, stuck, writes, faults>>

(***************************************************************************)
(* Calls on paths.                                                            *)
(***************************************************************************)
sys_chdir(q, up) ==
    /\ Running(q)
    /\ LET p == resolve_path(q, up)
       IN /\ p \in Paths \cup {Root} /\ Lookup(p) = Directory
          /\ cwd' = [cwd EXCEPT ![q] = p]
    /\ UNCHANGED <<tree, live, fds, stuck, writes, faults, ideal>>

\* A change of one path to node: on the disk, and in the ideal tree if it succeeds.
SetNode(p, node) ==
    \E r \in Outcomes(tree, [tree EXCEPT ![p] = node]) :
        /\ tree' = r.tree
        /\ faults' = faults + r.fault
        /\ ideal' = IF r.ok /\ Writers(p) = {} THEN [ideal EXCEPT ![p] = node]
                                              ELSE Exposed(AndBelow(p))

OnPath(q, up, allowed, node) ==
    /\ Running(q)
    /\ LET p == resolve_path(q, up)
       IN p \in allowed /\ SetNode(p, node)
    /\ UNCHANGED <<live, cwd, fds, stuck, writes>>

Missing  == {p \in Paths : tree[p] = Nothing /\ ParentExists(tree, p)}
Plain    == {p \in Paths : tree[p].kind = "file"}
EmptyDir == {p \in Paths : tree[p] = Directory /\ Children(p) = {}}

sys_mkdir(q, up)  == OnPath(q, up, Missing, Directory)
sys_unlink(q, up) == OnPath(q, up, Plain, Nothing)
sys_rmdir(q, up)  == OnPath(q, up, EmptyDir, Nothing)

\* What stat reports of a path and fstat of a descriptor: type and size.
sys_stat(p)  == LET n == Lookup(p)
                IN [is_dir |-> n = Directory, size |-> IF n = Directory THEN 0 ELSE Len(n.data)]
sys_fstat(d) == [is_dir |-> d.is_dir, size |-> Len(d.data)]

OpenFlags == [writable : BOOLEAN, create : BOOLEAN, truncate : BOOLEAN, append : BOOLEAN]

OnFd(q, f) ==
    \/ \E n \in 0 .. MaxLen : sys_write(q, f, n)
    \/ \E iov \in Buffers : sys_writev(q, f, iov) \/ sys_readv(q, f, iov)
    \/ \E n \in 1 .. MaxCount : sys_read(q, f, n)
    \/ \E offset \in Offsets, whence \in {"SEEK_SET", "SEEK_CUR", "SEEK_END"} :
          sys_lseek(q, f, offset, whence)
    \/ \E count \in 1 .. MaxCount : sys_getdents64(q, f, count)
    \/ \E g \in FdNums : sys_dup2(q, f, g) \/ F_DUPFD(q, f, g)

OnUserPath(q, up) ==
    \/ \E flags \in OpenFlags : sys_open(q, up, flags)
    \/ sys_chdir(q, up) \/ sys_mkdir(q, up) \/ sys_unlink(q, up) \/ sys_rmdir(q, up)

\* Calls that give something up do not count.
FilesNext ==
    \E q \in live :
       \/ /\ calls < MaxCalls /\ calls' = calls + 1
          /\ \/ \E f \in FdNums : OnFd(q, f)
             \/ \E up \in UserPaths : OnUserPath(q, up)
             \/ \E c \in Procs : fork_fds(q, c)
       \/ /\ UNCHANGED calls
          /\ \/ \E f \in FdNums : sys_close(q, f)
             \/ release_current_process_fds(q)
             \/ forget_process(q)

FilesSpec == FilesInit /\ [][FilesNext]_filesVars

(***************************************************************************)
(* Properties.                                                                *)
(***************************************************************************)
EntryNames == {".", ".."} \cup {Name(p) : p \in Paths}

\* A copy of a file, which has a path, and the listing of a directory.
Copies   == [kind : {"File"}, name : Paths, data : Data, offset : Nat,
             writable : BOOLEAN, dirty : BOOLEAN, is_dir : {FALSE}, given : {<<>>}, sought : {FALSE}]
Listings == [kind : {"File"}, name : Paths \cup {Root}, data : Seq(EntryNames), offset : Nat,
             writable : {FALSE}, dirty : {FALSE}, is_dir : {TRUE}, given : Seq(EntryNames), sought : BOOLEAN]

IsDescriptor(d) ==
    \/ d \in {NoFd, Device}
    \/ /\ d \in IF d.is_dir THEN Listings ELSE Copies
       /\ d.offset <= Max({MaxLen, Len(d.data)})

\* Every value is one the code can hold.
FilesTypeOK ==
    /\ live \subseteq Procs /\ Shell \in live
    /\ cwd \in [Procs -> Paths \cup {Root}]
    /\ tree \in [Paths -> Nodes] /\ ideal \in [Paths -> Nodes \cup {Unknown}]
    /\ fds = [q \in Procs |-> [f \in FdNums |-> fds[q][f]]]
    /\ \A q \in Procs, f \in FdNums : IsDescriptor(fds[q][f])
    /\ stuck \in BOOLEAN
    /\ calls \in 0 .. MaxCalls /\ writes \in 0 .. MaxWrites /\ faults \in 0 .. MaxFaults

(***************************************************************************)
(* Descriptors are copies written back by path when they are closed.  That is    *)
(* enough as long as the copies of a file are used one at a time: the redirect   *)
(* of a shell (open, dup2, close, fork, exit of the child) and everything else   *)
(* in which no call failed, no path was removed or truncated under a writer and  *)
(* no two writers overlapped.  Then the file holds exactly what was written, in  *)
(* order, as soon as no unwritten copy of it is left, so what a child wrote is   *)
(* there when wait returns.                                                      *)
(***************************************************************************)
Durable ==
    \A p \in {r \in Paths : ideal[r] # Unknown} :
        (\A w \in Writers(p) : ~fds[w[1]][w[2]].dirty) => tree[p] = ideal[p]

(***************************************************************************)
(* Under the same rules no writer works on a stale copy: every descriptor open   *)
(* for writing, however it was copied, holds the file's contents, and one that   *)
(* has nothing to write back is reported alike by stat and fstat.                *)
(***************************************************************************)
CopiesCurrent ==
    \A p \in {r \in Paths : ideal[r] # Unknown} : \A w \in Writers(p) :
        LET d == fds[w[1]][w[2]]
        IN /\ ideal[p] = File(d.data)
           /\ (\A v \in Writers(p) : ~fds[v[1]][v[2]].dirty) => sys_stat(p) = sys_fstat(d)

(***************************************************************************)
(* getdents64 never gets stuck, repeats or skips an entry, however the reading   *)
(* is split into calls and whoever changes the directory meanwhile: the names    *)
(* given are those of the listing taken at open, up to the position.  It relies  *)
(* on nobody moving the position of a listing with lseek.                        *)
(***************************************************************************)
ListingExact ==
    /\ \A q \in live, f \in FdNums :
          LET d == fds[q][f]
          IN IsFile(d) /\ d.is_dir /\ ~d.sought =>
                /\ d.offset = RECLEN * Len(d.given)
                /\ d.given = [i \in 1 .. Len(d.given) |-> d.data[RECLEN * i]]
    /\ stuck => \E q \in live, f \in FdNums : IsFile(fds[q][f]) /\ fds[q][f].sought
=============================================================================
