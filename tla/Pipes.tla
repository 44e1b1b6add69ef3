------------------------------- MODULE Pipes -------------------------------
(***************************************************************************)
(* Descriptor tables and pipes (syscall/files.rs) over the scheduler of      *)
(* Thread: pipe, close, dup2, fcntl(F_DUPFD), fork's copy of the table,       *)
(* exit's release of it, the reaper's forget_process, and the blocking read   *)
(* and the write of a pipe.                                                    *)
(*                                                                           *)
(* A pipe end counts itself: Clone adds one to readers or writers, Drop takes  *)
(* one away and wakes the pipe waiters when none is left.  Of the bytes in     *)
(* transit only their number is kept.  A table is a function on all            *)
(* descriptors: an index beyond the end of the Vec is a free one.  The three   *)
(* standard streams are left out: FdNums are the other descriptors.  A table    *)
(* belongs to its process here; the code finds it by CR3, and Registry shows     *)
(* when that key names another process's state.                                  *)
(***************************************************************************)
EXTENDS Thread, FiniteSetsExt

CONSTANTS MAX_FDS,    \* descriptors per process (16 in the code, less 0, 1, 2)
          PipeIds,    \* pipes that can exist at once
          MaxData     \* bound on the bytes in transit (none in the code)

NoPipe == "NoPipe"

ASSUME PipesAssumption ==
    MAX_FDS \in Nat \ {0} /\ MaxData \in Nat \ {0} /\ NoPipe \notin PipeIds

VARIABLES
    fds,      \* per slot: the descriptor table of its process
    pipe,     \* per pipe: its PipeBuf
    reading,  \* per slot: the pipe whose read_pipe loop it is inside, or NoPipe
    corpses   \* reaped slots whose forget_process is still to come

pipeVars == <<fds, pipe, reading, corpses>>
allVars  == <<vars, pipeVars>>

FdNums == 0 .. MAX_FDS - 1

\* Option<Fd>: a pipe end or None.
NoFd         == [kind |-> "None", of |-> NoPipe]
PipeRead(p)  == [kind |-> "PipeRead", of |-> p]
PipeWrite(p) == [kind |-> "PipeWrite", of |-> p]

Fd == {NoFd} \cup {PipeRead(p) : p \in PipeIds} \cup {PipeWrite(p) : p \in PipeIds}

PipeBuf == [data : 0 .. MaxData, readers : Nat, writers : Nat]

Count(table, nums, fd) == Cardinality({f \in nums : table[f] = fd})

(***************************************************************************)
(* Clone and Drop of the ends that the descriptors nums of a table hold.      *)
(***************************************************************************)
Cloned(bufs, table, nums) ==
    [p \in PipeIds |->
        [bufs[p] EXCEPT !.readers = @ + Count(table, nums, PipeRead(p)),
                        !.writers = @ + Count(table, nums, PipeWrite(p))]]

Dropped(bufs, table, nums) ==
    [p \in PipeIds |->
        [bufs[p] EXCEPT !.readers = @ - Count(table, nums, PipeRead(p)),
                        !.writers = @ - Count(table, nums, PipeWrite(p))]]

\* Mutant: Drop of a write end wakes nobody.
LastEndGone_readers(bufs, table, nums) ==
    \E p \in PipeIds : /\ Count(table, nums, PipeRead(p)) > 0
                       /\ Dropped(bufs, table, nums)[p].readers = 0

\* Some Drop among them found its side of a pipe empty.
LastEndGone(bufs, table, nums) ==
    \E p \in PipeIds :
        \/ /\ Count(table, nums, PipeRead(p)) > 0
           /\ Dropped(bufs, table, nums)[p].readers = 0
        \/ /\ Count(table, nums, PipeWrite(p)) > 0
           /\ Dropped(bufs, table, nums)[p].writers = 0

\* wake_pipe_waiters when needed, and nothing else of the scheduler.
WakeIf(gone) == IF gone THEN Wake("Pipe") ELSE UNCHANGED vars

PipesInit ==
    /\ Init
    /\ fds = [s \in Slots |-> [f \in FdNums |-> NoFd]]
    /\ pipe = [p \in PipeIds |-> [data |-> 0, readers |-> 0, writers |-> 0]]
    /\ reading = [s \in Slots |-> NoPipe]
    /\ corpses = {}

\* The running process is between system calls.
Ready == InUser /\ reading[current] = NoPipe

table   == fds[current]
FreeFds == {f \in FdNums : table[f] = NoFd}

\* No end and no read in progress refers to p.
Unused(p) ==
    /\ pipe[p].readers = 0 /\ pipe[p].writers = 0
    /\ \A s \in Slots : is_alive(threads[s].state) => reading[s] # p

(***************************************************************************)
(* pipe(): two calls of alloc_fd; when the table is full both ends are        *)
(* dropped again, which wakes the waiters.  A bad fds pointer changes nothing  *)
(* of this: the descriptors stay open.                                         *)
(***************************************************************************)
sys_pipe(p) ==
    /\ Ready /\ Unused(p)
    /\ IF Cardinality(FreeFds) >= 2
       THEN LET r == Min(FreeFds)
                w == Min(FreeFds \ {r})
            IN /\ fds' = [fds EXCEPT ![current][r] = PipeRead(p), ![current][w] = PipeWrite(p)]
               /\ pipe' = [pipe EXCEPT ![p] = [data |-> 0, readers |-> 1, writers |-> 1]]
               /\ UNCHANGED vars
       ELSE WakeIf(TRUE) /\ UNCHANGED <<fds, pipe>>
    /\ UNCHANGED <<reading, corpses>>

sys_close(f) ==
    /\ Ready
    /\ table[f] # NoFd
    /\ fds' = [fds EXCEPT ![current][f] = NoFd]
    /\ pipe' = Dropped(pipe, table, {f})
    /\ WakeIf(LastEndGone(pipe, table, {f}))
    /\ UNCHANGED <<reading, corpses>>

\* Clone of oldfd first, then the old content of newfd is dropped.
sys_dup2(oldfd, newfd) ==
    /\ Ready
    /\ table[oldfd] # NoFd /\ oldfd # newfd
    /\ LET bufs == Cloned(pipe, table, {oldfd})
       IN /\ pipe' = Dropped(bufs, table, {newfd})
          /\ WakeIf(LastEndGone(bufs, table, {newfd}))
    /\ fds' = [fds EXCEPT ![current][newfd] = table[oldfd]]
    /\ UNCHANGED <<reading, corpses>>

\* fcntl(F_DUPFD): the lowest free descriptor from start on.
sys_fcntl(f, start) ==
    /\ Ready
    /\ table[f] # NoFd
    /\ \E idx \in FreeFds :
          /\ idx >= start
          /\ \A i \in FreeFds : i >= start => idx <= i
          /\ fds' = [fds EXCEPT ![current][idx] = table[f]]
    /\ pipe' = Cloned(pipe, table, {f})
    /\ UNCHANGED <<vars, reading, corpses>>

(***************************************************************************)
(* One turn of the loop of read_pipe: take data, see EOF, or block.            *)
(***************************************************************************)
ReadTurn(p, count) ==
    \/ /\ pipe[p].data > 0
       /\ pipe' = [pipe EXCEPT ![p].data = @ - Min({count, @})]
       /\ reading' = [reading EXCEPT ![current] = NoPipe]
       /\ UNCHANGED vars
    \/ /\ pipe[p].data = 0 /\ pipe[p].writers = 0
       /\ reading' = [reading EXCEPT ![current] = NoPipe]
       /\ UNCHANGED <<vars, pipe>>
    \/ /\ pipe[p].data = 0 /\ pipe[p].writers > 0
       /\ Block("Pipe")
       /\ reading' = [reading EXCEPT ![current] = p]
       /\ UNCHANGED pipe

read_pipe(f, count) ==
    /\ Ready
    /\ table[f].kind = "PipeRead"
    /\ ReadTurn(table[f].of, count)
    /\ UNCHANGED <<fds, corpses>>

\* Back in the loop after a wake-up.
ReadResume ==
    /\ reading[current] # NoPipe
    /\ \E count \in 1 .. MaxData : ReadTurn(reading[current], count)
    /\ UNCHANGED <<fds, corpses>>

\* With no reader left: EPIPE, nothing changes.
write_pipe(f, count) ==
    /\ Ready
    /\ table[f].kind = "PipeWrite"
    /\ LET p == table[f].of
       IN /\ pipe[p].readers > 0
          /\ pipe[p].data + count <= MaxData
          /\ pipe' = [pipe EXCEPT ![p].data = @ + count]
    /\ Wake("Pipe")
    /\ UNCHANGED <<fds, reading, corpses>>

\* Mutant: the ends are copied without Clone.
fork_fds_uncounted ==
    /\ Ready
    /\ Fork
    /\ fds' = [fds EXCEPT ![len] = table]
    /\ UNCHANGED <<pipe, reading, corpses>>

\* fork_fds: the child's table is a clone of the parent's.
fork_fds ==
    /\ Ready
    /\ Fork
    /\ fds' = [fds EXCEPT ![len] = table]
    /\ pipe' = Cloned(pipe, table, FdNums)
    /\ UNCHANGED <<reading, corpses>>

\* Mutant: the ends are dropped and the table keeps them for the reaper.
ExitReleasing_keeps(code) ==
    /\ Ready
    /\ Exit(code, LastEndGone(pipe, table, FdNums))
    /\ pipe' = Dropped(pipe, table, FdNums)
    /\ UNCHANGED <<fds, reading, corpses>>

\* exit: release_current_process_fds, then exit_current.
ExitReleasing(code) ==
    /\ Ready
    /\ Exit(code, LastEndGone(pipe, table, FdNums))
    /\ fds' = [fds EXCEPT ![current] = [f \in FdNums |-> NoFd]]
    /\ pipe' = Dropped(pipe, table, FdNums)
    /\ UNCHANGED <<reading, corpses>>

\* A fault or a signal ends the process and leaves its table alone.
Killed ==
    /\ Ready
    /\ Fault \/ \E pid \in Pids, sig \in Sent : Kill(pid, sig)
    /\ UNCHANGED pipeVars

\* Wait4 for any child: which one is waited for makes no difference to pipes.
Waiting ==
    /\ WaitResume \/ (Ready /\ Wait4(0))
    /\ UNCHANGED pipeVars

Tick == reading[current] = NoPipe /\ TimerTick /\ UNCHANGED pipeVars

(***************************************************************************)
(* The reaper on thread 0: reap() takes the corpses, then forgets their        *)
(* tables one by one, in table order, before it is called again.               *)
(***************************************************************************)
ReapCorpses ==
    /\ corpses = {}
    /\ Reap
    /\ corpses' = {s \in Slots : threads[s].cr3 /\ ~ threads'[s].cr3}
    /\ UNCHANGED <<fds, pipe, reading>>

forget_process ==
    /\ current = 0 /\ corpses # {}
    /\ LET s == Min(corpses)
       IN /\ corpses' = corpses \ {s}
          /\ fds' = [fds EXCEPT ![s] = [f \in FdNums |-> NoFd]]
          /\ pipe' = Dropped(pipe, fds[s], FdNums)
          /\ WakeIf(LastEndGone(pipe, fds[s], FdNums))
    /\ UNCHANGED reading

PipesNext ==
    \/ \E p \in PipeIds : sys_pipe(p)
    \/ \E f \in FdNums : sys_close(f)
    \/ \E f, g \in FdNums : sys_dup2(f, g) \/ sys_fcntl(f, g)
    \/ \E f \in FdNums, count \in 1 .. MaxData : read_pipe(f, count) \/ write_pipe(f, count)
    \/ ReadResume
    \/ fork_fds
    \/ \E code \in Codes : ExitReleasing(code)
    \/ Killed
    \/ Waiting
    \/ Tick
    \/ ReapCorpses
    \/ forget_process

PipesSpec == PipesInit /\ [][PipesNext]_allVars

\* The fairness of Thread; the read loop, like the wait loop, keeps the CPU.
PipesFairSpec ==
    /\ PipesSpec
    /\ SF_allVars(Tick) /\ SF_allVars(ReapCorpses) /\ SF_allVars(forget_process)
    /\ WF_allVars(ReadResume) /\ WF_allVars(WaitResume /\ UNCHANGED pipeVars)

-----------------------------------------------------------------------------
\* Tables, buffers and read loops hold values of their types.
PipesTypeOK ==
    /\ fds \in [Slots -> [FdNums -> Fd]]
    /\ pipe \in [PipeIds -> PipeBuf]
    /\ reading \in [Slots -> PipeIds \cup {NoPipe}]
    /\ corpses \subseteq Slots

\* The descriptors, over all tables, that hold the given end.
EndsIn(tables, fd) == {e \in Slots \X FdNums : tables[e[1]][e[2]] = fd}

\* The counters of a PipeBuf are exactly the ends that exist, over all tables:
\* every way an end appears or vanishes (pipe, dup2, fcntl, fork, close, exit,
\* the reaper after a kill) is accounted for once.
CountsExact ==
    \A p \in PipeIds : /\ pipe[p].readers = Cardinality(EndsIn(fds, PipeRead(p)))
                       /\ pipe[p].writers = Cardinality(EndsIn(fds, PipeWrite(p)))

\* No lost wake-up: a process asleep in read_pipe sleeps on an empty pipe that
\* still has a writer, though writes, closes, exits and the reaper's drops all
\* happen behind its back.
ReaderSound ==
    \A s \in Slots :
        (reading[s] # NoPipe /\ threads[s].state = "Blocked") =>
            /\ threads[s].blocked_on = "Pipe"
            /\ pipe[reading[s]].data = 0 /\ pipe[reading[s]].writers > 0

\* A reader of a pipe without writers returns (with data or EOF) or dies.
ReadReturns ==
    \A s \in Slots \ {0}, p \in PipeIds :
        (reading[s] = p /\ is_alive(threads[s].state) /\ pipe[p].writers = 0)
            ~> (reading[s] # p \/ ~ is_alive(threads[s].state))

\* "fork/dup2/close/exit/kill are accounted for automatically (any way an end
\* vanishes decreases the counter)", as the comment on PipeBuf has it: a reader
\* whose pipe no living process can write to any more gets its EOF.
DeadWritersGiveEof ==
    \A s \in Slots \ {0}, p \in PipeIds :
        (/\ reading[s] = p /\ is_alive(threads[s].state)
         /\ \A w \in Slots : is_alive(threads[w].state) => Count(fds[w], FdNums, PipeWrite(p)) = 0)
            ~> (reading[s] # p \/ ~ is_alive(threads[s].state))
=============================================================================
