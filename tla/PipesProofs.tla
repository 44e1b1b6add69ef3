---------------------------- MODULE PipesProofs ----------------------------
(***************************************************************************)
(* Pipes, for every table of threads, size of a descriptor table and set of    *)
(* pipes: the counters of a pipe are its ends, and no reader sleeps through a   *)
(* write or the end of the last writer.                                          *)
(***************************************************************************)
EXTENDS Pipes, ThreadProofs, FiniteSetTheorems

-----------------------------------------------------------------------------
(***************************************************************************)
(* The sleepers of read_pipe: every step of Pipes keeps ReaderSound, given     *)
(* that the counters of the pipes are the ends that exist.                      *)
(***************************************************************************)
Empty == [f \in FdNums |-> NoFd]

\* The slots fork() will use have no descriptors.
FreeTables == \A s \in Slots : s >= len => fds[s] = Empty

\* No process is in the loops of read_pipe and of wait4 at once.
OneLoop == \A s \in Slots : reading[s] # NoPipe => waiting[s] = NoPid

\* The inductive invariant.
PipesInv ==
    IInv /\ PipesTypeOK /\ CountsExact /\ ReaderSound /\ FreeTables /\ OneLoop

Tables == [Slots -> [FdNums -> Fd]]

RawBuf == [data : 0 .. MaxData, readers : Int, writers : Int]
Bufs   == [PipeIds -> RawBuf]

CountsOf(tables, bufs) ==
    \A p \in PipeIds : /\ bufs[p].readers = Cardinality(EndsIn(tables, PipeRead(p)))
                       /\ bufs[p].writers = Cardinality(EndsIn(tables, PipeWrite(p)))

\* What PipesProofs shows of Count.
CountsEnds == \A tab, f, fd : Count(tab, {f}, fd) \in Nat /\ Count(tab, FdNums, fd) \in Nat

-----------------------------------------------------------------------------
(***************************************************************************)
(* What clone and drop do to the counters.                                     *)
(***************************************************************************)
LEMMA BufFields ==
    ASSUME NEW D, NEW b \in [data : D, readers : Int, writers : Int], NEW r \in Int, NEW w \in Int,
           NEW new, new = [b EXCEPT !.readers = r, !.writers = w]
    PROVE  /\ new \in [data : D, readers : Int, writers : Int]
           /\ new.data = b.data /\ new.readers = r /\ new.writers = w
BY Zenon

\* Fd::clone over some descriptors of a table adds to each pipe the ends among them.
LEMMA ClonedFields ==
    ASSUME NEW bufs \in Bufs, NEW tab, NEW nums, \A fd : Count(tab, nums, fd) \in Nat,
           NEW new, new = Cloned(bufs, tab, nums)
    PROVE  /\ new \in Bufs
           /\ \A p \in PipeIds :
                 /\ new[p].data = bufs[p].data
                 /\ new[p].readers = bufs[p].readers + Count(tab, nums, PipeRead(p))
                 /\ new[p].writers = bufs[p].writers + Count(tab, nums, PipeWrite(p))
<1>1. ASSUME NEW p \in PipeIds
      PROVE  /\ new[p] \in RawBuf
             /\ new[p].data = bufs[p].data
             /\ new[p].readers = bufs[p].readers + Count(tab, nums, PipeRead(p))
             /\ new[p].writers = bufs[p].writers + Count(tab, nums, PipeWrite(p))
  <2>1. bufs[p] \in RawBuf
    BY DEF Bufs
  <2>2. new[p] = [bufs[p] EXCEPT !.readers = bufs[p].readers + Count(tab, nums, PipeRead(p)),
                                 !.writers = bufs[p].writers + Count(tab, nums, PipeWrite(p))]
    BY Zenon DEF Cloned
  <2>3. /\ bufs[p].readers + Count(tab, nums, PipeRead(p)) \in Int
        /\ bufs[p].writers + Count(tab, nums, PipeWrite(p)) \in Int
    BY <2>1 DEF RawBuf
  <2> QED BY <2>1, <2>2, <2>3, BufFields, Zenon DEF RawBuf
<1>2. new = [p \in PipeIds |-> new[p]]
  BY Zenon DEF Cloned
<1> QED BY <1>1, <1>2 DEF Bufs

\* Fd::drop over some descriptors of a table takes from each pipe the ends among them.
LEMMA DroppedFields ==
    ASSUME NEW bufs \in Bufs, NEW tab, NEW nums, \A fd : Count(tab, nums, fd) \in Nat,
           NEW new, new = Dropped(bufs, tab, nums)
    PROVE  /\ new \in Bufs
           /\ \A p \in PipeIds :
                 /\ new[p].data = bufs[p].data
                 /\ new[p].readers = bufs[p].readers - Count(tab, nums, PipeRead(p))
                 /\ new[p].writers = bufs[p].writers - Count(tab, nums, PipeWrite(p))
<1>1. ASSUME NEW p \in PipeIds
      PROVE  /\ new[p] \in RawBuf
             /\ new[p].data = bufs[p].data
             /\ new[p].readers = bufs[p].readers - Count(tab, nums, PipeRead(p))
             /\ new[p].writers = bufs[p].writers - Count(tab, nums, PipeWrite(p))
  <2>1. bufs[p] \in RawBuf
    BY DEF Bufs
  <2>2. new[p] = [bufs[p] EXCEPT !.readers = bufs[p].readers - Count(tab, nums, PipeRead(p)),
                                 !.writers = bufs[p].writers - Count(tab, nums, PipeWrite(p))]
    BY Zenon DEF Dropped
  <2>3. /\ bufs[p].readers - Count(tab, nums, PipeRead(p)) \in Int
        /\ bufs[p].writers - Count(tab, nums, PipeWrite(p)) \in Int
    BY <2>1 DEF RawBuf
  <2> QED BY <2>1, <2>2, <2>3, BufFields, Zenon DEF RawBuf
<1>2. new = [p \in PipeIds |-> new[p]]
  BY Zenon DEF Dropped
<1> QED BY <1>1, <1>2 DEF Bufs

-----------------------------------------------------------------------------
(***************************************************************************)
(* The steps.                                                                 *)
(***************************************************************************)
\* Every step of Pipes is a step of Thread, or none of it.
LEMMA StepsOfThread == PipesNext => [Next]_vars
<1> SUFFICES ASSUME PipesNext, ~ UNCHANGED vars PROVE Next
  OBVIOUS
<1>1. CASE \E p \in PipeIds : sys_pipe(p)
  BY <1>1 DEF sys_pipe, WakeIf, Next
<1>2. CASE \E f \in FdNums : sys_close(f)
  BY <1>2 DEF sys_close, WakeIf, Next
<1>3. CASE \E f, g \in FdNums : sys_dup2(f, g) \/ sys_fcntl(f, g)
  BY <1>3 DEF sys_dup2, sys_fcntl, WakeIf, Next
<1>4. CASE \E f \in FdNums, count \in 1 .. MaxData : read_pipe(f, count) \/ write_pipe(f, count)
  BY Zenon, <1>4 DEF read_pipe, ReadTurn, write_pipe, Next
<1>5. CASE ReadResume
  BY <1>5 DEF ReadResume, ReadTurn, Next
<1>6. CASE fork_fds
  BY <1>6 DEF fork_fds, Next
<1>7. ASSUME NEW code \in Codes, ExitReleasing(code) PROVE Next
  <2>1. PICK drops \in BOOLEAN : Exit(code, drops)
    BY Zenon, <1>7 DEF ExitReleasing, LastEndGone
  <2> QED BY <2>1 DEF Next
<1>8. CASE Killed
  BY <1>8 DEF Killed, Next
<1>9. CASE Waiting
  <2>1. 0 \in Pids
    BY TableAssumption DEF Pids
  <2> QED BY <1>9, <2>1 DEF Waiting, Next
<1>10. CASE Tick
  BY <1>10 DEF Tick, Next
<1>11. CASE ReapCorpses
  BY <1>11 DEF ReapCorpses, Next
<1>12. CASE forget_process
  BY <1>12 DEF forget_process, WakeIf, Next
<1> QED BY <1>1, <1>2, <1>3, <1>4, <1>5, <1>6, <1>7, <1>8, <1>9, <1>10, <1>11, <1>12
        DEF PipesNext

\* The invariant in the terms of the lemmas above.
LEMMA PipesFacts ==
    ASSUME PipesInv
    PROVE  /\ threads \in [Slots -> Row] /\ current \in Slots /\ current < len
           /\ len \in Nat /\ 0 \in Slots /\ threads[current] # FreeSlot
           /\ fds \in Tables /\ pipe \in Bufs /\ CountsOf(fds, pipe)
           /\ reading \in [Slots -> PipeIds \cup {NoPipe}] /\ corpses \subseteq Slots
<1>1. threads \in [Slots -> Row] /\ current \in Slots /\ current < len /\ len \in Nat /\ 0 \in Slots
  BY TableAssumption DEF PipesInv, IInv, Good, TableTyped, Frame, Slots
<1>2. threads[current] # FreeSlot
  BY DEF PipesInv, IInv, FreeSlot
<1>3. fds \in Tables /\ reading \in [Slots -> PipeIds \cup {NoPipe}] /\ corpses \subseteq Slots
  BY DEF PipesInv, PipesTypeOK, Tables
<1>4. PipeBuf \subseteq RawBuf
  BY DEF PipeBuf, RawBuf
<1>5. pipe \in Bufs
  BY <1>4 DEF PipesInv, PipesTypeOK, Bufs
<1>6. CountsOf(fds, pipe)
  BY DEF PipesInv, CountsExact, CountsOf
<1> QED BY <1>1, <1>2, <1>3, <1>5, <1>6

-----------------------------------------------------------------------------
(***************************************************************************)
(* Sleepers.                                                                  *)
(***************************************************************************)
\* A step that puts nobody to sleep, and that wakes the sleepers or leaves them
\* empty pipes with a writer.
Emptied(p) == pipe[p].data = 0 /\ pipe[p].writers > 0

\* A step that puts nobody to sleep and fills no pipe keeps ReaderSound.
LEMMA SleepersKept ==
    ASSUME PipesInv, UNCHANGED reading,
           \A s \in Slots : threads'[s].state = "Blocked" =>
                /\ threads[s].state = "Blocked"
                /\ threads'[s].blocked_on = threads[s].blocked_on,
           \/ \A s \in Slots : threads'[s].state = "Blocked" => threads'[s].blocked_on # "Pipe"
           \/ \A p \in PipeIds : Emptied(p) => Emptied(p)'
    PROVE  ReaderSound'
<1> SUFFICES ASSUME NEW s \in Slots, reading[s] # NoPipe, threads'[s].state = "Blocked"
             PROVE  /\ threads'[s].blocked_on = "Pipe"
                    /\ pipe'[reading[s]].data = 0 /\ pipe'[reading[s]].writers > 0
  BY DEF ReaderSound
<1>1. reading[s] \in PipeIds
  BY PipesFacts
<1>2. threads[s].blocked_on = "Pipe" /\ Emptied(reading[s])
  BY DEF PipesInv, ReaderSound, Emptied
<1> QED BY <1>1, <1>2 DEF Emptied

\* Drop: a pipe that keeps a writer, or whose writers are not among the ends
\* dropped, or a wake-up.
LEMMA DropsWake ==
    ASSUME NEW bufs \in Bufs, NEW tab, NEW nums, \A fd : Count(tab, nums, fd) \in Nat,
           ~ LastEndGone(bufs, tab, nums), NEW p \in PipeIds,
           Dropped(bufs, tab, nums) \in [PipeIds -> PipeBuf], bufs[p].writers > 0
    PROVE  Dropped(bufs, tab, nums)[p].writers > 0
<1> DEFINE new == Dropped(bufs, tab, nums)
<1>1. new[p].writers = bufs[p].writers - Count(tab, nums, PipeWrite(p))
  BY DroppedFields
<1>2. new[p].writers \in Nat
  BY DEF PipeBuf
<1>3. Count(tab, nums, PipeWrite(p)) > 0 => new[p].writers # 0
  BY DEF LastEndGone
<1>4. Count(tab, nums, PipeWrite(p)) \in Nat /\ bufs[p].writers \in Int
  BY DEF Bufs, RawBuf
<1> HIDE DEF new
<1>5. new[p].writers > 0
  BY <1>1, <1>2, <1>3, <1>4
<1> QED BY <1>5 DEF new

\* wake_pipe_waiters leaves nobody asleep on a pipe, and the other sleepers as they were.
LEMMA WokenSleep ==
    ASSUME PipesInv, threads' = Woken(threads, "Pipe")
    PROVE  \A s \in Slots : threads'[s].state = "Blocked" =>
                /\ threads[s].state = "Blocked"
                /\ threads'[s].blocked_on = threads[s].blocked_on
                /\ threads'[s].blocked_on # "Pipe"
<1>1. threads \in [Slots -> Row]
  BY PipesFacts
<1> QED BY <1>1, WokenFields

\* A turn of read_pipe takes data only from a pipe nobody sleeps on.
LEMMA TurnSound ==
    ASSUME PipesInv, NEW p \in PipeIds, NEW count, ReadTurn(p, count)
    PROVE  ReaderSound'
<1>t. /\ threads \in [Slots -> Row] /\ current \in Slots /\ threads[current] # FreeSlot
      /\ pipe \in Bufs /\ reading \in [Slots -> PipeIds \cup {NoPipe}]
  BY PipesFacts
<1>s. ASSUME NEW s \in Slots, reading[s] # NoPipe, threads[s].state = "Blocked"
      PROVE  /\ threads[s].blocked_on = "Pipe" /\ reading[s] \in PipeIds
             /\ pipe[reading[s]].data = 0 /\ pipe[reading[s]].writers > 0
  BY <1>s, <1>t DEF PipesInv, ReaderSound
<1>1. CASE /\ pipe[p].data > 0
           /\ pipe' = [pipe EXCEPT ![p].data = @ - Min({count, @})]
           /\ reading' = [reading EXCEPT ![current] = NoPipe]
           /\ UNCHANGED vars
  <2>1. \A q \in PipeIds : q # p => pipe'[q] = pipe[q]
    BY <1>1, <1>t DEF Bufs
  <2>2. \A s \in Slots : reading[s] # NoPipe /\ threads[s].state = "Blocked" => reading[s] # p
    BY <1>1, <1>s
  <2> QED BY <1>1, <1>s, <1>t, <2>1, <2>2 DEF ReaderSound, vars
<1>2. CASE /\ reading' = [reading EXCEPT ![current] = NoPipe] /\ UNCHANGED <<vars, pipe>>
  BY <1>2, <1>s, <1>t DEF ReaderSound, vars
<1>3. CASE /\ pipe[p].data = 0 /\ pipe[p].writers > 0 /\ Block("Pipe")
           /\ reading' = [reading EXCEPT ![current] = p] /\ UNCHANGED pipe
  <2>1. threads' = BlockedOn(threads, current, "Pipe") /\ "Pipe" \in BlockReason
    BY <1>3 DEF Block, BlockReason
  <2>2. /\ threads'[current].blocked_on = "Pipe"
        /\ \A s \in Slots : s # current => threads'[s] = threads[s]
    BY <1>t, <2>1, BlockedFields
  <2> QED BY <1>3, <1>s, <1>t, <2>2 DEF ReaderSound
<1> QED BY <1>1, <1>2, <1>3 DEF ReadTurn

\* Termination puts nobody to sleep.
LEMMA TerminatedSleep ==
    ASSUME NEW ths \in [Slots -> Row], NEW idx \in Slots, ths[idx] # FreeSlot,
           NEW status \in Statuses, NEW signal \in Signals \cup {NoSignal},
           NEW new, new = Terminated(ths, idx, status, signal)
    PROVE  \A s \in Slots : new[s].state = "Blocked" =>
              ths[s].state = "Blocked" /\ new[s].blocked_on = ths[s].blocked_on
BY TerminatedFields

\* A drop of ends nums of a table, with the wake-up its Drop makes.
LEMMA DropSound ==
    ASSUME PipesInv, PipesTypeOK', NEW bufs \in Bufs, NEW tab, NEW nums,
           \A fd : Count(tab, nums, fd) \in Nat, pipe' = Dropped(bufs, tab, nums),
           \A p \in PipeIds : bufs[p].data = pipe[p].data /\ bufs[p].writers >= pipe[p].writers,
           WakeIf(LastEndGone(bufs, tab, nums)), UNCHANGED reading
    PROVE  ReaderSound'
<1>1. CASE LastEndGone(bufs, tab, nums)
  <2>1. threads' = Woken(threads, "Pipe")
    BY <1>1 DEF WakeIf, Wake
  <2> QED BY <2>1, WokenSleep, SleepersKept
<1>2. CASE ~ LastEndGone(bufs, tab, nums)
  <2>1. UNCHANGED threads
    BY <1>2 DEF WakeIf, vars
  <2>2. ASSUME NEW p \in PipeIds, Emptied(p) PROVE Emptied(p)'
    <3>1. bufs[p].writers > 0 /\ bufs[p].data = 0
      <4>1. bufs[p].writers \in Int /\ pipe[p].writers \in Nat
        BY DEF Bufs, RawBuf, PipesInv, PipesTypeOK, PipeBuf
      <4> QED BY <2>2, <4>1 DEF Emptied
    <3>2. Dropped(bufs, tab, nums) \in [PipeIds -> PipeBuf]
      BY DEF PipesTypeOK
    <3>3. pipe'[p].writers > 0
      BY <1>2, <3>1, <3>2, DropsWake
    <3>4. pipe'[p].data = bufs[p].data
      BY DroppedFields
    <3> QED BY <3>1, <3>3, <3>4 DEF Emptied
  <2> QED BY <2>1, <2>2, SleepersKept
<1> QED BY <1>1, <1>2

\* Every step keeps ReaderSound: whoever fills a pipe or drops its last writer wakes its readers.
LEMMA ReaderNext ==
    ASSUME PipesInv, PipesNext, PipesTypeOK', CountsEnds
    PROVE  ReaderSound' 
<1>t. /\ threads \in [Slots -> Row] /\ current \in Slots /\ threads[current] # FreeSlot
      /\ fds \in Tables /\ pipe \in Bufs /\ reading \in [Slots -> PipeIds \cup {NoPipe}]
      /\ corpses \subseteq Slots
  BY PipesFacts
<1>w. ASSUME Wake("Pipe"), UNCHANGED reading PROVE ReaderSound'
  BY <1>w, WokenSleep, SleepersKept DEF Wake
<1>k. ASSUME UNCHANGED <<pipe, reading>>,
             \A s \in Slots : threads'[s].state = "Blocked" =>
                threads[s].state = "Blocked" /\ threads'[s].blocked_on = threads[s].blocked_on
      PROVE  ReaderSound'
  BY <1>k, SleepersKept DEF Emptied
<1>1. ASSUME NEW p \in PipeIds, sys_pipe(p) PROVE ReaderSound'
  <2>1. UNCHANGED reading
    BY <1>1 DEF sys_pipe
  <2>2. CASE UNCHANGED vars /\ pipe' = [pipe EXCEPT ![p] = [data |-> 0, readers |-> 1, writers |-> 1]]
    <3>1. \A q \in PipeIds : Emptied(q) => Emptied(q)'
      BY <1>t, <2>2 DEF Emptied, Bufs
    <3> QED BY <2>1, <2>2, <3>1, SleepersKept DEF vars
  <2> QED BY <1>1, <1>w, <2>1, <2>2 DEF sys_pipe, WakeIf
<1>2. ASSUME NEW f \in FdNums, sys_close(f) PROVE ReaderSound'
  <2>1. /\ pipe' = Dropped(pipe, table, {f}) /\ WakeIf(LastEndGone(pipe, table, {f}))
        /\ UNCHANGED reading
    BY <1>2 DEF sys_close
  <2> DEFINE nums == {f}
  <2>2. \A fd : Count(table, nums, fd) \in Nat
    BY Zenon DEF CountsEnds
  <2>3. \A p \in PipeIds : pipe[p].data = pipe[p].data /\ pipe[p].writers >= pipe[p].writers
    BY <1>t DEF Bufs, RawBuf
  <2>4. pipe' = Dropped(pipe, table, nums) /\ WakeIf(LastEndGone(pipe, table, nums))
    BY <2>1
  <2> HIDE DEF nums
  <2> QED BY Zenon, <1>t, <2>1, <2>2, <2>3, <2>4, DropSound
<1>3. ASSUME NEW f \in FdNums, NEW g \in FdNums, sys_dup2(f, g) PROVE ReaderSound'
  <2> DEFINE bufs == Cloned(pipe, table, {f})
             nums == {g}
  <2>1. pipe' = Dropped(bufs, table, nums) /\ WakeIf(LastEndGone(bufs, table, nums))
        /\ UNCHANGED reading
    BY <1>3 DEF sys_dup2
  <2>2. \A fd : Count(table, nums, fd) \in Nat /\ Count(table, {f}, fd) \in Nat
    BY Zenon DEF CountsEnds
  <2>3. /\ bufs \in Bufs
        /\ \A p \in PipeIds : bufs[p].data = pipe[p].data /\ bufs[p].writers >= pipe[p].writers
    <3> DEFINE from == {f}
    <3>1. bufs = Cloned(pipe, table, from) /\ \A fd : Count(table, from, fd) \in Nat
      BY <2>2
    <3> HIDE DEF from, bufs
    <3>2. /\ bufs \in Bufs
          /\ \A p \in PipeIds : /\ bufs[p].data = pipe[p].data
                                /\ bufs[p].writers = pipe[p].writers + Count(table, from, PipeWrite(p))
      BY <1>t, <3>1, ClonedFields
    <3>3. \A p \in PipeIds : pipe[p].writers \in Int /\ Count(table, from, PipeWrite(p)) \in Nat
      BY <1>t, <3>1 DEF Bufs, RawBuf
    <3> QED BY <3>2, <3>3
  <2> HIDE DEF nums, bufs
  <2> QED BY <2>1, <2>2, <2>3, DropSound
<1>4. ASSUME NEW f \in FdNums, NEW start \in FdNums, sys_fcntl(f, start) PROVE ReaderSound'
  <2> DEFINE from == {f}
  <2>1. pipe' = Cloned(pipe, table, from) /\ UNCHANGED <<vars, reading>>
    BY <1>4 DEF sys_fcntl
  <2>2. \A fd : Count(table, from, fd) \in Nat
    BY Zenon DEF CountsEnds
  <2> HIDE DEF from
  <2>3. \A p \in PipeIds : /\ pipe'[p].data = pipe[p].data
                          /\ pipe'[p].writers = pipe[p].writers + Count(table, from, PipeWrite(p))
    BY <1>t, <2>1, <2>2, ClonedFields
  <2>4. \A p \in PipeIds : pipe[p].writers \in Int /\ Count(table, from, PipeWrite(p)) \in Nat
    BY <1>t, <2>2 DEF Bufs, RawBuf
  <2>5. \A p \in PipeIds : Emptied(p) => Emptied(p)'
    BY <2>3, <2>4 DEF Emptied
  <2> QED BY <2>1, <2>5, SleepersKept DEF vars
<1>5. ASSUME NEW f \in FdNums, NEW count \in 1 .. MaxData, read_pipe(f, count) PROVE ReaderSound'
  <2>1. table[f] \in Fd /\ table[f].kind = "PipeRead" /\ ReadTurn(table[f].of, count)
    BY <1>5, <1>t DEF read_pipe, table, Tables
  <2>2. table[f].of \in PipeIds
    BY <2>1 DEF Fd, NoFd, PipeRead, PipeWrite
  <2> QED BY <2>1, <2>2, TurnSound
<1>6. CASE ReadResume
  <2>1. PICK count \in 1 .. MaxData : ReadTurn(reading[current], count)
    BY <1>6 DEF ReadResume
  <2>2. reading[current] \in PipeIds
    BY <1>6, <1>t DEF ReadResume
  <2> QED BY <2>1, <2>2, TurnSound
<1>7. ASSUME NEW f \in FdNums, NEW count \in 1 .. MaxData, write_pipe(f, count) PROVE ReaderSound'
  BY <1>7, <1>w DEF write_pipe
<1>8. CASE fork_fds
  <2>1. /\ pipe' = Cloned(pipe, table, FdNums) /\ UNCHANGED reading
        /\ threads' = [threads EXCEPT ![len] = NewThread(next_pid, threads[current].pid, TRUE)]
    BY <1>8 DEF fork_fds, Fork, push_thread
  <2>2. \A s \in Slots : threads'[s].state = "Blocked" =>
             threads[s].state = "Blocked" /\ threads'[s].blocked_on = threads[s].blocked_on
    BY <1>t, <2>1 DEF NewThread
  <2>3. \A fd : Count(table, FdNums, fd) \in Nat
    BY Zenon DEF CountsEnds
  <2>4. \A p \in PipeIds : /\ pipe'[p].data = pipe[p].data
                          /\ pipe'[p].writers = pipe[p].writers + Count(table, FdNums, PipeWrite(p))
    BY <1>t, <2>1, <2>3, ClonedFields
  <2>5. \A p \in PipeIds : pipe[p].writers \in Int /\ Count(table, FdNums, PipeWrite(p)) \in Nat
    BY <1>t, <2>3 DEF Bufs, RawBuf
  <2>6. \A p \in PipeIds : Emptied(p) => Emptied(p)'
    BY <2>4, <2>5 DEF Emptied
  <2> QED BY Zenon, <2>1, <2>2, <2>6, SleepersKept
<1>9. ASSUME NEW code \in Codes, ExitReleasing(code) PROVE ReaderSound'
  <2> DEFINE gone == LastEndGone(pipe, table, FdNums)
             ths  == IF gone THEN Woken(threads, "Pipe") ELSE threads
  <2>1. /\ threads' = Terminated(ths, current, code, NoSignal)
        /\ pipe' = Dropped(pipe, table, FdNums) /\ UNCHANGED reading
    BY Zenon, <1>9 DEF ExitReleasing, Exit
  <2>2. /\ ths \in [Slots -> Row] /\ ths[current] # FreeSlot
        /\ \A s \in Slots : ths[s].state = "Blocked" =>
              /\ threads[s].state = "Blocked" /\ ths[s].blocked_on = threads[s].blocked_on
              /\ gone => ths[s].blocked_on # "Pipe"
    <3>1. CASE gone
      <4>1. ths = Woken(threads, "Pipe")
        BY <3>1
      <4> HIDE DEF gone, ths
      <4> QED BY <1>t, <4>1, WokenFields DEF KeepsFamily
    <3>2. CASE ~ gone
      BY <1>t, <3>2
    <3> QED BY Zenon, <3>1, <3>2
  <2>3. code \in Statuses
    BY DEF Statuses
  <2> HIDE DEF ths
  <2>4. \A s \in Slots : threads'[s].state = "Blocked" =>
             /\ threads[s].state = "Blocked" /\ threads'[s].blocked_on = threads[s].blocked_on
             /\ gone => threads'[s].blocked_on # "Pipe"
    BY SMTT(20), <1>t, <2>1, <2>2, <2>3, TerminatedSleep
  <2>5. CASE gone
    BY Zenon, <2>1, <2>4, <2>5, SleepersKept
  <2>6. CASE ~ gone
    <3>1. \A fd : Count(table, FdNums, fd) \in Nat
      BY Zenon DEF CountsEnds
    <3>2. Dropped(pipe, table, FdNums) \in [PipeIds -> PipeBuf]
      BY <2>1 DEF PipesTypeOK
    <3>3. \A p \in PipeIds : pipe'[p].data = pipe[p].data
      BY SMTT(20), <1>t, <2>1, <3>1, DroppedFields
    <3>4. \A p \in PipeIds : pipe[p].writers > 0 => pipe'[p].writers > 0
      BY Zenon, <1>t, <2>1, <2>6, <3>1, <3>2, DropsWake
    <3>5. \A p \in PipeIds : Emptied(p) => Emptied(p)'
      BY <3>3, <3>4 DEF Emptied
    <3> QED BY Zenon, <2>1, <2>4, <3>5, SleepersKept
  <2> QED BY <2>5, <2>6
<1>10. CASE Killed
  <2>1. UNCHANGED <<pipe, reading>>
    BY <1>10 DEF Killed, pipeVars
  <2>2. PICK idx \in Slots, sig \in Signals : /\ threads[idx] # FreeSlot /\ 128 + sig \in Statuses
                                             /\ threads' = Terminated(threads, idx, 128 + sig, sig)
    <3>1. CASE Fault
      <4>1. threads' = Terminated(threads, current, 128 + SIGSEGV, SIGSEGV)
        BY <3>1 DEF Fault
      <4>2. SIGSEGV \in Signals /\ 128 + SIGSEGV \in Statuses
        BY DEF SIGSEGV, Signals, Statuses
      <4> QED BY <1>t, <4>1, <4>2
    <3>2. ASSUME NEW pid \in Pids, NEW sig \in Sent, Kill(pid, sig)
          PROVE  \E idx \in Slots : /\ threads[idx] # FreeSlot
                                    /\ threads' = Terminated(threads, idx, 128 + sig, sig)
      <4>1. PICK idx \in Slots : /\ is_alive(threads[idx].state)
                                 /\ threads' = Terminated(threads, idx, 128 + sig, sig)
        BY Zenon, <3>2 DEF Kill, KillTargets
      <4>2. threads[idx] # FreeSlot
        BY <4>1 DEF is_alive, FreeSlot
      <4> QED BY <4>1, <4>2
    <3>3. ASSUME NEW pid \in Pids, NEW sig \in Sent, Kill(pid, sig)
          PROVE  sig \in Signals /\ 128 + sig \in Statuses
      BY <3>3, TableAssumption DEF Kill, Signals, Statuses
    <3> QED BY <1>10, <3>1, <3>2, <3>3 DEF Killed
  <2>3. \A s \in Slots : threads'[s].state = "Blocked" =>
             threads[s].state = "Blocked" /\ threads'[s].blocked_on = threads[s].blocked_on
    BY <1>t, <2>2, TerminatedSleep
  <2> QED BY <1>k, <2>1, <2>3
<1>11. CASE Waiting
  <2>1. UNCHANGED <<pipe, reading>> /\ reading[current] = NoPipe
    <3>1. WaitResume => reading[current] = NoPipe
      BY <1>t DEF WaitResume, PipesInv, OneLoop
    <3> QED BY <1>11, <3>1 DEF Waiting, Ready, pipeVars
  <2>2. PICK want : try_collect_or_block(want)
    BY <1>11 DEF Waiting, WaitResume, Wait4
  <2>3. CASE Collect(want)
    <3>1. PICK z \in Slots : threads[z].state = "Zombie" /\ threads' = Collected(threads, z)
      BY Zenon, <2>3 DEF Collect, MyZombies
    <3>2. \A s \in Slots : threads'[s].state = "Blocked" => threads'[s] = threads[s]
      BY <1>t, <3>1, CollectedFields
    <3> QED BY <1>k, <2>1, <3>2
  <2>4. CASE WouldBlock(want)
    <3>1. threads' = BlockedOn(threads, current, "Child") /\ "Child" \in BlockReason
      BY <2>4 DEF WouldBlock, BlockReason
    <3>2. \A s \in Slots : s # current => threads'[s] = threads[s]
      BY <1>t, <3>1, BlockedFields
    <3> QED BY Zenon, <2>1, <3>2 DEF PipesInv, ReaderSound
  <2>5. CASE NoChildren(want)
    BY Zenon, <1>k, <2>1, <2>5 DEF NoChildren
  <2> QED BY <2>2, <2>3, <2>4, <2>5 DEF try_collect_or_block
<1>12. CASE Tick
  BY <1>12, <1>k DEF Tick, TimerTick, pipeVars
<1>13. CASE ReapCorpses
  <2>1. UNCHANGED <<pipe, reading>> /\ threads' = Reaped(threads, current)
    BY <1>13 DEF ReapCorpses, Reap
  <2>2. \A s \in Slots : threads'[s].state = "Blocked" =>
             threads[s].state = "Blocked" /\ threads'[s].blocked_on = threads[s].blocked_on
    BY <1>t, <2>1, ReapedFields
  <2> QED BY Zenon, <1>k, <2>1, <2>2
<1>14. CASE forget_process
  <2> DEFINE tab == fds[Min(corpses)]
  <2>1. /\ pipe' = Dropped(pipe, tab, FdNums) /\ WakeIf(LastEndGone(pipe, tab, FdNums))
        /\ UNCHANGED reading
    BY <1>14 DEF forget_process
  <2>2. \A fd : Count(tab, FdNums, fd) \in Nat
    BY Zenon DEF CountsEnds
  <2>3. \A p \in PipeIds : pipe[p].data = pipe[p].data /\ pipe[p].writers >= pipe[p].writers
    BY <1>t DEF Bufs, RawBuf
  <2> HIDE DEF tab
  <2> QED BY Zenon, <1>t, <2>1, <2>2, <2>3, DropSound
<1> QED BY <1>1, <1>2, <1>3, <1>4, <1>5, <1>6, <1>7, <1>8, <1>9, <1>10, <1>11, <1>12, <1>13, <1>14
        DEF PipesNext

\* A process enters the loop of read_pipe or of wait4, never both.
LEMMA LoopsNext == ASSUME PipesInv, PipesNext PROVE OneLoop'
<1>t. /\ current \in Slots /\ reading \in [Slots -> PipeIds \cup {NoPipe}]
      /\ waiting \in [Slots -> Pids \cup {NoPid}]
  BY Zenon, PipesFacts DEF PipesInv, IInv, Good, Waits
<1>s. \A s \in Slots : reading[s] # NoPipe => waiting[s] = NoPid
  BY DEF PipesInv, OneLoop
<1>0. CASE UNCHANGED <<reading, waiting>>
  BY <1>0, <1>s DEF OneLoop
<1>1. ASSUME NEW p, NEW count, ReadTurn(p, count), waiting[current] = NoPid PROVE OneLoop'
  <2>1. UNCHANGED waiting
    BY <1>1 DEF ReadTurn, Block, vars
  <2>2. \A s \in Slots : s # current => reading'[s] = reading[s]
    BY <1>1, <1>t DEF ReadTurn
  <2> QED BY <1>1, <1>s, <2>1, <2>2 DEF OneLoop
<1>2. ASSUME NEW f \in FdNums, NEW count \in 1 .. MaxData, read_pipe(f, count) PROVE OneLoop'
  BY <1>1, <1>2 DEF read_pipe, Ready, InUser, Outside
<1>3. CASE ReadResume
  <2>1. waiting[current] = NoPid
    BY <1>3, <1>s, <1>t DEF ReadResume
  <2> QED BY <1>1, <1>3, <2>1 DEF ReadResume
<1>4. CASE Waiting
  <2>1. UNCHANGED reading /\ reading[current] = NoPipe
    BY <1>4, <1>s, <1>t DEF Waiting, WaitResume, Ready, pipeVars
  <2>2. \A s \in Slots : s # current => waiting'[s] = waiting[s]
    BY Zenon, <1>4, <1>t DEF Waiting, WaitResume, Wait4, try_collect_or_block, Collect, WouldBlock, NoChildren
  <2> QED BY <1>s, <2>1, <2>2 DEF OneLoop
<1>w. ASSUME NEW gone, WakeIf(gone) PROVE UNCHANGED waiting
  BY <1>w DEF WakeIf, Wake, vars
<1>5. ASSUME NEW p \in PipeIds, sys_pipe(p) PROVE OneLoop'
  BY Zenon, <1>0, <1>5, <1>w DEF sys_pipe, vars
<1>6. ASSUME NEW f \in FdNums, sys_close(f) PROVE OneLoop'
  BY <1>0, <1>6, <1>w DEF sys_close
<1>7. ASSUME NEW f \in FdNums, NEW g \in FdNums, sys_dup2(f, g) \/ sys_fcntl(f, g) PROVE OneLoop'
  BY <1>0, <1>7, <1>w DEF sys_dup2, sys_fcntl, vars
<1>8. ASSUME NEW f \in FdNums, NEW count \in 1 .. MaxData, write_pipe(f, count) PROVE OneLoop'
  BY <1>0, <1>8 DEF write_pipe, Wake
<1>9. CASE fork_fds \/ (\E code \in Codes : ExitReleasing(code)) \/ Killed
  BY Zenon, <1>0, <1>9 DEF fork_fds, Fork, ExitReleasing, Exit, Killed, Fault, Kill, pipeVars
<1>10. CASE Tick \/ ReapCorpses
  BY <1>0, <1>10 DEF Tick, TimerTick, ReapCorpses, Reap, pipeVars
<1>11. CASE forget_process
  BY <1>0, <1>11, <1>w DEF forget_process
<1> QED BY <1>2, <1>3, <1>4, <1>5, <1>6, <1>7, <1>8, <1>9, <1>10, <1>11 DEF PipesNext

\* The slots that fork will use stay without descriptors.
LEMMA FreeNext == ASSUME PipesInv, PipesNext PROVE FreeTables'
<1>t. /\ fds \in Tables /\ current \in Slots /\ current < len /\ len \in Nat
      /\ \A s \in Slots : s >= len => fds[s] = Empty
  BY PipesFacts DEF PipesInv, FreeTables
<1>n. Slots \subseteq Nat
  BY TableAssumption DEF Slots
<1>0. CASE UNCHANGED <<fds, len>>
  BY <1>0, <1>t DEF FreeTables
<1>w. ASSUME NEW gone, WakeIf(gone) PROVE UNCHANGED len
  BY <1>w DEF WakeIf, Wake, vars
<1>1. ASSUME UNCHANGED len, \A s \in Slots : s # current => fds'[s] = fds[s] PROVE FreeTables'
  BY <1>1, <1>n, <1>t DEF FreeTables
<1>2. ASSUME NEW p \in PipeIds, sys_pipe(p) PROVE FreeTables'
  <2>1. UNCHANGED len
    BY Zenon, <1>2, <1>w DEF sys_pipe, vars
  <2>2. \A s \in Slots : s # current => fds'[s] = fds[s]
    BY Zenon, <1>2, <1>t DEF sys_pipe, Tables
  <2> QED BY <1>1, <2>1, <2>2
<1>3. ASSUME NEW f \in FdNums, sys_close(f) PROVE FreeTables'
  <2>1. UNCHANGED len
    BY Zenon, <1>3, <1>w DEF sys_close
  <2>2. \A s \in Slots : s # current => fds'[s] = fds[s]
    BY Zenon, <1>3, <1>t DEF sys_close, Tables
  <2> QED BY <1>1, <2>1, <2>2
<1>4. ASSUME NEW f \in FdNums, NEW g \in FdNums, sys_dup2(f, g) \/ sys_fcntl(f, g) PROVE FreeTables'
  <2>1. UNCHANGED len
    BY <1>4, <1>w DEF sys_dup2, sys_fcntl, vars
  <2>2. \A s \in Slots : s # current => fds'[s] = fds[s]
    BY <1>4, <1>t DEF sys_dup2, sys_fcntl, Tables
  <2> QED BY <1>1, <2>1, <2>2
<1>5. CASE fork_fds
  <2>1. len' = len + 1 /\ fds' = [fds EXCEPT ![len] = table]
    BY <1>5 DEF fork_fds, Fork, push_thread
  <2> QED BY <1>n, <1>t, <2>1 DEF FreeTables, Tables
<1>6. ASSUME NEW code \in Codes, ExitReleasing(code) PROVE FreeTables'
  BY <1>1, <1>6, <1>t DEF ExitReleasing, Exit, Tables
<1>7. CASE forget_process
  <2>1. UNCHANGED len
    BY <1>7, <1>w DEF forget_process
  <2>2. fds' = [fds EXCEPT ![Min(corpses)] = Empty]
    BY <1>7 DEF forget_process, Empty
  <2> QED BY <1>t, <2>1, <2>2 DEF FreeTables, Tables
<1>8. CASE ReadResume \/ \E f \in FdNums, count \in 1 .. MaxData : read_pipe(f, count)
  BY Zenon, <1>0, <1>8 DEF ReadResume, read_pipe, ReadTurn, Block, vars
<1>9. ASSUME NEW f \in FdNums, NEW count \in 1 .. MaxData, write_pipe(f, count) PROVE FreeTables'
  BY <1>0, <1>9 DEF write_pipe, Wake
<1>10. CASE Killed \/ Waiting \/ Tick \/ ReapCorpses
  BY Zenon, <1>0, <1>10 DEF Killed, Fault, Kill, Waiting, WaitResume, Wait4, try_collect_or_block, Tick,
                     TimerTick, ReapCorpses, Reap, pipeVars
<1> QED BY <1>2, <1>3, <1>4, <1>5, <1>6, <1>7, <1>8, <1>9, <1>10 DEF PipesNext

-----------------------------------------------------------------------------
(***************************************************************************)
(* Least elements.                                                            *)
(***************************************************************************)
Below == {p \in Nat \X Nat : p[1] < p[2]}

\* Every non-empty set of naturals has a least element.
LEMMA LeastNatural ==
    ASSUME NEW T, T \subseteq Nat, T # {}
    PROVE  \E n \in T : \A m \in T : n <= m
<1>1. IsWellFoundedOn(Below, Nat)
  BY NatLessThanWellFounded, Zenon DEF OpToRel, Below
<1>2. PICK n \in T : \A m \in T : ~ (<<m, n>> \in Below)
  BY Zenon, <1>1, WFMin
<1>3. n \in Nat /\ \A m \in T : m \in Nat /\ ~ (m < n)
  BY Zenon, <1>2 DEF Below
<1>4. \A m \in T : n <= m
  BY <1>3
<1>. QED BY <1>2, <1>4

\* Min of a non-empty set of naturals is its least element.
LEMMA MinIsLeast ==
    ASSUME NEW T, T \subseteq Nat, T # {}
    PROVE  Min(T) \in T /\ \A m \in T : Min(T) <= m
BY Zenon, LeastNatural DEF Min

\* Min of two naturals.
LEMMA MinOfTwo ==
    ASSUME NEW a \in Nat, NEW b \in Nat
    PROVE  /\ Min({a, b}) \in {a, b}
           /\ Min({a, b}) <= a /\ Min({a, b}) <= b
BY MinIsLeast

-----------------------------------------------------------------------------
(***************************************************************************)
(* Counting ends.                                                             *)
(***************************************************************************)
Same(a, b) == IF a = b THEN 1 ELSE 0

\* There are finitely many ends.
LEMMA EndsFinite ==
    ASSUME NEW tables, NEW fd
    PROVE  IsFiniteSet(EndsIn(tables, fd)) /\ Cardinality(EndsIn(tables, fd)) \in Nat
<1>1. IsFiniteSet(Slots) /\ IsFiniteSet(FdNums)
  <2>1. 0 \in Int /\ MaxThreads - 1 \in Int /\ MAX_FDS - 1 \in Int
    BY TableAssumption, PipesAssumption
  <2> QED BY <2>1, FS_Interval DEF Slots, FdNums
<1>2. IsFiniteSet(Slots \X FdNums)
  BY <1>1, FS_Product
<1>3. EndsIn(tables, fd) \in SUBSET (Slots \X FdNums)
  BY DEF EndsIn
<1> QED BY <1>2, <1>3, FS_Subset, FS_CardinalityType

\* An end stored in place of another.
LEMMA OneEnd ==
    ASSUME NEW tables \in Tables, NEW s \in Slots, NEW f \in FdNums, NEW end \in Fd, NEW fd,
           NEW next, next = [tables EXCEPT ![s][f] = end]
    PROVE  /\ next \in Tables
           /\ Cardinality(EndsIn(next, fd)) =
                 Cardinality(EndsIn(tables, fd)) - Same(tables[s][f], fd) + Same(end, fd)
<1> DEFINE here == EndsIn(tables, fd)
           e    == <<s, f>>
<1>1. next \in Tables
  BY DEF Tables
<1>2. /\ next[s][f] = end
      /\ \A d \in Slots \X FdNums : d # e => next[d[1]][d[2]] = tables[d[1]][d[2]]
  BY DEF Tables
<1>3. e \in Slots \X FdNums /\ (e \in here <=> tables[s][f] = fd)
  BY DEF EndsIn
<1>4. IsFiniteSet(here) /\ Cardinality(here) \in Nat
  BY EndsFinite
<1>5. CASE end = fd
  <2>1. EndsIn(next, fd) = here \cup {e}
    BY <1>2, <1>3, <1>5 DEF EndsIn
  <2>2. Cardinality(here \cup {e}) = IF e \in here THEN Cardinality(here) ELSE Cardinality(here) + 1
    BY Zenon, <1>4, FS_AddElement
  <2> HIDE DEF here, e
  <2>3. Cardinality(EndsIn(next, fd)) = Cardinality(here \cup {e})
    BY <2>1, Zenon
  <2>4. Cardinality(EndsIn(next, fd)) = Cardinality(here) - Same(tables[s][f], fd) + Same(end, fd)
    BY <1>3, <1>4, <1>5, <2>2, <2>3 DEF Same
  <2> QED BY <1>1, <2>4, Zenon DEF here
<1>6. CASE end # fd
  <2>1. EndsIn(next, fd) = here \ {e}
    BY <1>2, <1>3, <1>6 DEF EndsIn
  <2>2. Cardinality(here \ {e}) = IF e \in here THEN Cardinality(here) - 1 ELSE Cardinality(here)
    BY Zenon, <1>4, FS_RemoveElement
  <2> HIDE DEF here, e
  <2>3. Cardinality(EndsIn(next, fd)) = Cardinality(here \ {e})
    BY <2>1, Zenon
  <2>4. Cardinality(EndsIn(next, fd)) = Cardinality(here) - Same(tables[s][f], fd) + Same(end, fd)
    BY <1>3, <1>4, <1>6, <2>2, <2>3 DEF Same
  <2> QED BY <1>1, <2>4, Zenon DEF here
<1> QED BY <1>5, <1>6

\* Of one descriptor there is one end, or none.
LEMMA CountOne ==
    ASSUME NEW tab, NEW f, NEW fd
    PROVE  Count(tab, {f}, fd) = Same(tab[f], fd)
<1>1. CASE tab[f] = fd
  <2>1. {g \in {f} : tab[g] = fd} = {f}
    BY <1>1
  <2> QED BY <1>1, <2>1, FS_Singleton DEF Count, Same
<1>2. CASE tab[f] # fd
  <2>1. {g \in {f} : tab[g] = fd} = {}
    BY <1>2
  <2> QED BY <1>2, <2>1, FS_EmptySet DEF Count, Same
<1> QED BY <1>1, <1>2

\* The ends in a table are a natural number.
LEMMA CountNat ==
    ASSUME NEW tab, NEW fd
    PROVE  Count(tab, FdNums, fd) \in Nat
<1>1. IsFiniteSet(FdNums)
  <2>1. 0 \in Int /\ MAX_FDS - 1 \in Int
    BY PipesAssumption
  <2> QED BY <2>1, FS_Interval DEF FdNums
<1>2. {f \in FdNums : tab[f] = fd} \in SUBSET FdNums
  OBVIOUS
<1> QED BY <1>1, <1>2, FS_Subset, FS_CardinalityType DEF Count

\* A whole table emptied, or filled from empty.
LEMMA OneTable ==
    ASSUME NEW tables \in Tables, NEW without \in Tables, NEW s \in Slots,
           without[s] = Empty, \A t \in Slots : t # s => without[t] = tables[t],
           NEW fd, fd # NoFd
    PROVE  Cardinality(EndsIn(tables, fd)) =
              Cardinality(EndsIn(without, fd)) + Count(tables[s], FdNums, fd)
<1> DEFINE nums == {f \in FdNums : tables[s][f] = fd}
           own  == {s} \X nums
           rest == EndsIn(without, fd)
<1>1. EndsIn(tables, fd) = rest \cup own
  BY DEF EndsIn, Empty, Tables
<1>2. rest \cap own = {}
  BY DEF EndsIn, Empty
<1>3. IsFiniteSet(rest) /\ Cardinality(rest) \in Nat
  BY EndsFinite
<1>4. IsFiniteSet(nums) /\ Cardinality(nums) \in Nat
  <2>1. IsFiniteSet(FdNums)
    <3>1. 0 \in Int /\ MAX_FDS - 1 \in Int
      BY PipesAssumption
    <3> QED BY <3>1, FS_Interval DEF FdNums
  <2> QED BY Zenon, <2>1, FS_Subset, FS_CardinalityType
<1>5. IsFiniteSet(own) /\ Cardinality(own) = Cardinality(nums)
  <2>1. IsFiniteSet({s}) /\ Cardinality({s}) = 1
    BY Zenon, FS_Singleton
  <2> HIDE DEF nums
  <2>2. IsFiniteSet(own) /\ Cardinality(own) = 1 * Cardinality(nums)
    BY Zenon, <1>4, <2>1, FS_Product
  <2> QED BY <1>4, <2>2
<1>6. Cardinality(nums) = Count(tables[s], FdNums, fd)
  BY DEF Count
<1> HIDE DEF own, rest, nums
<1>7. Cardinality(rest \cup own) = Cardinality(rest) + Cardinality(own) - Cardinality(rest \cap own)
  BY Zenon, <1>3, <1>5, FS_Union
<1>8. Cardinality(rest \cap own) = 0
  BY <1>2, FS_EmptySet, Zenon
<1>9. Cardinality(rest \cup own) = Cardinality(rest) + Cardinality(nums)
  BY <1>3, <1>4, <1>5, <1>7, <1>8
<1> QED BY <1>1, <1>6, <1>9, Zenon DEF rest

-----------------------------------------------------------------------------
(***************************************************************************)
(* What each way to make or to drop ends does to the counters.                *)
(***************************************************************************)
LEMMA CountTypes ==
    ASSUME NEW tab, NEW f
    PROVE  \A fd : Count(tab, {f}, fd) \in Nat /\ Count(tab, FdNums, fd) \in Nat
<1> SUFFICES ASSUME NEW fd PROVE Count(tab, {f}, fd) \in Nat /\ Count(tab, FdNums, fd) \in Nat
  OBVIOUS
<1>1. Count(tab, {f}, fd) \in Nat
  BY CountOne DEF Same
<1> QED BY <1>1, CountNat

\* The ends of pipes are descriptors, and all different.
LEMMA EndsOfPipes ==
    ASSUME NEW p \in PipeIds
    PROVE  /\ PipeRead(p) \in Fd /\ PipeWrite(p) \in Fd /\ NoFd \in Fd
           /\ PipeRead(p) # NoFd /\ PipeWrite(p) # NoFd /\ PipeRead(p) # PipeWrite(p)
           /\ \A q : /\ PipeRead(p) = PipeRead(q) <=> p = q
                    /\ PipeWrite(p) = PipeWrite(q) <=> p = q
                    /\ PipeRead(p) # PipeWrite(q)
BY Zenon DEF Fd, PipeRead, PipeWrite, NoFd

\* The counters are naturals.
LEMMA CountersNat ==
    ASSUME NEW tables, NEW bufs \in Bufs, CountsOf(tables, bufs)
    PROVE  bufs \in [PipeIds -> PipeBuf]
<1>1. ASSUME NEW p \in PipeIds PROVE bufs[p] \in PipeBuf
  <2>1. bufs[p].readers \in Nat /\ bufs[p].writers \in Nat
    BY Zenon, EndsFinite DEF CountsOf
  <2>2. bufs[p] \in RawBuf
    BY DEF Bufs
  <2> QED BY <2>1, <2>2 DEF PipeBuf, RawBuf
<1> QED BY <1>1 DEF Bufs

\* Of one end there is one more, and one less.
OneMore(new, bufs, end) ==
    /\ new \in Bufs
    /\ \A p \in PipeIds :
          /\ new[p].readers = bufs[p].readers + Same(end, PipeRead(p))
          /\ new[p].writers = bufs[p].writers + Same(end, PipeWrite(p))

OneLess(new, bufs, end) ==
    /\ new \in Bufs
    /\ \A p \in PipeIds :
          /\ new[p].readers = bufs[p].readers - Same(end, PipeRead(p))
          /\ new[p].writers = bufs[p].writers - Same(end, PipeWrite(p))

\* Clone of one end.
LEMMA CloneOne ==
    ASSUME NEW bufs \in Bufs, NEW tab, NEW f, NEW nums,
           \A fd : Count(tab, nums, fd) = Same(tab[f], fd),
           NEW new, new = Cloned(bufs, tab, nums)
    PROVE  OneMore(new, bufs, tab[f])
<1>1. \A fd : Count(tab, nums, fd) \in Nat
  BY DEF Same
<1>2. /\ new \in Bufs
      /\ \A p \in PipeIds :
            /\ new[p].data = bufs[p].data
            /\ new[p].readers = bufs[p].readers + Count(tab, nums, PipeRead(p))
            /\ new[p].writers = bufs[p].writers + Count(tab, nums, PipeWrite(p))
  BY SMTT(20), <1>1, ClonedFields
<1> QED BY Zenon, <1>2 DEF OneMore

\* Drop of one end.
LEMMA DropOne ==
    ASSUME NEW bufs \in Bufs, NEW tab, NEW f, NEW nums,
           \A fd : Count(tab, nums, fd) = Same(tab[f], fd),
           NEW new, new = Dropped(bufs, tab, nums)
    PROVE  OneLess(new, bufs, tab[f])
<1>1. \A fd : Count(tab, nums, fd) \in Nat
  BY DEF Same
<1>2. /\ new \in Bufs
      /\ \A p \in PipeIds :
            /\ new[p].data = bufs[p].data
            /\ new[p].readers = bufs[p].readers - Count(tab, nums, PipeRead(p))
            /\ new[p].writers = bufs[p].writers - Count(tab, nums, PipeWrite(p))
  BY SMTT(20), <1>1, DroppedFields
<1> QED BY Zenon, <1>2 DEF OneLess

\* An end is dropped: close.
LEMMA DropEnd ==
    ASSUME NEW tables \in Tables, NEW bufs \in Bufs, CountsOf(tables, bufs),
           NEW s \in Slots, NEW f \in FdNums
    PROVE  /\ Dropped(bufs, tables[s], {f}) \in Bufs
           /\ CountsOf([tables EXCEPT ![s][f] = NoFd], Dropped(bufs, tables[s], {f}))
<1> DEFINE tab  == tables[s]
           next == [tables EXCEPT ![s][f] = NoFd]
           nums == {f}
           new  == Dropped(bufs, tab, nums)
<1>1. /\ \A fd : Count(tab, nums, fd) = Same(tab[f], fd)
      /\ new = Dropped(bufs, tab, nums)
  BY Zenon, CountOne
<1>e. ASSUME NEW fd
      PROVE  Cardinality(EndsIn(next, fd)) =
                Cardinality(EndsIn(tables, fd)) - Same(tab[f], fd) + Same(NoFd, fd)
  <2>1. NoFd \in Fd
    BY DEF Fd
  <2> QED BY <2>1, OneEnd
<1> HIDE DEF next, nums, new, tab
<1>2. /\ new \in Bufs
      /\ \A p \in PipeIds :
            /\ new[p].readers = bufs[p].readers - Same(tab[f], PipeRead(p))
            /\ new[p].writers = bufs[p].writers - Same(tab[f], PipeWrite(p))
  <2>1. OneLess(new, bufs, tab[f])
    BY Zenon, <1>1, DropOne
  <2> QED BY <2>1 DEF OneLess
<1>3. ASSUME NEW fd, fd # NoFd
      PROVE  Cardinality(EndsIn(next, fd)) = Cardinality(EndsIn(tables, fd)) - Same(tab[f], fd)
  <2>3. Same(NoFd, fd) = 0 /\ Same(tab[f], fd) \in Nat
    BY Zenon, <1>3 DEF Same
  <2>4. Cardinality(EndsIn(tables, fd)) \in Nat
    BY EndsFinite
  <2> QED BY <1>e, <2>3, <2>4
<1>4. ASSUME NEW p \in PipeIds
      PROVE  /\ new[p].readers = Cardinality(EndsIn(next, PipeRead(p)))
             /\ new[p].writers = Cardinality(EndsIn(next, PipeWrite(p)))
  <2>1. PipeRead(p) # NoFd /\ PipeWrite(p) # NoFd
    BY EndsOfPipes
  <2> QED BY Zenon, <1>2, <1>3, <2>1 DEF CountsOf
<1>5. new \in Bufs /\ CountsOf(next, new)
  BY Zenon, <1>2, <1>4 DEF CountsOf
<1> QED BY <1>5 DEF next, new, nums, tab

\* An end is copied to another descriptor; dup2 then drops what that held, and
\* fcntl(F_DUPFD) chose one that held nothing.
LEMMA CopyEnd ==
    ASSUME NEW tables \in Tables, NEW bufs \in Bufs, CountsOf(tables, bufs),
           NEW s \in Slots, NEW f \in FdNums, NEW g \in FdNums
    PROVE  LET mid  == Cloned(bufs, tables[s], {f})
               new  == Dropped(mid, tables[s], {g})
               next == [tables EXCEPT ![s][g] = tables[s][f]]
           IN  /\ mid \in Bufs /\ new \in Bufs /\ CountsOf(next, new)
               /\ tables[s][g] = NoFd => CountsOf(next, mid)
<1> DEFINE tab  == tables[s]
           from == {f}
           to   == {g}
           next == [tables EXCEPT ![s][g] = tables[s][f]]
           mid  == Cloned(bufs, tab, from)
           new  == Dropped(mid, tab, to)
<1>1. /\ \A fd : /\ Count(tab, from, fd) = Same(tab[f], fd)
                /\ Count(tab, to, fd) = Same(tab[g], fd)
      /\ mid = Cloned(bufs, tab, from) /\ new = Dropped(mid, tab, to)
  BY Zenon, CountOne
<1>e. ASSUME NEW fd
      PROVE  Cardinality(EndsIn(next, fd)) =
                Cardinality(EndsIn(tables, fd)) - Same(tab[g], fd) + Same(tab[f], fd)
  <2>1. tables[s][f] \in Fd
    BY Zenon DEF Tables
  <2> QED BY <2>1, OneEnd
<1> SUFFICES /\ mid \in Bufs /\ new \in Bufs /\ CountsOf(next, new)
             /\ tab[g] = NoFd => CountsOf(next, mid)
  OBVIOUS
<1> HIDE DEF next, from, to, mid, new, tab
<1>2. /\ mid \in Bufs
      /\ \A p \in PipeIds :
            /\ mid[p].readers = bufs[p].readers + Same(tab[f], PipeRead(p))
            /\ mid[p].writers = bufs[p].writers + Same(tab[f], PipeWrite(p))
  <2>1. OneMore(mid, bufs, tab[f])
    BY Zenon, <1>1, CloneOne
  <2> QED BY <2>1 DEF OneMore
<1>3. /\ new \in Bufs
      /\ \A p \in PipeIds :
            /\ new[p].readers = mid[p].readers - Same(tab[g], PipeRead(p))
            /\ new[p].writers = mid[p].writers - Same(tab[g], PipeWrite(p))
  <2>1. OneLess(new, mid, tab[g])
    BY Zenon, <1>1, <1>2, DropOne
  <2> QED BY <2>1 DEF OneLess
<1>4. ASSUME NEW fd
      PROVE  /\ Cardinality(EndsIn(next, fd)) =
                   Cardinality(EndsIn(tables, fd)) - Same(tab[g], fd) + Same(tab[f], fd)
             /\ Cardinality(EndsIn(tables, fd)) \in Nat
             /\ Same(tab[g], fd) \in Nat /\ Same(tab[f], fd) \in Nat
  <2>2. Same(tab[g], fd) \in Nat /\ Same(tab[f], fd) \in Nat
    BY DEF Same
  <2> QED BY Zenon, <1>e, <2>2, EndsFinite
<1>5. ASSUME NEW p \in PipeIds
      PROVE  /\ new[p].readers = Cardinality(EndsIn(next, PipeRead(p)))
             /\ new[p].writers = Cardinality(EndsIn(next, PipeWrite(p)))
  <2>1. /\ bufs[p].readers = Cardinality(EndsIn(tables, PipeRead(p)))
        /\ bufs[p].writers = Cardinality(EndsIn(tables, PipeWrite(p)))
    BY Zenon DEF CountsOf
  <2>2. new[p].readers = Cardinality(EndsIn(next, PipeRead(p)))
    BY <1>2, <1>3, <1>4, <2>1
  <2>3. new[p].writers = Cardinality(EndsIn(next, PipeWrite(p)))
    BY SMTT(30), <1>2, <1>3, <1>4, <2>1
  <2> QED BY Zenon, <2>2, <2>3
<1>6. ASSUME tab[g] = NoFd, NEW p \in PipeIds
      PROVE  mid[p].readers = new[p].readers /\ mid[p].writers = new[p].writers
  <2>1. Same(tab[g], PipeRead(p)) = 0 /\ Same(tab[g], PipeWrite(p)) = 0
    BY Zenon, <1>6, EndsOfPipes DEF Same
  <2>2. mid[p].readers \in Int /\ mid[p].writers \in Int
    BY <1>2 DEF Bufs, RawBuf
  <2> QED BY SMTT(30), <1>3, <2>1, <2>2
<1> QED BY Zenon, <1>2, <1>3, <1>5, <1>6 DEF CountsOf

\* A table is released: exit and forget_process.
LEMMA DropTable ==
    ASSUME NEW tables \in Tables, NEW bufs \in Bufs, CountsOf(tables, bufs), NEW s \in Slots
    PROVE  LET new  == Dropped(bufs, tables[s], FdNums)
               next == [tables EXCEPT ![s] = Empty]
           IN  next \in Tables /\ new \in Bufs /\ CountsOf(next, new)
<1> DEFINE new  == Dropped(bufs, tables[s], FdNums)
           next == [tables EXCEPT ![s] = Empty]
<1> SUFFICES next \in Tables /\ new \in Bufs /\ CountsOf(next, new)
  OBVIOUS
<1>1. /\ next \in Tables /\ next[s] = Empty
      /\ \A t \in Slots : t # s => next[t] = tables[t]
  BY DEF Tables, Empty, Fd
<1>2. \A fd : Count(tables[s], FdNums, fd) \in Nat
  BY CountNat
<1>n. new = Dropped(bufs, tables[s], FdNums)
  OBVIOUS
<1> HIDE DEF new, next
<1>3. /\ new \in Bufs
      /\ \A p \in PipeIds :
            /\ new[p].readers = bufs[p].readers - Count(tables[s], FdNums, PipeRead(p))
            /\ new[p].writers = bufs[p].writers - Count(tables[s], FdNums, PipeWrite(p))
  BY SMTT(30), <1>2, <1>n, DroppedFields
<1>4. ASSUME NEW fd, fd # NoFd
      PROVE  /\ Cardinality(EndsIn(tables, fd)) =
                   Cardinality(EndsIn(next, fd)) + Count(tables[s], FdNums, fd)
             /\ Cardinality(EndsIn(next, fd)) \in Nat
  BY <1>1, <1>4, OneTable, EndsFinite
<1>5. ASSUME NEW p \in PipeIds
      PROVE  /\ new[p].readers = Cardinality(EndsIn(next, PipeRead(p)))
             /\ new[p].writers = Cardinality(EndsIn(next, PipeWrite(p)))
  <2>1. PipeRead(p) # NoFd /\ PipeWrite(p) # NoFd
    BY Zenon, EndsOfPipes
  <2>2. new[p].readers = Cardinality(EndsIn(next, PipeRead(p)))
    BY SMTT(30), <1>2, <1>3, <1>4, <2>1 DEF CountsOf
  <2>3. new[p].writers = Cardinality(EndsIn(next, PipeWrite(p)))
    BY SMTT(30), <1>2, <1>3, <1>4, <2>1 DEF CountsOf
  <2> QED BY Zenon, <2>2, <2>3
<1> QED BY Zenon, <1>1, <1>3, <1>5 DEF CountsOf

\* A table is copied to a process that has none: fork.
LEMMA CopyTable ==
    ASSUME NEW tables \in Tables, NEW bufs \in Bufs, CountsOf(tables, bufs),
           NEW s \in Slots, NEW n \in Slots, tables[n] = Empty
    PROVE  LET new  == Cloned(bufs, tables[s], FdNums)
               next == [tables EXCEPT ![n] = tables[s]]
           IN  next \in Tables /\ new \in Bufs /\ CountsOf(next, new)
<1> DEFINE new  == Cloned(bufs, tables[s], FdNums)
           next == [tables EXCEPT ![n] = tables[s]]
<1> SUFFICES next \in Tables /\ new \in Bufs /\ CountsOf(next, new)
  OBVIOUS
<1>1. /\ next \in Tables /\ next[n] = tables[s]
      /\ \A t \in Slots : t # n => tables[t] = next[t]
  BY DEF Tables
<1>2. \A fd : Count(tables[s], FdNums, fd) \in Nat
  BY Zenon, CountNat
<1>n. new = Cloned(bufs, tables[s], FdNums)
  OBVIOUS
<1> HIDE DEF new, next
<1>3. /\ new \in Bufs
      /\ \A p \in PipeIds :
            /\ new[p].readers = bufs[p].readers + Count(tables[s], FdNums, PipeRead(p))
            /\ new[p].writers = bufs[p].writers + Count(tables[s], FdNums, PipeWrite(p))
  BY SMTT(20), <1>2, <1>n, ClonedFields
<1>4. ASSUME NEW fd, fd # NoFd
      PROVE  Cardinality(EndsIn(next, fd)) =
                Cardinality(EndsIn(tables, fd)) + Count(tables[s], FdNums, fd)
  <2>1. Cardinality(EndsIn(next, fd)) =
           Cardinality(EndsIn(tables, fd)) + Count(next[n], FdNums, fd)
    BY SMTT(20), <1>1, <1>4, OneTable
  <2> QED BY <1>1, <2>1
<1>5. ASSUME NEW p \in PipeIds
      PROVE  /\ new[p].readers = Cardinality(EndsIn(next, PipeRead(p)))
             /\ new[p].writers = Cardinality(EndsIn(next, PipeWrite(p)))
  <2>1. PipeRead(p) # NoFd /\ PipeWrite(p) # NoFd
    BY EndsOfPipes
  <2> QED BY Zenon, <1>3, <1>4, <2>1 DEF CountsOf
<1> QED BY Zenon, <1>1, <1>3, <1>5 DEF CountsOf

\* Two ends are made, of a pipe that had none: pipe.
LEMMA NewEnds ==
    ASSUME NEW tables \in Tables, NEW bufs \in Bufs, CountsOf(tables, bufs),
           NEW s \in Slots, NEW r \in FdNums, NEW w \in FdNums, r # w,
           tables[s][r] = NoFd, tables[s][w] = NoFd,
           NEW p \in PipeIds, bufs[p].readers = 0, bufs[p].writers = 0
    PROVE  LET new  == [bufs EXCEPT ![p] = [data |-> 0, readers |-> 1, writers |-> 1]]
               next == [tables EXCEPT ![s][r] = PipeRead(p), ![s][w] = PipeWrite(p)]
           IN  next \in Tables /\ new \in Bufs /\ CountsOf(next, new)
<1> DEFINE new  == [bufs EXCEPT ![p] = [data |-> 0, readers |-> 1, writers |-> 1]]
           mid  == [tables EXCEPT ![s][r] = PipeRead(p)]
           next == [mid EXCEPT ![s][w] = PipeWrite(p)]
<1>1. [tables EXCEPT ![s][r] = PipeRead(p), ![s][w] = PipeWrite(p)] = next
  BY Zenon DEF Tables
<1> SUFFICES next \in Tables /\ new \in Bufs /\ CountsOf(next, new)
  BY Zenon, <1>1
<1>2. /\ PipeRead(p) \in Fd /\ PipeWrite(p) \in Fd
  BY Zenon, EndsOfPipes
<1>3. /\ mid \in Tables /\ mid[s][w] = NoFd
      /\ \A fd : Cardinality(EndsIn(mid, fd)) =
                    Cardinality(EndsIn(tables, fd)) - Same(NoFd, fd) + Same(PipeRead(p), fd)
  <2>1. mid[s][w] = NoFd
    BY Zenon DEF Tables
  <2>2. ASSUME NEW fd
        PROVE  mid \in Tables /\ Cardinality(EndsIn(mid, fd)) =
                  Cardinality(EndsIn(tables, fd)) - Same(tables[s][r], fd) + Same(PipeRead(p), fd)
    BY SMTT(20), <1>2, OneEnd
  <2> QED BY Zenon, <2>1, <2>2
<1>4. /\ next \in Tables
      /\ \A fd : Cardinality(EndsIn(next, fd)) =
                    Cardinality(EndsIn(mid, fd)) - Same(NoFd, fd) + Same(PipeWrite(p), fd)
  <2> HIDE DEF mid
  <2>1. ASSUME NEW fd
        PROVE  next \in Tables /\ Cardinality(EndsIn(next, fd)) =
                  Cardinality(EndsIn(mid, fd)) - Same(mid[s][w], fd) + Same(PipeWrite(p), fd)
    BY SMTT(20), <1>2, <1>3, OneEnd
  <2> QED BY Zenon, <1>3, <2>1
<1>5. new \in Bufs
  BY PipesAssumption DEF Bufs, RawBuf
<1>6. ASSUME NEW q \in PipeIds
      PROVE  /\ new[q].readers = Cardinality(EndsIn(next, PipeRead(q)))
             /\ new[q].writers = Cardinality(EndsIn(next, PipeWrite(q)))
  <2>1. /\ Same(NoFd, PipeRead(q)) = 0 /\ Same(NoFd, PipeWrite(q)) = 0
        /\ Same(PipeRead(p), PipeRead(q)) = IF p = q THEN 1 ELSE 0
        /\ Same(PipeWrite(p), PipeRead(q)) = 0
        /\ Same(PipeRead(p), PipeWrite(q)) = 0
        /\ Same(PipeWrite(p), PipeWrite(q)) = IF p = q THEN 1 ELSE 0
    <3>1. /\ NoFd # PipeRead(q) /\ NoFd # PipeWrite(q)
          /\ PipeRead(p) = PipeRead(q) <=> p = q
          /\ PipeWrite(p) = PipeWrite(q) <=> p = q
          /\ PipeRead(p) # PipeWrite(q) /\ PipeWrite(p) # PipeRead(q)
      BY Zenon DEF PipeRead, PipeWrite, NoFd
    <3> QED BY Zenon, <3>1 DEF Same
  <2>2. /\ new[q].readers = bufs[q].readers + (IF p = q THEN 1 ELSE 0)
        /\ new[q].writers = bufs[q].writers + (IF p = q THEN 1 ELSE 0)
        /\ bufs[q].readers \in Int /\ bufs[q].writers \in Int
    BY DEF Bufs, RawBuf
  <2>3. /\ bufs[q].readers = Cardinality(EndsIn(tables, PipeRead(q)))
        /\ bufs[q].writers = Cardinality(EndsIn(tables, PipeWrite(q)))
    BY Zenon DEF CountsOf
  <2> HIDE DEF new, mid, next
  <2>4. new[q].readers = Cardinality(EndsIn(next, PipeRead(q)))
    BY SMTT(30), <1>3, <1>4, <2>1, <2>2, <2>3
  <2>5. new[q].writers = Cardinality(EndsIn(next, PipeWrite(q)))
    BY SMTT(30), <1>3, <1>4, <2>1, <2>2, <2>3
  <2> QED BY Zenon, <2>4, <2>5
<1> HIDE DEF new, next
<1> QED BY Zenon, <1>4, <1>5, <1>6 DEF CountsOf

-----------------------------------------------------------------------------
(***************************************************************************)
(* The steps.                                                                 *)
(***************************************************************************)
LEMMA PipesFactsSuffice ==
    ASSUME fds' \in Tables, pipe' \in Bufs, CountsOf(fds', pipe'),
           reading' \in [Slots -> PipeIds \cup {NoPipe}], corpses' \subseteq Slots
    PROVE  PipesTypeOK' /\ CountsExact'
<1>1. pipe' \in [PipeIds -> PipeBuf]
  BY CountersNat
<1>2. CountsExact'
  BY Zenon DEF CountsExact, CountsOf
<1> QED BY <1>1, <1>2 DEF PipesTypeOK, Tables

\* The turn of read_pipe leaves the counters alone.
LEMMA TurnTypes ==
    ASSUME PipesInv, NEW p \in PipeIds, NEW count \in 1 .. MaxData, ReadTurn(p, count)
    PROVE  /\ pipe' \in Bufs /\ CountsOf(fds, pipe')
           /\ reading' \in [Slots -> PipeIds \cup {NoPipe}]
<1>t. pipe \in Bufs /\ CountsOf(fds, pipe) /\ current \in Slots
                     /\ reading \in [Slots -> PipeIds \cup {NoPipe}]
  BY PipesFacts
<1>1. reading' = [reading EXCEPT ![current] = NoPipe] \/ reading' = [reading EXCEPT ![current] = p]
  BY DEF ReadTurn
<1>2. CASE UNCHANGED pipe
  BY <1>t, <1>1, <1>2
<1>3. CASE pipe[p].data > 0 /\ pipe' = [pipe EXCEPT ![p].data = @ - Min({count, @})]
  <2>1. pipe[p] \in RawBuf /\ pipe[p].data \in 0 .. MaxData /\ MaxData \in Nat
    BY <1>t, PipesAssumption DEF Bufs, RawBuf
  <2>2. Min({count, pipe[p].data}) \in {count, pipe[p].data}
        /\ Min({count, pipe[p].data}) <= pipe[p].data
    BY <2>1, MinOfTwo
  <2> DEFINE left == pipe[p].data - Min({count, pipe[p].data})
  <2>3. left \in 0 .. MaxData
    BY <2>1, <2>2
  <2>4. pipe' = [pipe EXCEPT ![p].data = left]
    BY <1>3
  <2> HIDE DEF left
  <2>5. /\ pipe' \in Bufs
        /\ \A q \in PipeIds : pipe'[q].readers = pipe[q].readers /\ pipe'[q].writers = pipe[q].writers
    BY <1>t, <2>1, <2>3, <2>4 DEF Bufs, RawBuf
  <2> QED BY Zenon, <1>t, <1>1, <2>5 DEF CountsOf
<1> QED BY <1>2, <1>3 DEF ReadTurn

\* The counters stay exact: one step per way an end appears or vanishes.
LEMMA CountsNext == ASSUME PipesInv, PipesNext PROVE PipesTypeOK' /\ CountsExact'
<1>t. /\ fds \in Tables /\ pipe \in Bufs /\ CountsOf(fds, pipe) /\ current \in Slots
      /\ reading \in [Slots -> PipeIds \cup {NoPipe}] /\ corpses \subseteq Slots
  BY PipesFacts
<1>0. CASE UNCHANGED pipeVars
  BY <1>0, <1>t, PipesFactsSuffice DEF pipeVars
<1>1. ASSUME NEW p \in PipeIds, sys_pipe(p) PROVE PipesTypeOK' /\ CountsExact'
  <2>1. UNCHANGED <<reading, corpses>> /\ pipe[p].readers = 0 /\ pipe[p].writers = 0
    BY Zenon, <1>1 DEF sys_pipe, Unused
  <2>2. CASE Cardinality(FreeFds) >= 2
    <3> DEFINE r == Min(FreeFds)
               w == Min(FreeFds \ {r})
    <3>1. /\ fds' = [fds EXCEPT ![current][r] = PipeRead(p), ![current][w] = PipeWrite(p)]
          /\ pipe' = [pipe EXCEPT ![p] = [data |-> 0, readers |-> 1, writers |-> 1]]
      BY Zenon, <1>1, <2>2 DEF sys_pipe
    <3>2. FreeFds \subseteq Nat /\ IsFiniteSet(FreeFds)
      <4>1. 0 \in Int /\ MAX_FDS - 1 \in Int
        BY PipesAssumption
      <4>2. IsFiniteSet(FdNums) /\ FdNums \subseteq Nat
        BY <4>1, FS_Interval DEF FdNums
      <4>3. FreeFds \in SUBSET FdNums
        BY DEF FreeFds
      <4> QED BY Zenon, <4>2, <4>3, FS_Subset
    <3>3. r \in FreeFds
      <4>1. FreeFds # {}
        BY <2>2, FS_EmptySet
      <4> QED BY Zenon, <3>2, <4>1, MinIsLeast
    <3> HIDE DEF r
    <3>4. w \in FreeFds \ {r}
      <4>1. FreeFds # {r}
        <5>1. Cardinality({r}) = 1
          BY Zenon, FS_Singleton
        <5>2. Cardinality(FreeFds) # 1
          BY <2>2
        <5> QED BY <5>1, <5>2, Zenon
      <4>2. FreeFds \ {r} # {} /\ FreeFds \ {r} \subseteq Nat
        BY <3>2, <3>3, <4>1
      <4> QED BY <4>2, MinIsLeast
    <3> HIDE DEF w
    <3>5. /\ r \in FdNums /\ w \in FdNums /\ r # w
          /\ fds[current][r] = NoFd /\ fds[current][w] = NoFd
      BY <3>3, <3>4 DEF FreeFds, table
    <3>6. fds' \in Tables /\ pipe' \in Bufs /\ CountsOf(fds', pipe')
      <4> DEFINE next == [fds EXCEPT ![current][r] = PipeRead(p), ![current][w] = PipeWrite(p)]
                 new  == [pipe EXCEPT ![p] = [data |-> 0, readers |-> 1, writers |-> 1]]
      <4>1. next \in Tables /\ new \in Bufs /\ CountsOf(next, new)
        BY Zenon, <1>t, <2>1, <3>5, NewEnds
      <4> HIDE DEF next, new
      <4>2. fds' = next /\ pipe' = new
        BY Zenon, <3>1 DEF next, new
      <4> QED BY <4>1, <4>2
    <3> QED BY Zenon, <1>t, <2>1, <3>6, PipesFactsSuffice
  <2>3. CASE ~ (Cardinality(FreeFds) >= 2)
    BY Zenon, <1>0, <1>1, <2>3 DEF sys_pipe, pipeVars
  <2> QED BY <2>2, <2>3
<1>2. ASSUME NEW f \in FdNums, sys_close(f) PROVE PipesTypeOK' /\ CountsExact'
  <2>1. /\ fds' = [fds EXCEPT ![current][f] = NoFd]
        /\ pipe' = Dropped(pipe, fds[current], {f}) /\ UNCHANGED <<reading, corpses>>
    BY <1>2 DEF sys_close, table
  <2>2. fds' \in Tables
    BY <1>t, <2>1 DEF Tables, Fd
  <2>3. pipe' \in Bufs /\ CountsOf(fds', pipe')
    BY Zenon, <1>t, <2>1, DropEnd
  <2> QED BY <1>t, <2>1, <2>2, <2>3, PipesFactsSuffice
<1>3. ASSUME NEW f \in FdNums, NEW g \in FdNums, sys_dup2(f, g) PROVE PipesTypeOK' /\ CountsExact'
  <2>1. /\ fds' = [fds EXCEPT ![current][g] = fds[current][f]]
        /\ pipe' = Dropped(Cloned(pipe, fds[current], {f}), fds[current], {g})
        /\ UNCHANGED <<reading, corpses>>
    BY <1>3 DEF sys_dup2, table
  <2>2. fds' \in Tables
    BY <1>t, <2>1 DEF Tables
  <2>3. pipe' \in Bufs /\ CountsOf(fds', pipe')
    BY Zenon, <1>t, <2>1, CopyEnd
  <2> QED BY Zenon, <1>t, <2>1, <2>2, <2>3, PipesFactsSuffice
<1>4. ASSUME NEW f \in FdNums, NEW start \in FdNums, sys_fcntl(f, start)
      PROVE  PipesTypeOK' /\ CountsExact'
  <2>1. PICK g \in FdNums : /\ fds[current][g] = NoFd
                            /\ fds' = [fds EXCEPT ![current][g] = fds[current][f]]
    BY Zenon, <1>4 DEF sys_fcntl, FreeFds, table
  <2>2. pipe' = Cloned(pipe, fds[current], {f}) /\ UNCHANGED <<reading, corpses>>
    BY <1>4 DEF sys_fcntl, table
  <2>3. fds' \in Tables
    BY <1>t, <2>1 DEF Tables
  <2>4. pipe' \in Bufs /\ CountsOf(fds', pipe')
    BY Zenon, <1>t, <2>1, <2>2, CopyEnd
  <2> QED BY <1>t, <2>2, <2>3, <2>4, PipesFactsSuffice
<1>5. ASSUME NEW f \in FdNums, NEW count \in 1 .. MaxData, read_pipe(f, count)
      PROVE  PipesTypeOK' /\ CountsExact'
  <2>1. fds[current][f] \in Fd /\ fds[current][f].kind = "PipeRead"
    BY <1>5, <1>t DEF read_pipe, table, Tables
  <2>2. fds[current][f].of \in PipeIds
    BY <2>1 DEF Fd, NoFd, PipeRead, PipeWrite
  <2>3. ReadTurn(fds[current][f].of, count) /\ UNCHANGED <<fds, corpses>>
    BY Zenon, <1>5 DEF read_pipe, table
  <2> QED BY <1>t, <2>2, <2>3, TurnTypes, PipesFactsSuffice
<1>6. CASE ReadResume
  <2>1. PICK count \in 1 .. MaxData : ReadTurn(reading[current], count)
    BY <1>6 DEF ReadResume
  <2>2. reading[current] \in PipeIds /\ UNCHANGED <<fds, corpses>>
    BY <1>6, <1>t DEF ReadResume
  <2> QED BY <1>t, <2>1, <2>2, TurnTypes, PipesFactsSuffice
<1>7. ASSUME NEW f \in FdNums, NEW count \in 1 .. MaxData, write_pipe(f, count)
      PROVE  PipesTypeOK' /\ CountsExact'
  <2>1. fds[current][f] \in Fd /\ fds[current][f].kind = "PipeWrite"
    BY <1>7, <1>t DEF write_pipe, table, Tables
  <2> DEFINE p == fds[current][f].of
             d == pipe[p].data + count
  <2>2. p \in PipeIds
    BY <2>1 DEF Fd, NoFd, PipeRead, PipeWrite
  <2>3. d <= MaxData /\ pipe' = [pipe EXCEPT ![p].data = d] /\ UNCHANGED <<fds, reading, corpses>>
    BY Zenon, <1>7 DEF write_pipe, table
  <2> HIDE DEF p
  <2>d. pipe[p].data \in 0 .. MaxData
    BY <1>t, <2>2 DEF Bufs, RawBuf
  <2>e. d <= MaxData
    BY <2>3
  <2>4. d \in 0 .. MaxData
    BY <2>d, <2>e, PipesAssumption
  <2> HIDE DEF d
  <2>5. /\ pipe' \in Bufs
        /\ \A q \in PipeIds : pipe'[q].readers = pipe[q].readers /\ pipe'[q].writers = pipe[q].writers
    BY <1>t, <2>2, <2>3, <2>4 DEF Bufs, RawBuf
  <2>6. CountsOf(fds, pipe')
    BY Zenon, <1>t, <2>5 DEF CountsOf
  <2> QED BY <1>t, <2>3, <2>5, <2>6, PipesFactsSuffice
<1>8. CASE fork_fds
  <2>1. /\ fds' = [fds EXCEPT ![len] = fds[current]] /\ pipe' = Cloned(pipe, fds[current], FdNums)
        /\ UNCHANGED <<reading, corpses>> /\ len < MaxThreads
    BY <1>8 DEF fork_fds, table, Fork
  <2>2. len \in Slots /\ fds[len] = Empty
    BY <2>1, TableAssumption DEF PipesInv, IInv, Frame, FreeTables, Slots
  <2>3. fds' \in Tables /\ pipe' \in Bufs /\ CountsOf(fds', pipe')
    BY Zenon, <1>t, <2>1, <2>2, CopyTable
  <2> QED BY <1>t, <2>1, <2>3, PipesFactsSuffice
<1>9. ASSUME NEW code \in Codes, ExitReleasing(code) PROVE PipesTypeOK' /\ CountsExact'
  <2>1. /\ fds' = [fds EXCEPT ![current] = Empty] /\ pipe' = Dropped(pipe, fds[current], FdNums)
        /\ UNCHANGED <<reading, corpses>>
    BY <1>9 DEF ExitReleasing, table, Empty
  <2>2. fds' \in Tables /\ pipe' \in Bufs /\ CountsOf(fds', pipe')
    BY Zenon, <1>t, <2>1, DropTable
  <2> QED BY <1>t, <2>1, <2>2, PipesFactsSuffice
<1>10. CASE ReapCorpses
  <2>1. corpses' \subseteq Slots /\ UNCHANGED <<fds, pipe, reading>>
    BY <1>10 DEF ReapCorpses
  <2> QED BY <1>t, <2>1, PipesFactsSuffice
<1>11. CASE forget_process
  <2> DEFINE s == Min(corpses)
  <2>1. s \in Slots
    <3>1. corpses \subseteq Nat /\ corpses # {}
      BY <1>11, <1>t DEF forget_process, Slots
    <3> QED BY Zenon, <1>t, <3>1, MinIsLeast
  <2>2. /\ fds' = [fds EXCEPT ![s] = Empty] /\ pipe' = Dropped(pipe, fds[s], FdNums)
        /\ corpses' \subseteq Slots /\ UNCHANGED reading
    BY Zenon, <1>11, <1>t DEF forget_process, Empty
  <2> HIDE DEF s
  <2>3. fds' \in Tables /\ pipe' \in Bufs /\ CountsOf(fds', pipe')
    BY Zenon, <1>t, <2>1, <2>2, DropTable
  <2> QED BY <1>t, <2>2, <2>3, PipesFactsSuffice
<1>12. CASE Killed \/ Waiting \/ Tick
  BY <1>0, <1>12 DEF Killed, Waiting, Tick
<1> QED BY Zenon, <1>1, <1>2, <1>3, <1>4, <1>5, <1>6, <1>7, <1>8, <1>9, <1>10, <1>11, <1>12
        DEF PipesNext

-----------------------------------------------------------------------------
(***************************************************************************)
(* The theorems.                                                              *)
(***************************************************************************)
LEMMA PipesInvInit == PipesInit => PipesInv
<1> SUFFICES ASSUME PipesInit PROVE PipesInv
  OBVIOUS
<1>1. IInv
  BY InitIInv DEF PipesInit
<1>2. fds \in Tables /\ fds = [s \in Slots |-> Empty]
  BY DEF PipesInit, Tables, Fd, Empty
<1>3. \A p \in PipeIds : /\ Cardinality(EndsIn(fds, PipeRead(p))) = 0
                        /\ Cardinality(EndsIn(fds, PipeWrite(p))) = 0
  <2>1. \A p \in PipeIds : EndsIn(fds, PipeRead(p)) = {} /\ EndsIn(fds, PipeWrite(p)) = {}
    BY <1>2, EndsOfPipes DEF EndsIn, Empty
  <2> QED BY <2>1, FS_EmptySet, Zenon
<1>4. CountsExact
  BY <1>3 DEF PipesInit, CountsExact
<1>5. PipesTypeOK
  <2>1. [data |-> 0, readers |-> 0, writers |-> 0] \in PipeBuf
    BY PipesAssumption DEF PipeBuf
  <2>2. pipe \in [PipeIds -> PipeBuf]
    BY <2>1 DEF PipesInit
  <2> QED BY <1>2, <2>2 DEF PipesInit, PipesTypeOK, Tables
<1>6. ReaderSound /\ OneLoop /\ FreeTables
  BY <1>2 DEF PipesInit, Init, ReaderSound, OneLoop, FreeTables
<1> QED BY <1>1, <1>4, <1>5, <1>6 DEF PipesInv

\* Every step of Pipes keeps its invariant.
LEMMA PipesInvNext == PipesInv /\ [PipesNext]_allVars => PipesInv'
<1> SUFFICES ASSUME PipesInv, [PipesNext]_allVars PROVE PipesInv'
  OBVIOUS
<1>1. CASE PipesNext
  <2>1. IInv'
    BY <1>1, StepsOfThread, NextIInv DEF PipesInv
  <2>2. CountsEnds
    BY CountTypes DEF CountsEnds
  <2>3. PipesTypeOK' /\ CountsExact'
    BY <1>1, CountsNext
  <2>4. ReaderSound'
    BY <1>1, <2>2, <2>3, ReaderNext
  <2>5. FreeTables' /\ OneLoop'
    BY <1>1, FreeNext, LoopsNext
  <2> QED BY <2>1, <2>3, <2>4, <2>5 DEF PipesInv
<1>2. CASE UNCHANGED allVars
  <2>1. UNCHANGED vars /\ UNCHANGED pipeVars
    BY <1>2 DEF allVars
  <2>2. IInv'
    BY <2>1, NextIInv DEF PipesInv
  <2>3. PipesTypeOK' /\ CountsExact' /\ ReaderSound' /\ FreeTables' /\ OneLoop'
    BY Zenon, <2>1 DEF PipesInv, PipesTypeOK, CountsExact, ReaderSound, FreeTables, OneLoop, pipeVars, vars
  <2> QED BY <2>2, <2>3 DEF PipesInv
<1> QED BY <1>1, <1>2

\* The invariant of Pipes holds.
LEMMA AlwaysPipesInv == PipesSpec => []PipesInv
BY PipesInvInit, PipesInvNext, PTL DEF PipesSpec

\* Descriptor tables, buffers and read loops keep their types; the counters of a
\* PipeBuf never wrap below zero.
THEOREM PipesTypesCorrect == PipesSpec => []PipesTypeOK
<1>1. PipesInv => PipesTypeOK
  BY DEF PipesInv
<1> QED BY <1>1, AlwaysPipesInv, PTL

\* However descriptors are made, copied, replaced and dropped, by however many
\* processes that exit or are killed, the counters are the ends that exist.
THEOREM EndsAreCounted == PipesSpec => []CountsExact
<1>1. PipesInv => CountsExact
  BY DEF PipesInv
<1> QED BY <1>1, AlwaysPipesInv, PTL

\* No lost wake-up in read_pipe: writes, closes, exits and the reaper's drops
\* wake every reader they concern.
THEOREM PipeReadersAreWoken == PipesSpec => []ReaderSound
<1>1. PipesInv => ReaderSound
  BY DEF PipesInv
<1> QED BY <1>1, AlwaysPipesInv, PTL
=============================================================================
