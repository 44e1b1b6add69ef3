------------------------------- MODULE Thread -------------------------------
(***************************************************************************)
(* Processes and threads of ferros on its single core: fork, exit, kill,    *)
(* ring-3 faults, wait4, blocking on input and pipes, the timer, and the    *)
(* reaper (sched/thread.rs with its callers in syscall/ and interrupts.rs). *)
(*                                                                          *)
(* A system call runs with interrupts off, so it is one step up to the      *)
(* point where it blocks.  Only wait_current goes round a loop after being   *)
(* woken: its loop is the waiting variable and the step WaitResume.          *)
(* Descriptors are abstracted to one bit: whether dropping them wakes the   *)
(* threads blocked on pipes.                                                 *)
(***************************************************************************)
EXTENDS SchedTable

VARIABLES
    threads,    \* the table; slots from len on are free
    len,        \* threads.len()
    current,    \* index of the running thread
    next_pid,   \* NEXT_PID
    spawning,   \* pid thread 0 took in spawn() and has not pushed yet, or NoPid
    waiting,    \* per slot: the want of the wait_current it is inside, or NoPid
    creator,    \* history: the slot whose fork or spawn made this slot
    told        \* history: what wait4 wrote about the thread in this slot

vars == <<threads, len, current, next_pid, spawning, waiting, creator, told>>

NotTold == -1   \* no wait4 has collected this thread
Lost    == -2   \* collected, but the status pointer was bad (EFAULT)

(***************************************************************************)
(* The state main.rs reaches before executor.run(): thread 0 and the shell  *)
(* (PID 1), preemption on.                                                   *)
(***************************************************************************)
Init ==
    /\ threads = [i \in Slots |-> IF i = 0 THEN NewThread(0, 0, FALSE)
                                  ELSE IF i = 1 THEN NewThread(1, 0, TRUE)
                                  ELSE FreeSlot]
    /\ len = 2
    /\ current = 0
    /\ next_pid = 2
    /\ spawning = NoPid
    /\ waiting = [i \in Slots |-> NoPid]
    /\ creator = [i \in Slots |-> 0]
    /\ told = [i \in Slots |-> NotTold]

switch_to_next(ths) == \E n \in Slots : SwitchesTo(ths, len, current, n) /\ current' = n

\* The running thread is outside wait_current.  A thread woken inside it goes
\* on with interrupts off: nothing else can happen before its next scan.
Outside == waiting[current] = NoPid
InUser  == threads[current].cr3 /\ Outside

\* Mutant: the thread is stored and the table does not grow.
push_thread_overwrites(t) ==
    /\ threads' = [threads EXCEPT ![len] = t]
    /\ creator' = [creator EXCEPT ![len] = current]
    /\ UNCHANGED len

push_thread(t) ==
    /\ threads' = [threads EXCEPT ![len] = t]
    /\ creator' = [creator EXCEPT ![len] = current]
    /\ len' = len + 1

(***************************************************************************)
(* fork(): a child of the running process.                                  *)
(***************************************************************************)
Fork ==
    /\ InUser
    /\ len < MaxThreads /\ next_pid <= MaxThreads
    /\ push_thread(NewThread(next_pid, threads[current].pid, TRUE))
    /\ next_pid' = next_pid + 1
    /\ UNCHANGED <<current, spawning, waiting, told>>

(***************************************************************************)
(* spawn(): thread 0 starts a kernel thread.  It takes the pid, may be       *)
(* preempted, and only then pushes the thread.                               *)
(***************************************************************************)
\* Mutant: the pid is read, not taken.
SpawnTakePid_reads ==
    /\ current = 0
    /\ spawning = NoPid
    /\ len < MaxThreads /\ next_pid <= MaxThreads
    /\ spawning' = next_pid
    /\ UNCHANGED <<threads, len, current, next_pid, waiting, creator, told>>

SpawnTakePid ==
    /\ current = 0
    /\ spawning = NoPid
    /\ len < MaxThreads /\ next_pid <= MaxThreads
    /\ spawning' = next_pid
    /\ next_pid' = next_pid + 1
    /\ UNCHANGED <<threads, len, current, waiting, creator, told>>

SpawnPush ==
    /\ current = 0
    /\ spawning # NoPid
    /\ len < MaxThreads
    /\ push_thread(NewThread(spawning, 0, FALSE))
    /\ spawning' = NoPid
    /\ UNCHANGED <<current, next_pid, waiting, told>>

(***************************************************************************)
(* exit: release_current_process_fds (which may drop the last end of a       *)
(* pipe), then terminate and switch away.                                     *)
(***************************************************************************)
Exit(code, drops_last_end) ==
    /\ InUser
    /\ LET ths == IF drops_last_end THEN Woken(threads, "Pipe") ELSE threads
       IN threads' = Terminated(ths, current, code, NoSignal)
    /\ switch_to_next(threads')
    /\ UNCHANGED <<len, next_pid, spawning, waiting, creator, told>>

\* #PF or #GP in ring 3: exit_current_killed(SIGSEGV), no descriptor released.
Fault ==
    /\ InUser
    /\ threads' = Terminated(threads, current, 128 + SIGSEGV, SIGSEGV)
    /\ switch_to_next(threads')
    /\ UNCHANGED <<len, next_pid, spawning, waiting, creator, told>>

(***************************************************************************)
(* kill(pid, sig): only living user processes are targets; a fatal signal    *)
(* terminates at once, whatever the target was doing.  Signal 0 and the       *)
(* non-fatal ones change nothing the model keeps.                             *)
(***************************************************************************)
KillTargets(pid) ==
    {i \in Slots : /\ threads[i].pid = pid /\ threads[i].cr3
                   /\ is_alive(threads[i].state)}

\* Mutant: a process that kills itself keeps the CPU.
Kill_runs_on(pid, sig) ==
    /\ InUser
    /\ pid > 0 /\ sig > 0
    /\ default_terminates(sig)
    /\ \E idx \in KillTargets(pid) : threads' = Terminated(threads, idx, 128 + sig, sig)
    /\ UNCHANGED <<len, current, next_pid, spawning, waiting, creator, told>>

Kill(pid, sig) ==
    /\ InUser
    /\ pid > 0 /\ sig > 0
    /\ default_terminates(sig)
    /\ \E idx \in KillTargets(pid) :
          /\ threads' = Terminated(threads, idx, 128 + sig, sig)
          /\ IF idx = current THEN switch_to_next(threads')
                              ELSE UNCHANGED current
    /\ UNCHANGED <<len, next_pid, spawning, waiting, creator, told>>

(***************************************************************************)
(* wait4: one scan of try_collect_or_block.  It collects the first zombie    *)
(* child that matches (and reports it, unless the status pointer is bad),     *)
(* else blocks if a matching child lives, else answers ECHILD.                *)
(***************************************************************************)
Collect(want) ==
    \E z \in MyZombies(threads, current, want), ptr_ok \in BOOLEAN :
        /\ \A y \in MyZombies(threads, current, want) : z <= y
        /\ threads' = Collected(threads, z)
        /\ told' = [told EXCEPT ![z] =
                      IF ptr_ok THEN Encoded(threads[z].exit_status, threads[z].term_signal)
                                ELSE Lost]
        /\ waiting' = [waiting EXCEPT ![current] = NoPid]
        /\ UNCHANGED current

WouldBlock(want) ==
    /\ MyZombies(threads, current, want) = {}
    /\ MyLiving(threads, current, want) # {}
    /\ threads' = BlockedOn(threads, current, "Child")
    /\ waiting' = [waiting EXCEPT ![current] = want]
    /\ switch_to_next(threads')
    /\ UNCHANGED told

NoChildren(want) ==
    /\ MyZombies(threads, current, want) = {}
    /\ MyLiving(threads, current, want) = {}
    /\ waiting' = [waiting EXCEPT ![current] = NoPid]
    /\ UNCHANGED <<threads, current, told>>

try_collect_or_block(want) ==
    /\ Collect(want) \/ WouldBlock(want) \/ NoChildren(want)
    /\ UNCHANGED <<len, next_pid, spawning, creator>>

Wait4(want) == InUser /\ try_collect_or_block(want)

\* The loop of wait_current, back on the CPU after a wake-up.
WaitResume ==
    /\ waiting[current] # NoPid
    /\ try_collect_or_block(waiting[current])

(***************************************************************************)
(* block_current_on_stdin / _pipe and the wake-ups.  Their callers check     *)
(* and block without a step in between.  Input wakes readers from thread 0   *)
(* (the keyboard task); pipes wake them from system calls and from the        *)
(* reaper's drop of a dead process's descriptors, on thread 0.                *)
(***************************************************************************)
Block(reason) ==
    /\ InUser
    /\ threads' = BlockedOn(threads, current, reason)
    /\ switch_to_next(threads')
    /\ UNCHANGED <<len, next_pid, spawning, waiting, creator, told>>

Wake(reason) ==
    /\ current = 0 \/ (reason = "Pipe" /\ InUser)
    /\ threads' = Woken(threads, reason)
    /\ UNCHANGED <<len, current, next_pid, spawning, waiting, creator, told>>

\* on_timer_tick; also yield_now, which makes the same move voluntarily.
TimerTick ==
    /\ Outside
    /\ switch_to_next(threads)
    /\ UNCHANGED <<threads, len, next_pid, spawning, waiting, creator, told>>

\* The locked part of reap(), on thread 0.
Reap ==
    /\ current = 0
    /\ threads' = Reaped(threads, current)
    /\ UNCHANGED <<len, current, next_pid, spawning, waiting, creator, told>>

Next ==
    \/ Fork
    \/ SpawnTakePid
    \/ SpawnPush
    \/ \E code \in Codes, drops \in BOOLEAN : Exit(code, drops)
    \/ Fault
    \/ \E pid \in Pids, sig \in Sent : Kill(pid, sig)
    \/ \E want \in Pids : Wait4(want)
    \/ WaitResume
    \/ \E reason \in {"Stdin", "Pipe"} : Block(reason) \/ Wake(reason)
    \/ TimerTick
    \/ Reap

Spec == Init /\ [][Next]_vars

(***************************************************************************)
(* Fairness.  The timer line stays asserted until it is served, so a tick    *)
(* that finds interrupts off is delivered when they come back on: strong     *)
(* fairness.  A woken waiter runs its next scan without giving up the CPU.    *)
(* executor.run() calls reap() once per round and resumes where it was        *)
(* preempted, so a thread 0 that keeps getting the CPU keeps reaping.         *)
(***************************************************************************)
FairSpec == Spec /\ SF_vars(TimerTick) /\ WF_vars(WaitResume) /\ SF_vars(Reap)

-----------------------------------------------------------------------------
(***************************************************************************)
(* Properties                                                                *)
(***************************************************************************)

\* Every field holds a value of its Rust type, the table is filled up to len
\* and free beyond it, and the running thread is an entry of it.
TypeOK ==
    /\ len \in 2 .. MaxThreads
    /\ current \in 0 .. len - 1
    /\ threads \in [Slots -> Thread \cup {FreeSlot}]
    /\ \A i \in Slots : threads[i] = FreeSlot <=> i >= len
    /\ next_pid \in 2 .. MaxThreads + 1
    /\ spawning \in Pids \cup {NoPid}
    /\ waiting \in [Slots -> Pids \cup {NoPid}]
    /\ creator \in [Slots -> Slots]
    /\ told \in [Slots -> Nat \cup {NotTold, Lost}]

\* The assert of switch_to_next and the unreachable! after exit_current: the
\* CPU is never given to, or left with, a thread that may not run, because
\* thread 0 is Runnable whatever the processes do to themselves and others.
CurrentRunnable == threads[current].state = "Runnable" /\ threads[0].state = "Runnable"

\* Lookups by pid (kill, wait, the parent to wake) find one thread: pids stay
\* distinct although spawn() takes its pid and pushes the thread in two steps
\* with forks in between.
PidsDistinct ==
    \A i, j \in 0 .. len - 1 : threads[i].pid = threads[j].pid => i = j

\* terminate() keeps the family tree right: a thread's parent is the process
\* that made it while that process lives, and PID 0 from the moment it does
\* not.  So a zombie always has someone who can collect it, or is an orphan
\* that the reaper takes.
FamilyTree ==
    \A i \in 0 .. len - 1 :
        threads[i].parent = IF is_alive(threads[creator[i]].state)
                            THEN threads[creator[i]].pid ELSE 0

\* No lost wake-up in wait4: a process sleeping in it has a living child that
\* it waits for and no zombie it could have collected, and one that was woken
\* still has a child to find, so a wait that slept never ends in ECHILD.
WaitSound ==
    \A i \in 0 .. len - 1 :
        waiting[i] # NoPid =>
            /\ threads[i].state = "Blocked" =>
                  /\ threads[i].blocked_on = "Child"
                  /\ MyZombies(threads, i, waiting[i]) = {}
                  /\ MyLiving(threads, i, waiting[i]) # {}
            /\ threads[i].state = "Runnable" =>
                  MyZombies(threads, i, waiting[i]) \cup MyLiving(threads, i, waiting[i]) # {}

\* What a table says about the lives of ProcessLife.
LifeOf(state) == IF state = "Free" THEN "unborn"
                 ELSE IF is_alive(state) THEN "alive"
                 ELSE IF state = "Zombie" THEN "zombie"
                 ELSE IF state = "Dead" THEN "collected"
                 ELSE "freed"

lives == [i \in Slots |-> LifeOf(threads[i].state)]
fates == [i \in Slots |-> [status |-> threads[i].exit_status, signal |-> threads[i].term_signal]]

Life == INSTANCE ProcessLife
    WITH Procs <- Slots,
         Fates <- [status : Statuses \cup {NoStatus}, signal : Signals \cup {NoSignal}],
         life <- lives, fate <- fates, maker <- creator

\* The scheduler implements the life cycle of ProcessLife: one death with one
\* outcome, told once and truthfully to the maker, freed only afterwards.
ImplementsLife == Life!LifeSpec

\* Round robin starves nobody: a Runnable thread gets the CPU, whatever the
\* other processes do with their time slices.
Scheduled ==
    \A i \in Slots :
        threads[i].state = "Runnable" ~> (current = i \/ threads[i].state # "Runnable")

\* A wait4 that has something to collect returns (or its caller dies).
WaitReturns ==
    \A i \in Slots :
        (/\ waiting[i] # NoPid /\ is_alive(threads[i].state)
         /\ MyZombies(threads, i, waiting[i]) # {})
            ~> (waiting[i] = NoPid \/ ~ is_alive(threads[i].state))

\* The reaper gets to every collected thread, and to every zombie whose maker
\* is the kernel or is gone.
Buried ==
    \A i \in Slots :
        (\/ threads[i].state = "Dead"
         \/ /\ threads[i].state = "Zombie"
            /\ creator[i] = 0 \/ ~ is_alive(threads[creator[i]].state))
            ~> threads[i].state = "Reaped"
=============================================================================
