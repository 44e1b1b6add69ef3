------------------------------ MODULE Registry ------------------------------
(***************************************************************************)
(* Who owns which frame, and which process a file-layer entry belongs to:     *)
(* the frame allocator (mm/frame.rs), address spaces (mm/addr_space.rs), the   *)
(* PROCESSES registry of syscall/files.rs, which is keyed by the frame of the   *)
(* PML4, and the reaper that takes both apart on thread 0.                      *)
(*                                                                              *)
(* System calls run with interrupts off, so each is one step.  The reaper runs  *)
(* with interrupts on: the timer can stop it between any two of its steps, also  *)
(* while it holds the FRAME_ALLOC or the PROCESSES spin lock.  A system call     *)
(* that then wants the lock spins with interrupts off.                           *)
(*                                                                              *)
(* Of a ProcState only the owner it was made for and its brk are kept.  Frames   *)
(* of page tables count as frames of the image.                                  *)
(***************************************************************************)
EXTENDS Thread, SequencesExt

CONSTANTS NFrames,      \* usable frames; fork and exec panic when they run out
          ImageSizes,   \* frames an executable can need, besides the PML4
          PAGE,         \* bytes in a page (4096 in the code)
          MaxHeap       \* pages between USER_HEAP_BASE and USER_HEAP_MAX

ASSUME RegistryAssumption == /\ NFrames \in Nat /\ MaxHeap \in Nat /\ PAGE \in Nat \ {0}
                             /\ ImageSizes \subseteq Nat

VARIABLES
    free_list,  \* freed frames, the head first
    cursor,     \* the allocator's next: frames from here on were never handed out
    space,      \* per slot: the address space of its process
    PROCESSES,  \* per PML4 frame: a ProcState or NoProc
    corpses,    \* slots the running reap() has collected and not finished
    dying,      \* frames the destroy in progress has still to free
    key,        \* PML4 frame of the corpse being taken apart, or NoFrame
    lock,       \* the spin lock thread 0 holds
    spinning,   \* the slot that spins on it with interrupts off, or NoPid
    calm        \* history: reap() has never been preempted halfway

regVars    == <<free_list, cursor, space, PROCESSES, corpses, dying, key, lock,
                spinning, calm>>
reaperVars == <<corpses, dying, key, lock, calm>>
registryVars == <<vars, regVars>>

Frames  == 1 .. NFrames
NoFrame == 0
NoProc  == [owner |-> NoPid, brk |-> 0]
NoHeap  == [p \in 1 .. MaxHeap |-> NoFrame]
NoSpace == [root |-> NoFrame, image |-> <<>>, heap |-> NoHeap]
Locks   == {"none", "FRAME_ALLOC", "PROCESSES"}

DefaultFor(s) == [owner |-> s, brk |-> 0]

(***************************************************************************)
(* allocate_frame n times: from the free list while it lasts, then by the     *)
(* cursor; deallocate_frame of a sequence of frames, one after the other.      *)
(***************************************************************************)
Available == Len(free_list) + NFrames + 1 - cursor

Taken(n) == [i \in 1 .. n |-> IF i <= Len(free_list) THEN free_list[i]
                              ELSE cursor + i - 1 - Len(free_list)]

CursorAfter(n) == IF n <= Len(free_list) THEN cursor ELSE cursor + n - Len(free_list)

ListAfter(n) == SubSeq(free_list, n + 1, Len(free_list))

Freed(list, frames) == Reverse(frames) \o list

Mapped(heap) == SelectSeq(heap, LAMBDA f : f # NoFrame)

\* The order in which destroy() frees an address space: the PML4 comes last.
FreeOrder(sp) == sp.image \o Mapped(sp.heap) \o <<sp.root>>

\* new_sharing_kernel takes the PML4 first, then the pages are mapped.
Built(frames, i, heap) == [root  |-> frames[1],
                           image |-> SubSeq(frames, 2, i + 1),
                           heap  |-> heap]

\* copy_subtree over the heap: a fresh frame for every page that is mapped.
HeapCopy(heap, frames) ==
    [p \in 1 .. MaxHeap |-> IF heap[p] = NoFrame THEN NoFrame
                            ELSE frames[Len(Mapped(SubSeq(heap, 1, p)))]]

\* fork_from: the child's space, from the frames it takes: one for each of the parent's.
fork_from(parent, frames) ==
    LET i == Len(parent.image)
    IN  Built(frames, i, HeapCopy(parent.heap, SubSeq(frames, i + 2, Len(frames))))

(***************************************************************************)
(* The state after boot: spawn_user has built the shell's address space.       *)
(***************************************************************************)
RegistryInit ==
    /\ Init
    /\ free_list = <<>>
    /\ \E i \in ImageSizes :
          /\ cursor = i + 2
          /\ space = [s \in Slots |->
                        IF s = 1 THEN Built([f \in 1 .. i + 1 |-> f], i, NoHeap) ELSE NoSpace]
    /\ PROCESSES = [f \in Frames |-> NoProc]
    /\ corpses = {} /\ dying = <<>> /\ key = NoFrame
    /\ lock = "none" /\ spinning = NoPid /\ calm = TRUE

current_key == space[current].root

\* A process about to make a system call, on a machine that is not stuck.
Ready == InUser /\ spinning = NoPid

\* entry(key).or_default() for the running process.
OrDefault(procs) == [procs EXCEPT ![current_key] = IF @ = NoProc THEN DefaultFor(current) ELSE @]

\* Any call that goes through with_current_proc: open, read, write, chdir...
with_current_proc ==
    /\ Ready /\ lock # "PROCESSES"
    /\ PROCESSES' = OrDefault(PROCESSES)
    /\ UNCHANGED <<vars, free_list, cursor, space, reaperVars, spinning>>

(***************************************************************************)
(* fork: fork_from copies the address space frame by frame, then fork_fds      *)
(* clones the parent's entry, if it has one, under the child's key.             *)
(***************************************************************************)
fork ==
    /\ Ready /\ lock = "none"
    /\ Fork
    /\ LET me     == space[current]
           n      == Len(FreeOrder(me))
           child  == fork_from(me, Taken(n))
       IN /\ n <= Available
          /\ space' = [space EXCEPT ![len] = child]
          /\ PROCESSES' = IF PROCESSES[me.root] = NoProc THEN PROCESSES
                          ELSE [PROCESSES EXCEPT ![child.root] =
                                  [PROCESSES[me.root] EXCEPT !.owner = len]]
          /\ free_list' = ListAfter(n) /\ cursor' = CursorAfter(n)
    /\ UNCHANGED <<reaperVars, spinning>>

\* Mutant: the old image's break survives exec.
rekey_process_keeps_brk(procs, old, new) ==
    IF procs[old] = NoProc THEN procs
    ELSE [procs EXCEPT ![old] = NoProc, ![new] = procs[old]]

\* rekey_process: the entry moves to the new key and its heap is empty again.
rekey_process(procs, old, new) ==
    IF procs[old] = NoProc THEN procs
    ELSE [procs EXCEPT ![old] = NoProc, ![new] = [procs[old] EXCEPT !.brk = 0]]

\* exec_replace_cr3: the running thread has the new space from now on.
exec_replace_cr3(new) == space' = [space EXCEPT ![current] = new]

(***************************************************************************)
(* execve of an image of i frames: build the new space, destroy the old one,   *)
(* then move the entry.  A relative path is resolved against the entry's cwd.    *)
(* A bad ELF or too long an argv destroys the new space instead.                 *)
(***************************************************************************)
exec(i, relative) ==
    /\ Ready /\ lock = "none"
    /\ i + 1 <= Available
    /\ LET old   == space[current]
           new   == Built(Taken(i + 1), i, NoHeap)
           procs == IF relative THEN OrDefault(PROCESSES) ELSE PROCESSES
       IN \/ /\ exec_replace_cr3(new)
             /\ free_list' = Freed(ListAfter(i + 1), FreeOrder(old))
             /\ PROCESSES' = rekey_process(procs, old.root, new.root)
          \/ /\ free_list' = Freed(ListAfter(i + 1), FreeOrder(new))
             /\ PROCESSES' = procs
             /\ UNCHANGED space
    /\ cursor' = CursorAfter(i + 1)
    /\ UNCHANGED <<vars, reaperVars, spinning>>

(***************************************************************************)
(* brk(addr), addr counted from USER_HEAP_BASE: map the pages between the        *)
(* rounded breaks, or unmap those that are mapped.  When a page is mapped        *)
(* already or frames run out, the pages mapped so far are undone.                 *)
(***************************************************************************)
page_up(x) == (x + PAGE - 1) \div PAGE

\* Mutant: a brk that fails halfway does not give the frames back.
Grow_no_rollback(procs, from, to, addr) ==
    LET heap  == space[current].heap
        want  == to - from
        clear == Max({n \in 0 .. want : \A p \in from + 1 .. from + n : heap[p] = NoFrame})
        m     == Min({clear, Available})
    IN \/ /\ m = want
          /\ space' = [space EXCEPT ![current].heap =
                [p \in 1 .. MaxHeap |-> IF p \in from + 1 .. to THEN Taken(want)[p - from] ELSE heap[p]]]
          /\ free_list' = ListAfter(want) /\ cursor' = CursorAfter(want)
          /\ PROCESSES' = [procs EXCEPT ![current_key].brk = addr]
       \/ /\ m < want
          /\ free_list' = ListAfter(m) /\ cursor' = CursorAfter(m)
          /\ PROCESSES' = procs
          /\ UNCHANGED space

Grow(procs, from, to, addr) ==
    LET heap  == space[current].heap
        want  == to - from
        clear == Max({n \in 0 .. want : \A p \in from + 1 .. from + n : heap[p] = NoFrame})
        m     == Min({clear, Available})
        extra == IF m < Available THEN 1 ELSE 0
    IN \/ /\ m = want
          /\ space' = [space EXCEPT ![current].heap =
                [p \in 1 .. MaxHeap |-> IF p \in from + 1 .. to THEN Taken(want)[p - from] ELSE heap[p]]]
          /\ free_list' = ListAfter(want) /\ cursor' = CursorAfter(want)
          /\ PROCESSES' = [procs EXCEPT ![current_key].brk = addr]
       \/ /\ m < want
          /\ free_list' = Freed(Freed(ListAfter(m + extra), SubSeq(Taken(m + extra), m + 1, m + extra)),
                                Taken(m))
          /\ cursor' = CursorAfter(m + extra)
          /\ PROCESSES' = procs
          /\ UNCHANGED space

Shrink(procs, from, to, addr) ==
    LET heap == space[current].heap
    IN /\ space' = [space EXCEPT ![current].heap =
             [p \in 1 .. MaxHeap |-> IF p \in from + 1 .. to THEN NoFrame ELSE heap[p]]]
       /\ free_list' = Freed(free_list, Mapped(SubSeq(heap, from + 1, to)))
       /\ PROCESSES' = [procs EXCEPT ![current_key].brk = addr]
       /\ UNCHANGED cursor

sys_brk(addr) ==
    /\ Ready /\ lock = "none"
    /\ LET procs == OrDefault(PROCESSES)
           cur   == procs[current_key].brk
       IN IF addr > cur THEN Grow(procs, page_up(cur), page_up(addr), addr)
                        ELSE Shrink(procs, page_up(addr), page_up(cur), addr)
    /\ UNCHANGED <<vars, reaperVars, spinning>>

\* exit takes the table out of the entry under the lock; the entry stays.
exit ==
    /\ Ready /\ lock # "PROCESSES"
    /\ \E code \in Codes : Exit(code, FALSE)
    /\ UNCHANGED regVars

\* Faults, signals, wait4: the scheduler's own lock only.
SchedulerOnly ==
    /\ spinning = NoPid
    /\ \/ Fault
       \/ \E pid \in Pids, sig \in Sent : Kill(pid, sig)
       \/ \E want \in Pids : Wait4(want)
       \/ WaitResume
    /\ UNCHANGED regVars

\* The timer, which also ticks inside reap().
Tick ==
    /\ spinning = NoPid
    /\ TimerTick
    /\ calm' = (calm /\ (current = 0 /\ corpses # {} => current' = 0))
    /\ UNCHANGED <<free_list, cursor, space, PROCESSES, corpses, dying, key, lock, spinning>>

(***************************************************************************)
(* reap() on thread 0: the corpses are collected under the scheduler's lock;    *)
(* each is then destroyed under FRAME_ALLOC, frame by frame, and forgotten       *)
(* under PROCESSES.                                                              *)
(***************************************************************************)
reap ==
    /\ corpses = {}
    /\ Reap
    /\ corpses' = {s \in Slots : threads[s].cr3 /\ ~ threads'[s].cr3}
    /\ UNCHANGED <<free_list, cursor, space, PROCESSES, dying, key, lock, spinning, calm>>

destroy ==
    /\ current = 0 /\ corpses # {} /\ key = NoFrame
    /\ LET s == Min(corpses)
       IN /\ dying' = FreeOrder(space[s])
          /\ key' = space[s].root
          /\ space' = [space EXCEPT ![s] = NoSpace]
    /\ lock' = "FRAME_ALLOC"
    /\ UNCHANGED <<vars, free_list, cursor, PROCESSES, corpses, spinning, calm>>

deallocate_frame ==
    /\ current = 0 /\ dying # <<>>
    /\ free_list' = <<Head(dying)>> \o free_list
    /\ dying' = Tail(dying)
    /\ lock' = IF Len(dying) = 1 THEN "none" ELSE lock
    /\ UNCHANGED <<vars, cursor, space, PROCESSES, corpses, key, spinning, calm>>

lock_registry ==
    /\ current = 0 /\ key # NoFrame /\ dying = <<>> /\ lock = "none"
    /\ lock' = "PROCESSES"
    /\ UNCHANGED <<vars, free_list, cursor, space, PROCESSES, corpses, dying, key, spinning, calm>>

\* Mutants: the lock guard outlives the call; the entry is not removed.
forget_process_keeps_lock ==
    /\ current = 0 /\ lock = "PROCESSES"
    /\ PROCESSES' = [PROCESSES EXCEPT ![key] = NoProc]
    /\ corpses' = corpses \ {Min(corpses)}
    /\ key' = NoFrame
    /\ UNCHANGED <<vars, free_list, cursor, space, dying, lock, spinning, calm>>

forget_process_keeps_entry ==
    /\ current = 0 /\ lock = "PROCESSES"
    /\ corpses' = corpses \ {Min(corpses)}
    /\ key' = NoFrame
    /\ lock' = "none"
    /\ UNCHANGED <<vars, free_list, cursor, space, PROCESSES, dying, spinning, calm>>

forget_process ==
    /\ current = 0 /\ lock = "PROCESSES"
    /\ PROCESSES' = [PROCESSES EXCEPT ![key] = NoProc]
    /\ corpses' = corpses \ {Min(corpses)}
    /\ key' = NoFrame
    /\ lock' = "none"
    /\ UNCHANGED <<vars, free_list, cursor, space, dying, spinning, calm>>

\* A system call that wants the lock thread 0 was preempted with.  Interrupts
\* are off: nothing runs on the only core any more.
spin ==
    /\ Ready /\ lock # "none"
    /\ spinning' = current
    /\ UNCHANGED <<vars, free_list, cursor, space, PROCESSES, reaperVars>>

RegistryNext ==
    \/ with_current_proc
    \/ fork
    \/ \E i \in ImageSizes, relative \in BOOLEAN : exec(i, relative)
    \/ \E addr \in 0 .. PAGE * MaxHeap : sys_brk(addr)
    \/ exit
    \/ SchedulerOnly
    \/ Tick
    \/ reap
    \/ destroy
    \/ deallocate_frame
    \/ lock_registry
    \/ forget_process
    \/ spin

RegistrySpec == RegistryInit /\ [][RegistryNext]_registryVars

\* The fairness of Thread; a reaper that keeps getting the CPU goes on.
RegistryFairSpec ==
    /\ RegistrySpec
    /\ SF_registryVars(Tick)
    /\ SF_registryVars(reap \/ destroy \/ deallocate_frame \/ lock_registry \/ forget_process)

-----------------------------------------------------------------------------
\* The allocator, the spaces, the registry and the reaper hold values of their
\* types, and the reaper holds a lock only while it takes a corpse apart.
RegistryTypeOK ==
    /\ free_list \in Seq(Frames) /\ dying \in Seq(Frames)
    /\ cursor \in 1 .. NFrames + 1
    /\ \A s \in Slots : /\ space[s].root \in Frames \cup {NoFrame}
                        /\ space[s].image \in Seq(Frames)
                        /\ space[s].heap \in [1 .. MaxHeap -> Frames \cup {NoFrame}]
    /\ PROCESSES \in [Frames -> [owner : Slots \cup {NoPid}, brk : 0 .. PAGE * MaxHeap]]
    /\ corpses \subseteq Slots
    /\ key \in Frames \cup {NoFrame}
    /\ lock \in Locks
    /\ spinning \in Slots \cup {NoPid} /\ calm \in BOOLEAN
    /\ lock # "none" => corpses # {} /\ key # NoFrame

Spaces == {s \in Slots : space[s] # NoSpace}

\* How many times frame f is somewhere: free, in an address space, or on its way
\* from one to the other.
Places(f) ==
    LET In(q) == Cardinality({i \in DOMAIN q : q[i] = f})
    IN In(free_list) + In(dying)
       + FoldSet(LAMBDA s, n : n + In(FreeOrder(space[s])), 0, Spaces)

\* The contract of FrameAllocator, across fork, exec, brk, their failures and a
\* reaper stopped halfway: every frame ever handed out is in exactly one place,
\* so none is given to two owners, freed twice or leaked.
FramesPartition ==
    \A f \in Frames : Places(f) = IF f < cursor THEN 1 ELSE 0

\* "A new process must not inherit foreign descriptors" (forget_process): the
\* entry under a frame was made for the process whose PML4 that frame is now; the
\* only others belong to the corpse that is about to be forgotten.
OwnState ==
    \A f \in Frames :
        PROCESSES[f] # NoProc =>
            IF \E s \in Slots : space[s].root = f
            THEN space[PROCESSES[f].owner].root = f
            ELSE key = f

\* As long as the timer has not stopped reap() between its steps, no process
\* finds another one's entry under its PML4.
OwnStateIfCalm == calm => OwnState

\* The invariant of ProcState.brk, on the same condition: exactly the pages below
\* the rounded break are mapped, for every living process, through fork, exec and
\* failed brk calls.
HeapMapped ==
    calm => \A s \in Slots :
        threads[s].cr3 /\ is_alive(threads[s].state) =>
            \A p \in 1 .. MaxHeap :
                space[s].heap[p] # NoFrame <=> p <= page_up(PROCESSES[space[s].root].brk)

\* "Another thread then spin-waits (and is itself preempted, so it resolves on
\* single-CPU)" (docs/HARDENING.md): whoever spins on a lock gets it in the end.
SpinResolves == \A s \in Slots : spinning = s ~> spinning # s
=============================================================================
