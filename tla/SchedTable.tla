----------------------------- MODULE SchedTable -----------------------------
(***************************************************************************)
(* The scheduler's thread table (sched/thread.rs) as a value, and what its *)
(* functions do to that value.  Every function below runs under the        *)
(* SCHEDULER lock with interrupts off on the only core, so each is one      *)
(* atomic change of the table.                                              *)
(*                                                                          *)
(* Of a Thread the properties tell apart its identity, its run state and    *)
(* its outcome.  Left out: rsp, stack, kernel_stack_top, fs_base and fpu    *)
(* (the saved context) and pending_signals (written, never read).           *)
(***************************************************************************)
EXTENDS Integers

CONSTANTS MaxThreads,  \* bound on the length of the table
          Codes,       \* the exit codes processes use
          Sent         \* the signals processes send with kill

ASSUME TableAssumption == /\ MaxThreads \in Nat /\ MaxThreads > 1
                          /\ Codes \subseteq Nat
                          /\ Sent \subseteq 0 .. 64

Slots    == 0 .. MaxThreads - 1
Pids     == 0 .. MaxThreads
NoPid    == -1
NoStatus == -1
NoSignal == 0
Signals  == 1 .. 64
SIGSEGV  == 11
Statuses == Codes \cup {128 + s : s \in Signals}

State       == {"Runnable", "Blocked", "Zombie", "Dead", "Reaped"}
BlockReason == {"None", "Child", "Stdin", "Pipe"}

Thread == [pid         : Pids,
           parent      : Pids,
           exit_status : Statuses \cup {NoStatus},
           term_signal : Signals \cup {NoSignal},
           cr3         : BOOLEAN,            \* cr3.is_some(): a user process
           state       : State,
           blocked_on  : BlockReason]

\* A slot the Vec has not grown to yet.
FreeSlot == [pid |-> NoPid, parent |-> NoPid, exit_status |-> NoStatus,
             term_signal |-> NoSignal, cr3 |-> FALSE,
             state |-> "Free", blocked_on |-> "None"]

NewThread(pid, parent, user) ==
    [pid |-> pid, parent |-> parent, exit_status |-> NoStatus,
     term_signal |-> NoSignal, cr3 |-> user,
     state |-> "Runnable", blocked_on |-> "None"]

is_alive(state) == state \in {"Runnable", "Blocked"}

default_terminates(sig) == sig \notin (17 .. 23) \cup {28}

\* Mutants of terminate: the children keep their dead parent; the parent that
\* sleeps in wait is not woken.
Terminated_keeps_children(ths, idx, status, signal) ==
    LET me == ths[idx] IN
    [j \in Slots |->
        [ths[j] EXCEPT
            !.exit_status = IF j = idx THEN status ELSE @,
            !.term_signal = IF j = idx THEN signal ELSE @,
            !.state       =
                IF j = idx THEN "Zombie"
                ELSE IF /\ me.parent # 0 /\ ths[j].pid = me.parent
                        /\ @ = "Blocked" /\ ths[j].blocked_on = "Child"
                     THEN "Runnable"
                     ELSE @]]

Terminated_wakes_nobody(ths, idx, status, signal) ==
    [j \in Slots |->
        [ths[j] EXCEPT
            !.exit_status = IF j = idx THEN status ELSE @,
            !.term_signal = IF j = idx THEN signal ELSE @,
            !.parent      = IF @ = ths[idx].pid THEN 0 ELSE @,
            !.state       = IF j = idx THEN "Zombie" ELSE @]]

(***************************************************************************)
(* terminate(idx): record the outcome, hand the children over to PID 0,    *)
(* and make the parent Runnable if it is blocked in wait.                   *)
(***************************************************************************)
Terminated(ths, idx, status, signal) ==
    LET me == ths[idx] IN
    [j \in Slots |->
        [ths[j] EXCEPT
            !.exit_status = IF j = idx THEN status ELSE @,
            !.term_signal = IF j = idx THEN signal ELSE @,
            !.parent      = IF @ = me.pid THEN 0 ELSE @,
            !.state       =
                IF j = idx THEN "Zombie"
                ELSE IF /\ me.parent # 0 /\ ths[j].pid = me.parent
                        /\ @ = "Blocked" /\ ths[j].blocked_on = "Child"
                     THEN "Runnable"
                     ELSE @]]

\* block_current_on_stdin, block_current_on_pipe and the WouldBlock arm of wait.
BlockedOn(ths, idx, reason) ==
    [ths EXCEPT ![idx].state = "Blocked", ![idx].blocked_on = reason]

\* wake_stdin_readers and wake_pipe_waiters: everyone blocked for the reason.
Woken(ths, reason) ==
    [j \in Slots |->
        IF ths[j].state = "Blocked" /\ ths[j].blocked_on = reason
        THEN [ths[j] EXCEPT !.state = "Runnable"]
        ELSE ths[j]]

\* is_mine of try_collect_or_block; a want of 0 stands for "any child".
IsMine(t, cur_pid, want) == t.parent = cur_pid /\ (want = 0 \/ t.pid = want)

MyZombies(ths, cur, want) ==
    {i \in Slots : IsMine(ths[i], ths[cur].pid, want) /\ ths[i].state = "Zombie"}

MyLiving(ths, cur, want) ==
    {i \in Slots : IsMine(ths[i], ths[cur].pid, want) /\ is_alive(ths[i].state)}

\* A zombie whose parent has taken its outcome.
Collected(ths, z) == [ths EXCEPT ![z].state = "Dead"]

\* Mutants of collectable: zombies still to be waited for; orphans forgotten.
Collectable_any_zombie(t) == t.state \in {"Dead", "Zombie"}
Collectable_only_dead(t) == t.state = "Dead"

\* What the reaper may free: collected threads, and zombies nobody can wait for.
Collectable(t) == t.state = "Dead" \/ (t.state = "Zombie" /\ t.parent = 0)

Reaped(ths, cur) ==
    [j \in Slots |->
        IF j # cur /\ Collectable(ths[j])
        THEN [ths[j] EXCEPT !.cr3 = FALSE, !.state = "Reaped"]
        ELSE ths[j]]

\* Mutant: the search starts at slot 0 instead of after the running thread.
SwitchesTo_lowest(ths, n, cur, next) ==
    /\ next \in 0 .. n - 1
    /\ ths[next].state = "Runnable"
    /\ \A e \in 0 .. next - 1 : ths[e].state # "Runnable"

(***************************************************************************)
(* The choice switch_to_next makes in a table of n threads: the first       *)
(* Runnable thread strictly after cur, round robin; cur itself when there   *)
(* is none (the code then asserts that cur is Runnable).                    *)
(***************************************************************************)
SwitchesTo(ths, n, cur, next) ==
    \/ \E d \in 1 .. n - 1 :
          /\ next = (cur + d) % n
          /\ ths[next].state = "Runnable"
          /\ \A e \in 1 .. d - 1 : ths[(cur + e) % n].state # "Runnable"
    \/ /\ next = cur
       /\ \A d \in 1 .. n - 1 : ths[(cur + d) % n].state # "Runnable"

\* The status word sys_wait4 writes for the parent.
Encoded(status, signal) ==
    IF signal # NoSignal THEN signal ELSE (status % 256) * 256
=============================================================================
