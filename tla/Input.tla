------------------------------- MODULE Input -------------------------------
(***************************************************************************)
(* Keyboard input from the interrupt to read(0): the scan-code queue and its   *)
(* waker (drivers/keyboard.rs), the executor on thread 0 that polls the         *)
(* keyboard task, reaps and halts (sched/executor.rs), the line discipline       *)
(* (drivers/console.rs) and the blocking read of standard input                  *)
(* (syscall/files.rs), over the scheduler of Thread.                             *)
(*                                                                              *)
(* The keyboard interrupt comes between any two steps of thread 0 and whenever   *)
(* a process runs in ring 3.  A scan code is the key it decodes to: a printable   *)
(* character, Newline, Backspace or Other (a key release, a raw key).             *)
(***************************************************************************)
EXTENDS Thread, Sequences, FiniteSetsExt

CONSTANTS QUEUE_SIZE,      \* capacity of SCANCODE_QUEUE (128 in the code)
          TASK_QUEUE,      \* capacity of the executor's task_queue (100 in the code)
          Keys,            \* the keys that are pressed
          MaxKeys,         \* bound on the keys pressed
          MaxPending       \* bound on task_queue in the interrupt (above TASK_QUEUE: none)

Newline   == "Newline"
Backspace == "Backspace"
Other     == "Other"

ASSUME InputAssumption == /\ QUEUE_SIZE \in Nat \ {0} /\ TASK_QUEUE \in Nat \ {0}
                          /\ MaxKeys \in Nat /\ MaxPending \in Nat /\ IsFiniteSet(Keys)

VARIABLES
    scancodes,   \* SCANCODE_QUEUE
    waker,       \* is the task's waker registered in WAKER?
    task_queue,  \* entries of the executor's queue (all of the keyboard task)
    pc,          \* where thread 0 is in executor.run()
    key,         \* the scan code poll_next returned, while it is handled
    line, ready, \* the console: the line being edited, the bytes of finished lines
    reading,     \* per slot: is it inside the loop of read_stdin?
    panicked,    \* a push on a full task_queue
    typed, got   \* history: keys the interrupt queued, bytes read(0) returned

inputVars == <<scancodes, waker, task_queue, pc, key, line, ready, reading, panicked, typed, got>>
allVars   == <<vars, inputVars>>

InputInit ==
    /\ Init
    /\ scancodes = <<>> /\ waker = FALSE
    /\ task_queue = 1               \* executor.spawn
    /\ pc = "run" /\ key = Other
    /\ line = <<>> /\ ready = <<>>
    /\ reading = [s \in Slots |-> FALSE]
    /\ panicked = FALSE
    /\ typed = <<>> /\ got = <<>>

\* Interrupts are on: thread 0 between steps, or a process in ring 3.
Interruptible == Outside /\ ~ reading[current] /\ ~ panicked

\* Any interrupt ends hlt.
Unhalted == IF pc = "halted" THEN "run" ELSE pc

\* Mutant: the queue is taken to have room.
add_scancode_unbounded(k) ==
    /\ Interruptible
    /\ Len(typed) < MaxKeys
    /\ task_queue < MaxPending
    /\ pc' = Unhalted
    /\ scancodes' = Append(scancodes, k)
    /\ typed' = Append(typed, k)
    /\ waker' = FALSE
    /\ task_queue' = IF waker THEN task_queue + 1 ELSE task_queue
    /\ UNCHANGED <<vars, panicked, key, line, ready, reading, got>>

\* wake_task: one more id on the task_queue; a full queue is a panic.
wake_task ==
    /\ panicked' = (task_queue = TASK_QUEUE)
    /\ task_queue' = IF task_queue < TASK_QUEUE THEN task_queue + 1 ELSE task_queue

(***************************************************************************)
(* keyboard_interrupt_handler: a full queue drops the byte; otherwise the      *)
(* registered waker, if any, is taken and pushes the task on the task_queue.    *)
(***************************************************************************)
add_scancode(k) ==
    /\ Interruptible
    /\ Len(typed) < MaxKeys                  \* bound
    /\ task_queue < MaxPending                \* bound
    /\ pc' = Unhalted
    /\ IF Len(scancodes) = QUEUE_SIZE
       THEN UNCHANGED <<scancodes, waker, task_queue, panicked, typed>>
       ELSE /\ scancodes' = Append(scancodes, k)
            /\ typed' = Append(typed, k)
            /\ waker' = FALSE
            /\ IF waker THEN wake_task ELSE UNCHANGED <<task_queue, panicked>>
    /\ UNCHANGED <<vars, key, line, ready, reading, got>>

-----------------------------------------------------------------------------
(***************************************************************************)
(* Thread 0: one action per step of executor.run() that an interrupt can       *)
(* separate from the next.                                                      *)
(***************************************************************************)
At(label) == current = 0 /\ ~ panicked /\ pc = label

run_ready_tasks ==
    /\ At("run")
    /\ IF task_queue > 0 THEN task_queue' = task_queue - 1 /\ pc' = "poll_next"
                         ELSE UNCHANGED task_queue /\ pc' = "reap"
    /\ UNCHANGED <<vars, scancodes, waker, key, line, ready, reading, panicked, typed, got>>

poll_next ==
    /\ At("poll_next")
    /\ IF scancodes # <<>>
       THEN key' = Head(scancodes) /\ scancodes' = Tail(scancodes) /\ pc' = "process_input"
       ELSE UNCHANGED <<key, scancodes>> /\ pc' = "register"
    /\ UNCHANGED <<vars, waker, task_queue, line, ready, reading, panicked, typed, got>>

register ==
    /\ At("register")
    /\ waker' = TRUE
    /\ pc' = "poll_again"
    /\ UNCHANGED <<vars, scancodes, task_queue, key, line, ready, reading, panicked, typed, got>>

\* Mutant: no second look after registering.
poll_again_skipped ==
    /\ At("poll_again")
    /\ pc' = "run"
    /\ UNCHANGED <<vars, scancodes, waker, task_queue, key, line, ready, reading, panicked, typed, got>>

poll_again ==
    /\ At("poll_again")
    /\ IF scancodes # <<>>
       THEN /\ key' = Head(scancodes) /\ scancodes' = Tail(scancodes)
            /\ waker' = FALSE
            /\ pc' = "process_input"
       ELSE UNCHANGED <<key, scancodes, waker>> /\ pc' = "run"
    /\ UNCHANGED <<vars, task_queue, line, ready, reading, panicked, typed, got>>

\* The line discipline: Backspace edits the current line, Newline finishes it.
EditedLine(k) == IF k = Newline THEN <<>>
                 ELSE IF k # Backspace THEN Append(line, k)
                 ELSE IF line = <<>> THEN <<>> ELSE SubSeq(line, 1, Len(line) - 1)

ReadyAfter(k) == IF k = Newline THEN ready \o Append(line, Newline) ELSE ready

\* Mutant: a finished line wakes nobody.
feed_char_silent ==
    /\ At("process_input")
    /\ line' = IF key = Other THEN line ELSE EditedLine(key)
    /\ ready' = ReadyAfter(key)
    /\ pc' = "poll_next"
    /\ UNCHANGED <<vars, scancodes, waker, task_queue, key, reading, panicked, typed, got>>

\* process_input up to the end of the locked part of feed_char.
feed_char ==
    /\ At("process_input")
    /\ line' = IF key = Other THEN line ELSE EditedLine(key)
    /\ ready' = ReadyAfter(key)
    /\ pc' = IF key = Newline THEN "wake" ELSE "poll_next"
    /\ UNCHANGED <<vars, scancodes, waker, task_queue, key, reading, panicked, typed, got>>

wake_stdin_readers ==
    /\ At("wake")
    /\ Wake("Stdin")
    /\ pc' = "poll_next"
    /\ UNCHANGED <<scancodes, waker, task_queue, key, line, ready, reading, panicked, typed, got>>

reap ==
    /\ At("reap")
    /\ Reap
    /\ pc' = "idle"
    /\ UNCHANGED <<scancodes, waker, task_queue, key, line, ready, reading, panicked, typed, got>>

\* The check and hlt are one step: interrupts are off until hlt.
sleep_if_idle ==
    /\ At("idle")
    /\ pc' = IF task_queue = 0 THEN "halted" ELSE "run"
    /\ UNCHANGED <<vars, scancodes, waker, task_queue, key, line, ready, reading, panicked, typed, got>>

executor == \/ run_ready_tasks \/ poll_next \/ register \/ poll_again \/ feed_char
            \/ wake_stdin_readers \/ reap \/ sleep_if_idle

-----------------------------------------------------------------------------
(***************************************************************************)
(* read(0): take at most count bytes of the first finished line, or block.      *)
(* When the user's buffer is bad the bytes go back to the front.                 *)
(***************************************************************************)
LineLen == IF ready = <<>> THEN 0 ELSE Min({i \in DOMAIN ready : ready[i] = Newline})

take_ready(count) == SubSeq(ready, 1, Min({count, LineLen}))

\* Mutant: the bytes are pushed back in the order they came.
unread_reversed(bytes, rest) == [i \in DOMAIN bytes |-> bytes[Len(bytes) + 1 - i]] \o rest

unread(bytes, rest) == bytes \o rest

ReadTurn(count) ==
    LET bytes == take_ready(count)
        rest  == SubSeq(ready, Len(bytes) + 1, Len(ready))
    IN \/ /\ ready # <<>>
          /\ \/ /\ ready' = rest
                /\ got' = got \o bytes
             \/ /\ ready' = unread(bytes, rest)
                /\ UNCHANGED got
          /\ reading' = [reading EXCEPT ![current] = FALSE]
          /\ UNCHANGED vars
       \/ /\ ready = <<>>
          /\ Block("Stdin")
          /\ reading' = [reading EXCEPT ![current] = TRUE]
          /\ UNCHANGED <<ready, got>>

Counts == {1, MaxKeys}

read_stdin ==
    /\ Interruptible /\ InUser
    /\ \E count \in Counts : ReadTurn(count)
    /\ UNCHANGED <<scancodes, waker, task_queue, pc, key, line, panicked, typed>>

\* Back in the loop after the wake-up, interrupts still off.
ReadResume ==
    /\ reading[current] /\ ~ panicked
    /\ \E count \in Counts : ReadTurn(count)
    /\ UNCHANGED <<scancodes, waker, task_queue, pc, key, line, panicked, typed>>

\* What else processes do.
Processes ==
    /\ Interruptible
    /\ \/ Fork
       \/ \E code \in Codes : Exit(code, FALSE)
       \/ \E pid \in Pids, sig \in Sent : Kill(pid, sig)
    /\ reading' = [s \in Slots |-> reading[s] /\ is_alive(threads'[s].state)]
    /\ UNCHANGED <<scancodes, waker, task_queue, pc, key, line, ready, panicked, typed, got>>

Tick ==
    /\ Interruptible
    /\ TimerTick
    /\ pc' = Unhalted
    /\ UNCHANGED <<scancodes, waker, task_queue, key, line, ready, reading, panicked, typed, got>>

InputNext ==
    \/ \E k \in Keys : add_scancode(k)
    \/ run_ready_tasks
    \/ poll_next
    \/ register
    \/ poll_again
    \/ feed_char
    \/ wake_stdin_readers
    \/ reap
    \/ sleep_if_idle
    \/ read_stdin
    \/ ReadResume
    \/ Processes
    \/ Tick

InputSpec == InputInit /\ [][InputNext]_allVars

\* The timer is fair (see Thread); thread 0 goes on whenever it keeps getting
\* the CPU; a woken reader turns its loop before anything else can run.
InputFairSpec ==
    InputSpec /\ SF_allVars(Tick) /\ SF_allVars(executor) /\ WF_allVars(ReadResume)

-----------------------------------------------------------------------------
\* Queues within their capacities, thread 0 at a step of executor.run().
InputTypeOK ==
    /\ scancodes \in Seq(Keys) /\ Len(scancodes) <= QUEUE_SIZE
    /\ waker \in BOOLEAN /\ panicked \in BOOLEAN
    /\ task_queue \in 0 .. TASK_QUEUE
    /\ pc \in {"run", "poll_next", "register", "poll_again", "process_input", "wake",
               "reap", "idle", "halted"}
    /\ key \in Keys \cup {Other}
    /\ line \in Seq(Keys \ {Newline, Backspace, Other})
    /\ ready \in Seq(Keys \ {Backspace, Other})
    /\ reading \in [Slots -> BOOLEAN]
    /\ typed \in Seq(Keys) /\ got \in Seq(Keys)

\* What typing means: Backspace takes back the last character of the current
\* line, and what Enter has finished stays.
Edited(text, k) ==
    IF k = Other THEN text
    ELSE IF k # Backspace THEN Append(text, k)
    ELSE IF text = <<>> \/ text[Len(text)] = Newline THEN text
    ELSE SubSeq(text, 1, Len(text) - 1)

\* The text after each of the keys.
Texts(keys) ==
    LET text[n \in 0 .. Len(keys)] == IF n = 0 THEN <<>> ELSE Edited(text[n - 1], keys[n])
    IN text

Typed(keys) == Texts(keys)[Len(keys)]

\* What the interrupt queued and the console has not been fed yet.
Pending == (IF pc = "process_input" THEN <<key>> ELSE <<>>) \o scancodes

\* Input is neither lost, duplicated nor reordered between the scan-code queue
\* and read(0), wherever interrupts fall, whoever reads, in pieces of whatever
\* size, and however many reads fail with EFAULT and put their bytes back.
TypedIsRead ==
    LET n == Len(typed) - Len(Pending)
    IN /\ n >= 0 /\ SubSeq(typed, n + 1, Len(typed)) = Pending
       /\ got \o ready \o line = Typed(SubSeq(typed, 1, n))

\* No lost wake-up of a reader: a process asleep in read(0) means that no line
\* is waiting, except between feed_char's unlock and its wake-up.
StdinSound ==
    \A s \in Slots :
        (reading[s] /\ threads[s].state = "Blocked") =>
            /\ threads[s].blocked_on = "Stdin"
            /\ ready = <<>> \/ pc = "wake"

\* No lost wake-up of the executor: it halts only with the task's waker
\* registered and no scan code waiting, wherever the interrupts fell.
HaltSound == pc = "halted" => scancodes = <<>> /\ waker /\ task_queue = 0

\* A process that reads gets a line that is there, or another one took it.
LineIsRead ==
    \A s \in Slots \ {0} :
        (reading[s] /\ is_alive(threads[s].state) /\ ready # <<>>)
            ~> (~ reading[s] \/ ~ is_alive(threads[s].state) \/ ready = <<>>)
=============================================================================
