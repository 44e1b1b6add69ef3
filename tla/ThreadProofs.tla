---------------------------- MODULE ThreadProofs ----------------------------
(***************************************************************************)
(* Theorems about Thread, for every table size, every set of exit codes and  *)
(* every set of signals.                                                      *)
(***************************************************************************)
EXTENDS Thread, TLAPS

\* The round robin of switch_to_next ends at a Runnable thread of the table
\* whenever thread 0 is Runnable.
LEMMA SwitchRunnable ==
    ASSUME NEW ths \in [Slots -> Thread \cup {FreeSlot}],
           NEW n \in 2 .. MaxThreads, NEW cur \in 0 .. n - 1, NEW next \in Slots,
           ths[0].state = "Runnable", SwitchesTo(ths, n, cur, next)
    PROVE  next \in 0 .. n - 1 /\ ths[next].state = "Runnable"
<1>1. CASE \E d \in 1 .. n - 1 : next = (cur + d) % n /\ ths[next].state = "Runnable"
  <2>1. PICK d \in 1 .. n - 1 : next = (cur + d) % n /\ ths[next].state = "Runnable"
    BY <1>1
  <2>2. (cur + d) % n \in 0 .. n - 1
    BY TableAssumption
  <2>. QED BY <2>1, <2>2
<1>2. CASE next = cur /\ \A d \in 1 .. n - 1 : ths[(cur + d) % n].state # "Runnable"
  <2>1. CASE cur = 0
    BY <1>2, <2>1
  <2>2. CASE cur # 0
    <3>1. n - cur \in 1 .. n - 1 /\ (cur + (n - cur)) % n = 0
      BY <2>2, TableAssumption
    <3>. QED BY <3>1, <1>2
  <2>. QED BY <2>1, <2>2
<1>. QED BY <1>1, <1>2 DEF SwitchesTo

-----------------------------------------------------------------------------
(***************************************************************************)
(* What the table functions do to each field, and that they map tables to    *)
(* tables.                                                                    *)
(***************************************************************************)
Row == Thread \cup {FreeSlot}

\* A row of the table that is not a free slot is a Thread, and its fields have
\* the types of the Rust struct.
LEMMA RowFields ==
    ASSUME NEW t \in Row
    PROVE  /\ t.pid \in Int /\ t.parent \in Int
           /\ t = FreeSlot <=> t.state = "Free"
           /\ t # FreeSlot => t \in Thread /\ t.pid \in Pids /\ t.parent \in Pids
           /\ t = FreeSlot => t.pid = NoPid /\ t.parent = NoPid
BY TableAssumption DEF Row, Thread, FreeSlot, Pids, NoPid, State

\* What terminate() leaves in every row: the outcome in the dead one, PID 0 as
\* the parent of its children, and a Runnable parent if that slept in wait.
LEMMA TerminatedFields ==
    ASSUME NEW ths \in [Slots -> Row], NEW idx \in Slots, ths[idx] # FreeSlot,
           NEW status \in Statuses, NEW signal \in Signals \cup {NoSignal},
           NEW new, new = Terminated(ths, idx, status, signal)
    PROVE  /\ new \in [Slots -> Row]
           /\ \A j \in Slots :
                /\ new[j] = FreeSlot <=> ths[j] = FreeSlot
                /\ new[j].pid = ths[j].pid
                /\ new[j].cr3 = ths[j].cr3
                /\ new[j].blocked_on = ths[j].blocked_on
                /\ new[j].exit_status = IF j = idx THEN status ELSE ths[j].exit_status
                /\ new[j].term_signal = IF j = idx THEN signal ELSE ths[j].term_signal
                /\ new[j].parent = IF ths[j].parent = ths[idx].pid THEN 0 ELSE ths[j].parent
                /\ new[j].state =
                     IF j = idx THEN "Zombie"
                     ELSE IF /\ ths[idx].parent # 0 /\ ths[j].pid = ths[idx].parent
                             /\ ths[j].state = "Blocked" /\ ths[j].blocked_on = "Child"
                          THEN "Runnable"
                          ELSE ths[j].state
<1>1. ths[idx] \in Thread /\ ths[idx].pid \in Pids /\ ths[idx].parent \in Pids
  BY RowFields
<1>2. ASSUME NEW j \in Slots
      PROVE  /\ new[j] \in Row
             /\ new[j] = FreeSlot <=> ths[j] = FreeSlot
             /\ new[j].pid = ths[j].pid
             /\ new[j].cr3 = ths[j].cr3
             /\ new[j].blocked_on = ths[j].blocked_on
             /\ new[j].exit_status = IF j = idx THEN status ELSE ths[j].exit_status
             /\ new[j].term_signal = IF j = idx THEN signal ELSE ths[j].term_signal
             /\ new[j].parent = IF ths[j].parent = ths[idx].pid THEN 0 ELSE ths[j].parent
             /\ new[j].state =
                  IF j = idx THEN "Zombie"
                  ELSE IF /\ ths[idx].parent # 0 /\ ths[j].pid = ths[idx].parent
                          /\ ths[j].state = "Blocked" /\ ths[j].blocked_on = "Child"
                       THEN "Runnable"
                       ELSE ths[j].state
  <2>1. CASE ths[j] = FreeSlot
    <3>1. j # idx /\ ths[idx].pid # NoPid /\ ths[j].parent = NoPid /\ ths[j].state = "Free"
      BY <1>1, <2>1, TableAssumption DEF FreeSlot, Pids, NoPid
    <3>2. new[j] = [ths[j] EXCEPT !.exit_status = ths[j].exit_status,
                                  !.term_signal = ths[j].term_signal,
                                  !.parent = ths[j].parent,
                                  !.state = ths[j].state]
      BY Zenon, <3>1 DEF Terminated
    <3>3. new[j] = FreeSlot
      BY Zenon, <3>2, <2>1 DEF FreeSlot
    <3>. QED BY <3>1, <3>3, <2>1 DEF Row
  <2>2. CASE ths[j] # FreeSlot
    <3> DEFINE e == IF j = idx THEN status ELSE ths[j].exit_status
               g == IF j = idx THEN signal ELSE ths[j].term_signal
               p == IF ths[j].parent = ths[idx].pid THEN 0 ELSE ths[j].parent
               s == IF j = idx THEN "Zombie"
                    ELSE IF /\ ths[idx].parent # 0 /\ ths[j].pid = ths[idx].parent
                            /\ ths[j].state = "Blocked" /\ ths[j].blocked_on = "Child"
                         THEN "Runnable"
                         ELSE ths[j].state
    <3>1. ths[j] \in Thread
      BY <2>2 DEF Row
    <3>2. /\ e \in Statuses \cup {NoStatus} /\ g \in Signals \cup {NoSignal}
          /\ p \in Pids /\ s \in State
      BY <3>1, <1>1, TableAssumption DEF Thread, Pids, State
    <3>3. new[j] = [ths[j] EXCEPT !.exit_status = e, !.term_signal = g,
                                  !.parent = p, !.state = s]
      BY Zenon DEF Terminated
    <3> HIDE DEF e, g, p, s
    <3>4. /\ new[j] \in Thread
          /\ new[j].exit_status = e /\ new[j].term_signal = g
          /\ new[j].parent = p /\ new[j].state = s
          /\ new[j].pid = ths[j].pid /\ new[j].cr3 = ths[j].cr3
          /\ new[j].blocked_on = ths[j].blocked_on
      BY Zenon, <3>1, <3>2, <3>3 DEF Thread
    <3>5. new[j] # FreeSlot /\ new[j] \in Row
      BY <3>4, RowFields DEF Row, Thread, State
    <3>. QED BY <3>4, <3>5, <2>2 DEF e, g, p, s
  <2>. QED BY <2>1, <2>2
<1>3. new = [j \in Slots |-> new[j]]
  BY Zenon DEF Terminated
<1>. QED BY <1>2, <1>3

\* new is a table that differs from ths at most in cr3, state and blocked_on.
KeepsFamily(new, ths) ==
    /\ new \in [Slots -> Row]
    /\ \A j \in Slots : /\ new[j] = FreeSlot <=> ths[j] = FreeSlot
                        /\ new[j].pid = ths[j].pid
                        /\ new[j].parent = ths[j].parent
                        /\ new[j].exit_status = ths[j].exit_status
                        /\ new[j].term_signal = ths[j].term_signal

\* wake_stdin_readers and wake_pipe_waiters change only the run state of the
\* threads blocked for their reason.
LEMMA WokenFields ==
    ASSUME NEW ths \in [Slots -> Row], NEW reason, NEW new, new = Woken(ths, reason)
    PROVE  /\ KeepsFamily(new, ths)
           /\ \A j \in Slots :
                /\ new[j].cr3 = ths[j].cr3
                /\ new[j].blocked_on = ths[j].blocked_on
                /\ new[j].state = IF ths[j].state = "Blocked" /\ ths[j].blocked_on = reason
                                  THEN "Runnable" ELSE ths[j].state
<1>1. ASSUME NEW j \in Slots, ths[j].state = "Blocked" /\ ths[j].blocked_on = reason
      PROVE  /\ ths[j] \in Thread /\ ths[j] # FreeSlot
             /\ new[j] = [ths[j] EXCEPT !.state = "Runnable"]
             /\ new[j] \in Thread
  <2>1. ths[j] \in Thread /\ ths[j] # FreeSlot
    BY <1>1 DEF Row, FreeSlot
  <2>2. new[j] = [ths[j] EXCEPT !.state = "Runnable"]
    BY <1>1 DEF Woken
  <2>. QED BY <2>1, <2>2 DEF Thread, State
<1>2. ASSUME NEW j \in Slots, ~ (ths[j].state = "Blocked" /\ ths[j].blocked_on = reason)
      PROVE  new[j] = ths[j]
  BY <1>2 DEF Woken
<1>3. ASSUME NEW j \in Slots
      PROVE  /\ new[j] \in Row
             /\ new[j] = FreeSlot <=> ths[j] = FreeSlot
             /\ new[j].pid = ths[j].pid
             /\ new[j].parent = ths[j].parent
             /\ new[j].exit_status = ths[j].exit_status
             /\ new[j].term_signal = ths[j].term_signal
             /\ new[j].cr3 = ths[j].cr3
             /\ new[j].blocked_on = ths[j].blocked_on
             /\ new[j].state = IF ths[j].state = "Blocked" /\ ths[j].blocked_on = reason
                               THEN "Runnable" ELSE ths[j].state
  <2>1. CASE ths[j].state = "Blocked" /\ ths[j].blocked_on = reason
    <3>1. new[j].state = "Runnable"
      BY Zenon, <1>1, <2>1 DEF Thread
    <3>2. new[j] # FreeSlot
      BY <3>1 DEF FreeSlot
    <3>t. ths[j] \in Thread /\ new[j] = [ths[j] EXCEPT !.state = "Runnable"]
      BY <1>1, <2>1
    <3>3. /\ new[j].pid = ths[j].pid /\ new[j].parent = ths[j].parent
          /\ new[j].exit_status = ths[j].exit_status
          /\ new[j].term_signal = ths[j].term_signal
          /\ new[j].cr3 = ths[j].cr3 /\ new[j].blocked_on = ths[j].blocked_on
      BY <3>t DEF Thread
    <3>. QED BY Zenon, <1>1, <2>1, <3>1, <3>2, <3>3 DEF Row
  <2>2. CASE ~ (ths[j].state = "Blocked" /\ ths[j].blocked_on = reason)
    BY <1>2, <2>2
  <2>. QED BY <2>1, <2>2
<1>4. new = [j \in Slots |-> new[j]]
  BY DEF Woken
<1>. QED BY <1>3, <1>4 DEF KeepsFamily

\* Blocking the running thread changes nothing in the other rows.
LEMMA BlockedFields ==
    ASSUME NEW ths \in [Slots -> Row], NEW idx \in Slots, ths[idx] # FreeSlot,
           NEW reason \in BlockReason, NEW new, new = BlockedOn(ths, idx, reason)
    PROVE  /\ KeepsFamily(new, ths)
           /\ new[idx].state = "Blocked" /\ new[idx].blocked_on = reason
           /\ new[idx].cr3 = ths[idx].cr3
           /\ \A j \in Slots : j # idx => new[j] = ths[j]
<1>1. ths[idx] \in Thread
  BY DEF Row
<1>2. /\ new[idx] = [ths[idx] EXCEPT !.state = "Blocked", !.blocked_on = reason]
      /\ \A j \in Slots : j # idx => new[j] = ths[j]
      /\ new = [j \in Slots |-> new[j]]
  BY Zenon DEF BlockedOn
<1>3. /\ new[idx] \in Thread
      /\ new[idx].state = "Blocked" /\ new[idx].blocked_on = reason
      /\ new[idx].pid = ths[idx].pid /\ new[idx].parent = ths[idx].parent
      /\ new[idx].exit_status = ths[idx].exit_status
      /\ new[idx].term_signal = ths[idx].term_signal
      /\ new[idx].cr3 = ths[idx].cr3
  BY Zenon, <1>1, <1>2 DEF Thread, State
<1>4. new[idx] # FreeSlot
  BY <1>3 DEF FreeSlot
<1>. QED BY Zenon, <1>2, <1>3, <1>4 DEF KeepsFamily, Row

\* The locked part of reap() touches only what is collectable, never the
\* running thread, and never a thread that is alive.
LEMMA ReapedFields ==
    ASSUME NEW ths \in [Slots -> Row], NEW cur \in Slots, NEW new, new = Reaped(ths, cur)
    PROVE  /\ KeepsFamily(new, ths)
           /\ \A j \in Slots :
                /\ new[j].blocked_on = ths[j].blocked_on
                /\ new[j].cr3 => ths[j].cr3
                /\ new[j].state = IF j # cur /\ Collectable(ths[j]) THEN "Reaped" ELSE ths[j].state
<1>1. ASSUME NEW j \in Slots, j # cur /\ Collectable(ths[j])
      PROVE  /\ new[j] \in Thread /\ new[j] # FreeSlot /\ ths[j] # FreeSlot
             /\ new[j].pid = ths[j].pid /\ new[j].parent = ths[j].parent
             /\ new[j].exit_status = ths[j].exit_status
             /\ new[j].term_signal = ths[j].term_signal
             /\ new[j].blocked_on = ths[j].blocked_on
             /\ new[j].state = "Reaped" /\ new[j].cr3 = FALSE
  <2>1. ths[j] \in Thread /\ ths[j] # FreeSlot
    BY <1>1 DEF Row, FreeSlot, Collectable
  <2>2. new[j] = [ths[j] EXCEPT !.cr3 = FALSE, !.state = "Reaped"]
    BY Zenon, <1>1 DEF Reaped
  <2>3. new[j] \in Thread /\ new[j].state = "Reaped"
    BY Zenon, <2>1, <2>2 DEF Thread, State
  <2>4. new[j] # FreeSlot
    BY <2>3 DEF FreeSlot
  <2>. QED BY <2>1, <2>2, <2>3, <2>4 DEF Thread
<1>2. ASSUME NEW j \in Slots, ~ (j # cur /\ Collectable(ths[j]))
      PROVE  new[j] = ths[j]
  BY Zenon, <1>2 DEF Reaped
<1>3. new = [j \in Slots |-> new[j]]
  BY Zenon DEF Reaped
<1>4. \A j \in Slots : new[j] \in Row
  BY Zenon, <1>1, <1>2 DEF Row
<1>5. KeepsFamily(new, ths)
  BY Zenon, <1>1, <1>2, <1>3, <1>4 DEF KeepsFamily
<1>6. \A j \in Slots : /\ new[j].blocked_on = ths[j].blocked_on
                       /\ new[j].cr3 => ths[j].cr3
                       /\ new[j].state = IF j # cur /\ Collectable(ths[j])
                                         THEN "Reaped" ELSE ths[j].state
  BY Zenon, <1>1, <1>2
<1>. QED BY <1>5, <1>6

\* Collecting a zombie changes nothing but its state.
LEMMA CollectedFields ==
    ASSUME NEW ths \in [Slots -> Row], NEW z \in Slots, ths[z].state = "Zombie",
           NEW new, new = Collected(ths, z)
    PROVE  /\ KeepsFamily(new, ths)
           /\ new[z].state = "Dead" /\ new[z].cr3 = ths[z].cr3
           /\ \A j \in Slots : j # z => new[j] = ths[j]
<1>1. ths[z] \in Thread /\ ths[z] # FreeSlot
  BY DEF Row, FreeSlot
<1>2. /\ new[z] = [ths[z] EXCEPT !.state = "Dead"]
      /\ \A j \in Slots : j # z => new[j] = ths[j]
      /\ new = [j \in Slots |-> new[j]]
  BY Zenon DEF Collected
<1>3. /\ new[z] \in Thread /\ new[z].state = "Dead"
      /\ new[z].pid = ths[z].pid /\ new[z].parent = ths[z].parent
      /\ new[z].exit_status = ths[z].exit_status
      /\ new[z].term_signal = ths[z].term_signal
      /\ new[z].cr3 = ths[z].cr3
  BY <1>1, <1>2 DEF Thread, State
<1>4. new[z] # FreeSlot
  BY <1>3 DEF FreeSlot
<1>5. new \in [Slots -> Row]
  BY <1>2, <1>3 DEF Row
<1>6. KeepsFamily(new, ths)
  BY Zenon, <1>1, <1>2, <1>3, <1>4, <1>5 DEF KeepsFamily
<1>. QED BY <1>2, <1>3, <1>6

-----------------------------------------------------------------------------
(***************************************************************************)
(* The inductive invariant.  Its part about the table is a predicate of a     *)
(* table and of the waits in progress, so that each table function is shown   *)
(* to keep it once, whichever actions use the function.                        *)
(***************************************************************************)
Frame ==
    /\ len \in 2 .. MaxThreads
    /\ next_pid \in 2 .. MaxThreads + 1
    /\ spawning \in Pids \cup {NoPid}
    /\ creator \in [Slots -> Slots]
    /\ \A i \in 0 .. len - 1 : creator[i] < len
    /\ told \in [Slots -> Nat \cup {NotTold, Lost}]

TableTyped(ths) ==
    /\ ths \in [Slots -> Row]
    /\ \A i \in Slots : ths[i] = FreeSlot <=> i >= len

\* Thread 0 is the kernel and runs; pids are unique and below NEXT_PID, also
\* the one spawn() holds between taking it and pushing the thread.
Ids(ths) ==
    /\ ths[0].pid = 0 /\ ths[0].parent = 0 /\ ths[0].cr3 = FALSE
    /\ ths[0].state = "Runnable"
    /\ \A i \in 0 .. len - 1 : ths[i].pid < next_pid
    /\ \A i, j \in 0 .. len - 1 : ths[i].pid = ths[j].pid => i = j
    /\ spawning # NoPid =>
          /\ spawning > 0 /\ spawning < next_pid
          /\ \A i \in 0 .. len - 1 : ths[i].pid # spawning

Family(ths) ==
    \A i \in 0 .. len - 1 :
        ths[i].parent = IF is_alive(ths[creator[i]].state) THEN ths[creator[i]].pid ELSE 0

\* The wait of thread i is justified.
WaitOK(ths, i, want) ==
    /\ ths[i].state = "Blocked" =>
          /\ ths[i].blocked_on = "Child"
          /\ MyZombies(ths, i, want) = {} /\ MyLiving(ths, i, want) # {}
    /\ ths[i].state = "Runnable" =>
          MyZombies(ths, i, want) \cup MyLiving(ths, i, want) # {}

Waits(ths, w) ==
    /\ w \in [Slots -> Pids \cup {NoPid}]
    /\ \A i \in Slots : w[i] # NoPid => i \in 1 .. len - 1 /\ WaitOK(ths, i, w[i])

Good(ths, w) == TableTyped(ths) /\ Ids(ths) /\ Family(ths) /\ Waits(ths, w)

IInv ==
    /\ Frame
    /\ Good(threads, waiting)
    /\ current \in 0 .. len - 1 /\ threads[current].state = "Runnable"

\* The inductive invariant implies the properties the model checker runs on.
LEMMA IInvImplies ==
    IInv => TypeOK /\ CurrentRunnable /\ PidsDistinct /\ FamilyTree /\ WaitSound
<1> SUFFICES ASSUME IInv PROVE TypeOK /\ CurrentRunnable /\ PidsDistinct /\ FamilyTree /\ WaitSound
  OBVIOUS
<1> USE DEF IInv, Good
<1>1. TypeOK
  BY DEF Frame, TableTyped, Waits, TypeOK, Row
<1>2. CurrentRunnable /\ PidsDistinct /\ FamilyTree
  BY DEF Ids, Family, CurrentRunnable, PidsDistinct, FamilyTree
<1>3. WaitSound
  <2>1. \A i \in 0 .. len - 1 : i \in Slots
    BY TableAssumption DEF Frame, Slots
  <2>2. \A i \in 0 .. len - 1 : waiting[i] # NoPid => WaitOK(threads, i, waiting[i])
    BY <2>1 DEF Waits
  <2>. QED BY <2>2 DEF WaitOK, WaitSound
<1>. QED BY <1>1, <1>2, <1>3

\* A change of states that neither kills nor revives anyone keeps the family.
LEMMA KeepsGood ==
    ASSUME Frame, NEW ths, NEW new, TableTyped(ths), Ids(ths), Family(ths),
           KeepsFamily(new, ths), new[0].state = "Runnable", new[0].cr3 = FALSE,
           \A j \in Slots : is_alive(new[j].state) <=> is_alive(ths[j].state)
    PROVE  TableTyped(new) /\ Ids(new) /\ Family(new)
<1>1. 0 \in Slots /\ 0 .. len - 1 \subseteq Slots
  BY TableAssumption DEF Frame, Slots
<1>2. TableTyped(new)
  BY DEF TableTyped, KeepsFamily
<1>3. Ids(new)
  BY <1>1 DEF Ids, KeepsFamily
<1>4. Family(new)
  BY <1>1 DEF Family, KeepsFamily, Frame
<1>. QED BY <1>2, <1>3, <1>4

\* A waiting process has a pid other than 0 (the parent of orphans), and no
\* other thread has it.
LEMMA WaiterPid ==
    ASSUME Frame, NEW ths, TableTyped(ths), Ids(ths), NEW i \in 1 .. len - 1
    PROVE  /\ i \in Slots /\ ths[i] \in Thread
           /\ ths[i].pid \in Pids /\ ths[i].pid # 0
           /\ \A j \in Slots : ths[j].pid = ths[i].pid => j = i
<1>1. i \in Slots /\ i \in 0 .. len - 1 /\ 0 \in 0 .. len - 1 /\ ths[i] # FreeSlot
  BY TableAssumption DEF Frame, TableTyped, Slots
<1>2. ths[i] \in Thread /\ ths[i].pid \in Pids
  BY <1>1, RowFields DEF TableTyped
<1>3. ths[i].pid # 0
  BY <1>1 DEF Ids
<1>4. ASSUME NEW j \in Slots, ths[j].pid = ths[i].pid PROVE j = i
  <2>1. j < len
    BY <1>2, <1>4, RowFields DEF TableTyped, Frame, Slots, Pids, NoPid
  <2>. QED BY <2>1, <1>1, <1>4 DEF Ids, Slots, Frame
<1>. QED BY <1>1, <1>2, <1>3, <1>4

\* Waking threads blocked on input or pipes keeps the table right: nobody who
\* sleeps in wait is among them.
LEMMA WokenGood ==
    ASSUME Frame, NEW ths, NEW w, Good(ths, w), NEW reason, reason # "Child",
           NEW new, new = Woken(ths, reason)
    PROVE  Good(new, w)
<1>1. /\ KeepsFamily(new, ths)
      /\ \A j \in Slots :
           /\ new[j].cr3 = ths[j].cr3
           /\ new[j].blocked_on = ths[j].blocked_on
           /\ new[j].state = IF ths[j].state = "Blocked" /\ ths[j].blocked_on = reason
                             THEN "Runnable" ELSE ths[j].state
  BY WokenFields DEF Good, TableTyped
<1>2. 0 \in Slots
  BY TableAssumption DEF Slots
<1>3. TableTyped(new) /\ Ids(new) /\ Family(new)
  <2>1. \A j \in Slots : is_alive(new[j].state) <=> is_alive(ths[j].state)
    BY <1>1 DEF is_alive
  <2>2. new[0].state = "Runnable" /\ new[0].cr3 = FALSE
    BY <1>1, <1>2 DEF Good, Ids
  <2>. QED BY Zenon, <1>1, <2>1, <2>2, KeepsGood DEF Good
<1>4. ASSUME NEW i \in Slots, w[i] # NoPid
      PROVE  i \in 1 .. len - 1 /\ WaitOK(new, i, w[i])
  <2>1. i \in 1 .. len - 1 /\ WaitOK(ths, i, w[i])
    BY <1>4 DEF Good, Waits
  <2>2. /\ MyZombies(new, i, w[i]) = MyZombies(ths, i, w[i])
        /\ MyLiving(new, i, w[i]) = MyLiving(ths, i, w[i])
    BY <1>1, <1>4 DEF MyZombies, MyLiving, IsMine, KeepsFamily, is_alive
  <2>. QED BY <1>1, <1>4, <2>1, <2>2 DEF WaitOK
<1>. QED BY <1>3, <1>4 DEF Good, Waits

\* The reaper keeps the table right: a zombie it frees has no parent that could
\* be sleeping in wait for it.
LEMMA ReapedGood ==
    ASSUME Frame, NEW ths, NEW w, Good(ths, w), NEW new, new = Reaped(ths, 0)
    PROVE  Good(new, w)
<1>1. 0 \in Slots
  BY TableAssumption DEF Slots
<1>2. /\ KeepsFamily(new, ths)
      /\ \A j \in Slots :
           /\ new[j].blocked_on = ths[j].blocked_on
           /\ new[j].cr3 => ths[j].cr3
           /\ new[j].state = IF j # 0 /\ Collectable(ths[j]) THEN "Reaped" ELSE ths[j].state
  BY <1>1, ReapedFields DEF Good, TableTyped
<1>3. new[0] = ths[0]
  BY Zenon, <1>1 DEF Reaped
<1>4. TableTyped(new) /\ Ids(new) /\ Family(new)
  <2>1. \A j \in Slots : is_alive(new[j].state) <=> is_alive(ths[j].state)
    BY <1>2 DEF is_alive, Collectable
  <2>2. new[0].state = "Runnable" /\ new[0].cr3 = FALSE
    BY <1>3 DEF Good, Ids
  <2>. QED BY Zenon, <1>2, <2>1, <2>2, KeepsGood DEF Good
<1>5. ASSUME NEW i \in Slots, w[i] # NoPid
      PROVE  i \in 1 .. len - 1 /\ WaitOK(new, i, w[i])
  <2>1. i \in 1 .. len - 1 /\ WaitOK(ths, i, w[i])
    BY <1>5 DEF Good, Waits
  <2>2. ths[i].pid # 0
    BY <2>1, WaiterPid DEF Good
  <2>3. MyZombies(new, i, w[i]) = MyZombies(ths, i, w[i])
    BY <1>2, <1>5, <2>2 DEF MyZombies, IsMine, KeepsFamily, Collectable
  <2>4. MyLiving(new, i, w[i]) = MyLiving(ths, i, w[i])
    BY <1>2, <1>5 DEF MyLiving, IsMine, KeepsFamily, Collectable, is_alive
  <2>. QED BY <1>2, <1>5, <2>1, <2>3, <2>4 DEF WaitOK, Collectable
<1>. QED BY <1>4, <1>5 DEF Good, Waits

\* Blocking thread idx, in a wait for want if want is not NoPid.
LEMMA BlockedGood ==
    ASSUME Frame, NEW ths, NEW w, Good(ths, w), NEW idx \in 1 .. len - 1,
           is_alive(ths[idx].state), NEW reason \in BlockReason,
           NEW want \in Pids \cup {NoPid},
           want # NoPid => /\ reason = "Child"
                           /\ MyZombies(ths, idx, want) = {} /\ MyLiving(ths, idx, want) # {},
           NEW new, new = BlockedOn(ths, idx, reason)
    PROVE  Good(new, [w EXCEPT ![idx] = want])
<1> DEFINE w2 == [w EXCEPT ![idx] = want]
<1>1. 0 \in Slots /\ idx \in Slots /\ idx # 0 /\ ths[idx] # FreeSlot
  BY TableAssumption DEF Slots, Frame, Good, TableTyped
<1>2. /\ KeepsFamily(new, ths)
      /\ new[idx].state = "Blocked" /\ new[idx].blocked_on = reason
      /\ new[idx].cr3 = ths[idx].cr3
      /\ \A j \in Slots : j # idx => new[j] = ths[j]
  BY <1>1, BlockedFields DEF Good, TableTyped
<1>3. \A j \in Slots : is_alive(new[j].state) <=> is_alive(ths[j].state)
  BY <1>2 DEF is_alive
<1>4. TableTyped(new) /\ Ids(new) /\ Family(new)
  <2>1. new[0].state = "Runnable" /\ new[0].cr3 = FALSE
    BY <1>1, <1>2 DEF Good, Ids
  <2>. QED BY Zenon, <1>2, <1>3, <2>1, KeepsGood DEF Good
<1>5. \A i \in Slots : \A v : /\ MyZombies(new, i, v) = MyZombies(ths, i, v)
                              /\ MyLiving(new, i, v) = MyLiving(ths, i, v)
  <2>1. \A j \in Slots : ths[j].state = "Zombie" <=> new[j].state = "Zombie"
    BY <1>2 DEF is_alive
  <2>2. \A j \in Slots : new[j].pid = ths[j].pid /\ new[j].parent = ths[j].parent
    BY <1>2 DEF KeepsFamily
  <2>3. ASSUME NEW i \in Slots, NEW v, NEW j \in Slots
        PROVE  IsMine(new[j], new[i].pid, v) <=> IsMine(ths[j], ths[i].pid, v)
    BY <2>2, <2>3 DEF IsMine
  <2>4. \A i \in Slots : \A v : MyZombies(new, i, v) = MyZombies(ths, i, v)
    BY <2>1, <2>3 DEF MyZombies
  <2>5. \A i \in Slots : \A v : MyLiving(new, i, v) = MyLiving(ths, i, v)
    BY <1>3, <2>3 DEF MyLiving
  <2>. QED BY <2>4, <2>5
<1>6. ASSUME NEW i \in Slots, w2[i] # NoPid
      PROVE  i \in 1 .. len - 1 /\ WaitOK(new, i, w2[i])
  <2>1. CASE i = idx
    <3>1. w2[i] = want
      BY <2>1, <1>1 DEF Good, Waits
    <3>. QED BY <2>1, <3>1, <1>2, <1>5, <1>6 DEF WaitOK
  <2>2. CASE i # idx
    <3>1. w2[i] = w[i]
      BY <2>2, <1>1 DEF Good, Waits
    <3>2. i \in 1 .. len - 1 /\ WaitOK(ths, i, w[i])
      BY <1>6, <3>1 DEF Good, Waits
    <3>. QED BY <2>2, <3>1, <3>2, <1>2, <1>5 DEF WaitOK
  <2>. QED BY <2>1, <2>2
<1>7. w2 \in [Slots -> Pids \cup {NoPid}]
  BY <1>1 DEF Good, Waits
<1>. QED BY <1>4, <1>6, <1>7 DEF Good, Waits

\* terminate(): the children of idx become orphans, its waiting parent wakes.
LEMMA TerminatedGood ==
    ASSUME Frame, NEW ths, NEW w, Good(ths, w), NEW idx \in 1 .. len - 1,
           is_alive(ths[idx].state), NEW status \in Statuses,
           NEW signal \in Signals \cup {NoSignal},
           NEW new, new = Terminated(ths, idx, status, signal)
    PROVE  Good(new, w)
<1>1. 0 \in Slots /\ idx \in Slots /\ idx # 0 /\ ths[idx] # FreeSlot
  BY TableAssumption DEF Slots, Frame, Good, TableTyped
<1>2. 0 .. len - 1 \subseteq Slots
  BY TableAssumption DEF Slots, Frame
<1>3. /\ ths[idx].pid # 0
      /\ \A j \in Slots : ths[j].pid = ths[idx].pid => j = idx
  BY Zenon, WaiterPid DEF Good
<1>4. /\ new \in [Slots -> Row]
      /\ \A j \in Slots :
           /\ new[j] = FreeSlot <=> ths[j] = FreeSlot
           /\ new[j].pid = ths[j].pid
           /\ new[j].cr3 = ths[j].cr3
           /\ new[j].blocked_on = ths[j].blocked_on
           /\ new[j].parent = IF ths[j].parent = ths[idx].pid THEN 0 ELSE ths[j].parent
           /\ new[j].state =
                IF j = idx THEN "Zombie"
                ELSE IF /\ ths[idx].parent # 0 /\ ths[j].pid = ths[idx].parent
                        /\ ths[j].state = "Blocked" /\ ths[j].blocked_on = "Child"
                     THEN "Runnable"
                     ELSE ths[j].state
  BY SMTT(20), <1>1, TerminatedFields DEF Good, TableTyped
<1>5. TableTyped(new)
  BY <1>4 DEF Good, TableTyped
<1>6. Ids(new)
  <2>1. new[0].state = "Runnable" /\ new[0].parent = 0 /\ new[0].cr3 = FALSE
    BY <1>1, <1>3, <1>4 DEF Good, Ids
  <2>. QED BY SMTT(20), <1>1, <1>2, <1>4, <2>1 DEF Good, Ids
<1>7. \A j \in Slots : j # idx => (is_alive(new[j].state) <=> is_alive(ths[j].state))
  BY <1>4 DEF is_alive
<1>8. Family(new)
  <2> SUFFICES ASSUME NEW i \in 0 .. len - 1
               PROVE  new[i].parent = IF is_alive(new[creator[i]].state)
                                      THEN new[creator[i]].pid ELSE 0
    BY DEF Family
  <2>1. i \in Slots /\ creator[i] \in Slots
    BY <1>2 DEF Frame
  <2>2. ths[i].parent = IF is_alive(ths[creator[i]].state) THEN ths[creator[i]].pid ELSE 0
    BY DEF Good, Family
  <2>3. CASE creator[i] = idx
    BY <2>1, <2>2, <2>3, <1>1, <1>4 DEF is_alive
  <2>4. CASE creator[i] # idx
    <3>1. /\ is_alive(new[creator[i]].state) <=> is_alive(ths[creator[i]].state)
          /\ new[creator[i]].pid = ths[creator[i]].pid
          /\ ths[creator[i]].pid # ths[idx].pid
      BY Zenon, <2>1, <2>4, <1>3, <1>4, <1>7
    <3>2. new[i].parent = ths[i].parent
      BY Zenon, <2>1, <2>2, <3>1, <1>3, <1>4
    <3>. QED BY Zenon, <2>2, <3>1, <3>2
  <2>. QED BY <2>3, <2>4
<1>9. ASSUME NEW i \in Slots, w[i] # NoPid
      PROVE  i \in 1 .. len - 1 /\ WaitOK(new, i, w[i])
  <2>1. i \in 1 .. len - 1 /\ WaitOK(ths, i, w[i])
    BY <1>9 DEF Good, Waits
  <2>2. ths[i].pid # 0 /\ new[i].pid = ths[i].pid
    BY Zenon, <2>1, <1>4, <1>9, WaiterPid DEF Good
  <2>3. CASE i = idx
    BY <2>1, <2>3, <1>4 DEF WaitOK
  <2>4. CASE i # idx
    <3>1. ths[i].pid # ths[idx].pid
      BY <2>4, <1>3
    <3>2. \A j \in Slots : new[j].parent = new[i].pid <=> ths[j].parent = ths[i].pid
      BY <2>2, <3>1, <1>4
    <3>3. \A j \in Slots : j # idx => (new[j].state = "Zombie" <=> ths[j].state = "Zombie")
      BY <1>4
    <3>4. \A j \in Slots : IsMine(new[j], new[i].pid, w[i]) <=> IsMine(ths[j], ths[i].pid, w[i])
      BY Zenon, <3>2, <1>4 DEF IsMine
    <3>5. CASE ths[idx].parent = ths[i].pid
      <4>1. new[i].state # "Blocked"
        BY Zenon, <3>5, <2>1, <2>2, <2>4, <1>4, <1>9 DEF WaitOK
      <4>2. /\ MyZombies(ths, i, w[i]) \subseteq MyZombies(new, i, w[i])
            /\ MyLiving(ths, i, w[i]) \subseteq MyLiving(new, i, w[i]) \cup MyZombies(new, i, w[i])
        BY Zenon, <3>3, <3>4, <1>1, <1>4, <1>7 DEF MyZombies, MyLiving
      <4>3. new[i].state = "Runnable" => ths[i].state \in {"Blocked", "Runnable"}
        BY <2>4, <1>4, <1>9
      <4>. QED BY <4>1, <4>2, <4>3, <2>1 DEF WaitOK
    <3>6. CASE ths[idx].parent # ths[i].pid
      <4>1. ~ IsMine(ths[idx], ths[i].pid, w[i]) /\ ~ IsMine(new[idx], new[i].pid, w[i])
        BY Zenon, <3>6, <3>4, <1>1 DEF IsMine
      <4>2. /\ MyZombies(new, i, w[i]) = MyZombies(ths, i, w[i])
            /\ MyLiving(new, i, w[i]) = MyLiving(ths, i, w[i])
        BY Zenon, <3>3, <3>4, <4>1, <1>1, <1>7 DEF MyZombies, MyLiving
      <4>3. new[i].state = ths[i].state /\ new[i].blocked_on = ths[i].blocked_on
        BY <3>6, <2>4, <1>4, <1>9
      <4>. QED BY Zenon, <4>2, <4>3, <2>1 DEF WaitOK
    <3>. QED BY Zenon, <3>5, <3>6
  <2>. QED BY <2>3, <2>4
<1>. QED BY <1>5, <1>6, <1>8, <1>9 DEF Good, Waits

\* A collected zombie was nobody else's to wait for.
LEMMA CollectedGood ==
    ASSUME Frame, NEW ths, NEW w, Good(ths, w), NEW cur \in 1 .. len - 1, NEW want,
           NEW z \in MyZombies(ths, cur, want),
           NEW new, new = Collected(ths, z)
    PROVE  Good(new, [w EXCEPT ![cur] = NoPid])
<1> DEFINE w2 == [w EXCEPT ![cur] = NoPid]
<1>1. 0 \in Slots /\ z \in Slots /\ ths[z].state = "Zombie" /\ ths[z].parent = ths[cur].pid
  BY TableAssumption DEF Slots, MyZombies, IsMine
<1>2. /\ KeepsFamily(new, ths)
      /\ new[z].state = "Dead" /\ new[z].cr3 = ths[z].cr3
      /\ \A j \in Slots : j # z => new[j] = ths[j]
  BY <1>1, CollectedFields DEF Good, TableTyped
<1>3. TableTyped(new) /\ Ids(new) /\ Family(new)
  <2>1. \A j \in Slots : is_alive(new[j].state) <=> is_alive(ths[j].state)
    BY <1>1, <1>2 DEF is_alive
  <2>2. z # 0
    BY <1>1 DEF Good, Ids
  <2>3. new[0].state = "Runnable" /\ new[0].cr3 = FALSE
    BY <1>1, <1>2, <2>2 DEF Good, Ids
  <2>. QED BY Zenon, <1>2, <2>1, <2>3, KeepsGood DEF Good
<1>4. cur \in Slots /\ \A j \in Slots : ths[j].pid = ths[cur].pid => j = cur
  BY WaiterPid DEF Good
<1>5. w2 \in [Slots -> Pids \cup {NoPid}] /\ w2[cur] = NoPid
      /\ \A i \in Slots : i # cur => w2[i] = w[i]
  BY <1>4 DEF Good, Waits
<1>6. ASSUME NEW i \in Slots, w2[i] # NoPid
      PROVE  i \in 1 .. len - 1 /\ WaitOK(new, i, w2[i])
  <2>1. i # cur /\ w2[i] = w[i]
    BY <1>5, <1>6
  <2>2. i \in 1 .. len - 1 /\ WaitOK(ths, i, w[i])
    BY <1>6, <2>1 DEF Good, Waits
  <2>3. new[i].pid = ths[i].pid /\ ths[z].parent # ths[i].pid /\ new[z].parent = ths[z].parent
    BY <1>1, <1>2, <1>4, <2>1 DEF KeepsFamily
  <2>4. /\ MyZombies(new, i, w[i]) = MyZombies(ths, i, w[i])
        /\ MyLiving(new, i, w[i]) = MyLiving(ths, i, w[i])
    BY SMTT(20), <1>1, <1>2, <2>3 DEF MyZombies, MyLiving, IsMine
  <2>5. (new[i].state = ths[i].state /\ new[i].blocked_on = ths[i].blocked_on)
        \/ new[i].state = "Dead"
    BY <1>2
  <2>. QED BY <2>1, <2>2, <2>4, <2>5 DEF WaitOK
<1>. QED BY <1>3, <1>5, <1>6 DEF Good, Waits

\* push_thread() with a fresh pid and the running thread as the parent.
LEMMA PushKeepsIInv ==
    ASSUME IInv, len < MaxThreads,
           NEW pid \in Pids, NEW user \in BOOLEAN, pid > 0,
           \A i \in 0 .. len - 1 : threads[i].pid # pid,
           push_thread(NewThread(pid, threads[current].pid, user)),
           next_pid' \in 2 .. MaxThreads + 1, next_pid' >= next_pid, pid < next_pid',
           spawning' = NoPid \/ (spawning' = spawning /\ spawning # pid),
           UNCHANGED <<current, waiting, told>>
    PROVE  IInv'
<1> DEFINE t == NewThread(pid, threads[current].pid, user)
<1>1. /\ 0 \in Slots /\ len \in Slots /\ current \in Slots /\ len \in Nat
      /\ 0 .. len - 1 \subseteq Slots
  <2>1. len \in 2 .. MaxThreads /\ current \in 0 .. len - 1
    BY DEF IInv, Frame
  <2>. QED BY <2>1, TableAssumption DEF Slots
<1>2. /\ threads' = [threads EXCEPT ![len] = t]
      /\ creator' = [creator EXCEPT ![len] = current]
      /\ len' = len + 1
  BY DEF push_thread
<1>3. threads[current] # FreeSlot /\ threads[current].pid \in Pids
  <2>1. threads[current] # FreeSlot
    BY <1>1 DEF IInv, Good, TableTyped
  <2>. QED BY <2>1, <1>1, RowFields DEF IInv, Good, TableTyped
<1>4. /\ t \in Thread /\ t # FreeSlot /\ t.state = "Runnable" /\ t.pid = pid
      /\ t.parent = threads[current].pid
  <2>1. t \in Thread /\ t.state = "Runnable" /\ t.pid = pid /\ t.parent = threads[current].pid
    BY Zenon, <1>3, TableAssumption DEF NewThread, Thread, State, BlockReason
  <2>. QED BY SMTT(20), <2>1 DEF FreeSlot
<1> HIDE DEF t
<1>5. /\ threads'[len] = t /\ \A i \in Slots : i # len => threads'[i] = threads[i]
      /\ creator'[len] = current /\ \A i \in Slots : i # len => creator'[i] = creator[i]
      /\ threads' \in [Slots -> Row]
  BY <1>1, <1>2, <1>4 DEF IInv, Good, TableTyped, Frame, Row
<1>6. Frame'
  <2>1. len' \in 2 .. MaxThreads /\ creator' \in [Slots -> Slots]
    BY <1>1, <1>2, TableAssumption DEF IInv, Frame
  <2>2. \A i \in 0 .. len' - 1 : creator'[i] < len'
    <3> TAKE i \in 0 .. len' - 1
    <3>1. i \in Slots /\ (i = len \/ i \in 0 .. len - 1)
      BY <1>1, <1>2
    <3>2. creator[i] \in Int
      BY <3>1 DEF IInv, Frame, Slots
    <3>. QED BY <3>1, <3>2, <1>1, <1>2, <1>5 DEF IInv, Frame
  <2>. QED BY Zenon, <2>1, <2>2 DEF IInv, Frame
<1>7. TableTyped(threads)'
  BY <1>1, <1>2, <1>4, <1>5 DEF IInv, Good, TableTyped, Slots
<1>8. Ids(threads)'
  <2>1. \A i \in 0 .. len' - 1 : i = len \/ (i \in 0 .. len - 1 /\ i \in Slots /\ i # len)
    BY <1>1, <1>2
  <2>2. \A i \in 0 .. len - 1 : threads[i].pid \in Pids
    BY <1>1, RowFields DEF IInv, Good, TableTyped, Slots
  <2>3. 0 \in 0 .. len - 1 /\ 0 # len
    BY SMTT(20) DEF IInv, Frame
  <2>4. threads'[0] = threads[0]
    BY <1>1, <1>5, <2>3
  <2>5. \A i \in 0 .. len' - 1 : threads'[i].pid < next_pid'
    BY SMTT(20), <1>4, <1>5, <2>1, <2>2, TableAssumption DEF IInv, Good, Ids, Frame, Pids
  <2>6. \A i, j \in 0 .. len' - 1 : threads'[i].pid = threads'[j].pid => i = j
    <3>1. \A i \in 0 .. len - 1 : threads'[i].pid = threads[i].pid /\ threads'[i].pid # pid
      BY <1>1, <1>5
    <3>2. threads'[len].pid = pid
      BY <1>4, <1>5
    <3>3. \A i, j \in 0 .. len - 1 : threads[i].pid = threads[j].pid => i = j
      BY Zenon DEF IInv, Good, Ids
    <3>. QED BY <3>1, <3>2, <3>3, <2>1
  <2>7. ASSUME spawning' # NoPid
        PROVE  /\ spawning' > 0 /\ spawning' < next_pid'
               /\ \A i \in 0 .. len' - 1 : threads'[i].pid # spawning'
    <3>1. spawning' = spawning /\ spawning # pid /\ spawning # NoPid
      BY <2>7
    <3>2. /\ spawning > 0 /\ spawning < next_pid
          /\ \A i \in 0 .. len - 1 : threads[i].pid # spawning
      BY <3>1 DEF IInv, Good, Ids
    <3>3. next_pid \in Int /\ next_pid' \in Int /\ spawning \in Int
      BY SMTT(20), <3>1, TableAssumption DEF IInv, Frame, Pids
    <3>4. \A i \in 0 .. len' - 1 : threads'[i].pid # spawning
      BY SMTT(20), <1>4, <1>5, <2>1, <3>1, <3>2
    <3>. QED BY SMTT(20), <3>1, <3>2, <3>3, <3>4
  <2>. QED BY Zenon, <2>4, <2>5, <2>6, <2>7 DEF IInv, Good, Ids
<1>9. Family(threads)'
  <2> SUFFICES ASSUME NEW i \in 0 .. len' - 1
               PROVE  threads'[i].parent = IF is_alive(threads'[creator'[i]].state)
                                           THEN threads'[creator'[i]].pid ELSE 0
    BY DEF Family
  <2>1. CASE i = len
    <3>1. creator'[i] = current /\ current # len /\ threads'[current] = threads[current]
      BY SMTT(20), <2>1, <1>1, <1>5 DEF IInv
    <3>. QED BY <2>1, <3>1, <1>4, <1>5 DEF IInv, is_alive
  <2>2. CASE i # len
    <3>1. i \in 0 .. len - 1 /\ i \in Slots
      BY <2>2, <1>1, <1>2
    <3>2. creator'[i] = creator[i] /\ creator[i] \in Slots /\ creator[i] # len
      BY SMTT(20), <3>1, <2>2, <1>5 DEF IInv, Frame, Slots
    <3>3. threads'[i] = threads[i] /\ threads'[creator[i]] = threads[creator[i]]
      BY <3>1, <3>2, <2>2, <1>5
    <3>. QED BY <3>1, <3>2, <3>3 DEF IInv, Good, Family
  <2>. QED BY <2>1, <2>2
<1>10. Waits(threads, waiting)'
  <2>0. waiting \in [Slots -> Pids \cup {NoPid}]
    BY DEF IInv, Good, Waits
  <2> SUFFICES ASSUME NEW i \in Slots, waiting[i] # NoPid
               PROVE  i \in 1 .. len' - 1 /\ WaitOK(threads', i, waiting[i])
    BY SMTT(20), <2>0 DEF Waits, WaitOK, MyZombies, MyLiving, IsMine, is_alive
  <2>1. i \in 1 .. len - 1 /\ WaitOK(threads, i, waiting[i])
    BY DEF IInv, Good, Waits
  <2>2. i # len /\ threads'[i] = threads[i]
    <3>1. i # len
      BY SMTT(20), <2>1, <1>1
    <3>. QED BY SMTT(20), <3>1, <1>5
  <2>3. threads[len].state = "Free" /\ threads'[len].state = "Runnable"
    <3>1. threads[len] = FreeSlot
      BY <1>1 DEF IInv, Good, TableTyped
    <3>2. FreeSlot.state = "Free"
      BY DEF FreeSlot
    <3>. QED BY <1>4, <1>5, <3>1, <3>2
  <2>4. MyZombies(threads', i, waiting[i]) = MyZombies(threads, i, waiting[i])
    BY Zenon, <1>1, <1>5, <2>2, <2>3 DEF MyZombies
  <2>5. MyLiving(threads, i, waiting[i]) \subseteq MyLiving(threads', i, waiting[i])
    BY Zenon, <1>1, <1>5, <2>2, <2>3 DEF MyLiving, is_alive
  <2>6. i \in 1 .. len' - 1
    BY <1>1, <1>2, <2>1
  <2>7. WaitOK(threads', i, waiting[i])
    BY Zenon, <2>1, <2>2, <2>4, <2>5 DEF WaitOK
  <2>. QED BY Zenon, <2>6, <2>7
<1>11. current' \in 0 .. len' - 1 /\ threads'[current'].state = "Runnable"
  BY <1>1, <1>2, <1>5 DEF IInv
<1>. QED BY <1>6, <1>7, <1>8, <1>9, <1>10, <1>11 DEF IInv, Good

-----------------------------------------------------------------------------
(***************************************************************************)
(* Invariance                                                                 *)
(***************************************************************************)
LEMMA InitIInv == Init => IInv
<1> SUFFICES ASSUME Init PROVE IInv
  OBVIOUS
<1>1. 0 \in Slots /\ 1 \in Slots /\ 2 \in 2 .. MaxThreads
  BY TableAssumption DEF Slots
<1>2. threads = [i \in Slots |-> IF i = 0 THEN NewThread(0, 0, FALSE)
                                 ELSE IF i = 1 THEN NewThread(1, 0, TRUE)
                                 ELSE FreeSlot]
  BY DEF Init
<1>3. /\ threads[0] \in Thread /\ threads[1] \in Thread
      /\ threads[0].state = "Runnable" /\ threads[1].state = "Runnable"
      /\ threads[0].pid = 0 /\ threads[0].parent = 0 /\ threads[0].cr3 = FALSE
      /\ threads[1].pid = 1 /\ threads[1].parent = 0
  <2>1. threads[0] = NewThread(0, 0, FALSE)
    BY <1>1, <1>2
  <2>2. threads[1] = NewThread(1, 0, TRUE)
    BY <1>1, <1>2
  <2>. QED BY <2>1, <2>2, TableAssumption DEF NewThread, Thread, Pids, State, BlockReason
<1>4. threads[0] # FreeSlot /\ threads[1] # FreeSlot
  BY <1>3 DEF FreeSlot
<1>5. /\ len = 2 /\ 0 .. len - 1 = {0, 1} /\ next_pid = 2 /\ spawning = NoPid
      /\ \A i \in Slots : i >= len <=> i \notin {0, 1}
  BY DEF Init, Slots
<1>6. Frame
  BY <1>1, <1>5, TableAssumption DEF Init, Frame, Slots
<1>7. TableTyped(threads)
  <2>1. \A i \in Slots : i \notin {0, 1} => threads[i] = FreeSlot
    BY Zenon, <1>2
  <2>2. \A i \in Slots : threads[i] \in Row
    BY <2>1, <1>3 DEF Row
  <2>3. threads \in [Slots -> Row]
    BY Zenon, <2>2, <1>2
  <2>. QED BY <2>1, <2>3, <1>4, <1>5 DEF TableTyped
<1>8. Ids(threads)
  BY <1>3, <1>5 DEF Ids
<1>9. Family(threads)
  BY Zenon, <1>1, <1>3, <1>5 DEF Family, Init, is_alive
<1>10. Waits(threads, waiting)
  BY DEF Waits, Init
<1>. QED BY Zenon, <1>3, <1>5, <1>6, <1>7, <1>8, <1>9, <1>10 DEF IInv, Good, Init

\* A step that only changes the table, the waits and the running thread.
LEMMA TableStep ==
    ASSUME IInv, Good(threads', waiting'), UNCHANGED <<len, next_pid, spawning, creator>>,
           told' \in [Slots -> Nat \cup {NotTold, Lost}],
           current' \in 0 .. len - 1, threads'[current'].state = "Runnable"
    PROVE  IInv'
<1>1. Frame'
  BY DEF IInv, Frame
<1>2. TableTyped(threads)' /\ Ids(threads)' /\ Family(threads)'
  BY DEF Good, TableTyped, Ids, Family
<1>3. Waits(threads, waiting)'
  BY Zenon DEF Good, Waits, WaitOK, MyZombies, MyLiving
<1>. QED BY Zenon, <1>1, <1>2, <1>3 DEF IInv, Good

\* The same, when the step ends in switch_to_next.
LEMMA SwitchStep ==
    ASSUME IInv, Good(threads', waiting'), UNCHANGED <<len, next_pid, spawning, creator>>,
           told' \in [Slots -> Nat \cup {NotTold, Lost}], switch_to_next(threads')
    PROVE  IInv'
<1>1. PICK n \in Slots : SwitchesTo(threads', len, current, n) /\ current' = n
  BY DEF switch_to_next
<1>2. /\ threads' \in [Slots -> Thread \cup {FreeSlot}] /\ threads'[0].state = "Runnable"
      /\ len \in 2 .. MaxThreads /\ current \in 0 .. len - 1
  BY DEF IInv, Frame, Good, TableTyped, Row, Ids
<1>3. n \in 0 .. len - 1 /\ threads'[n].state = "Runnable"
  BY <1>1, <1>2, SwitchRunnable
<1>. QED BY Zenon, <1>1, <1>3, TableStep

\* A user process is not thread 0, nor is a thread inside wait_current.
LEMMA RunningProcess ==
    ASSUME IInv, threads[current].cr3 \/ waiting[current] # NoPid
    PROVE  /\ current \in 1 .. len - 1 /\ current \in Slots
           /\ is_alive(threads[current].state)
<1>1. current \in Slots /\ current \in Int /\ 0 \in Slots
  BY TableAssumption DEF IInv, Frame, Slots
<1>2. current # 0
  BY <1>1 DEF IInv, Good, Ids, Waits
<1>. QED BY SMTT(20), <1>1, <1>2 DEF IInv, is_alive

\* terminate() followed by switch_to_next if it ended the running thread.
LEMMA TerminateStep ==
    ASSUME IInv, NEW ths, Good(ths, waiting), NEW idx \in 1 .. len - 1,
           is_alive(ths[idx].state), NEW status \in Statuses,
           NEW signal \in Signals \cup {NoSignal},
           threads' = Terminated(ths, idx, status, signal),
           UNCHANGED <<len, next_pid, spawning, waiting, creator, told>>,
           \/ switch_to_next(threads')
           \/ idx # current /\ ths = threads /\ UNCHANGED current
    PROVE  IInv'
<1>1. Good(threads', waiting')
  BY Zenon, TerminatedGood DEF IInv
<1>2. told' \in [Slots -> Nat \cup {NotTold, Lost}]
  BY DEF IInv, Frame
<1>3. CASE switch_to_next(threads')
  BY <1>1, <1>2, <1>3, SwitchStep
<1>4. CASE idx # current /\ ths = threads /\ UNCHANGED current
  <2>1. current' \in 0 .. len - 1 /\ current \in Slots
    BY SMTT(20), <1>4, TableAssumption DEF IInv, Frame, Slots
  <2>2. threads'[current].state = "Runnable"
    <3>1. idx \in Slots /\ threads[idx] # FreeSlot /\ threads \in [Slots -> Row]
      BY <1>4, TableAssumption DEF IInv, Frame, Good, TableTyped, Slots
    <3>2. threads'[current].state \in {"Runnable", threads[current].state}
      BY SMTT(20), <1>4, <2>1, <3>1, TerminatedFields
    <3>. QED BY Zenon, <3>2 DEF IInv
  <2>. QED BY Zenon, <1>1, <1>2, <1>4, <2>1, <2>2, TableStep
<1>. QED BY <1>3, <1>4

\* The outcome a wait4 reports about a zombie is a status word.
LEMMA OutcomeTypes ==
    ASSUME NEW t \in Thread
    PROVE  t.exit_status \in Int /\ t.term_signal \in 0 .. 64
<1>1. t.exit_status \in Statuses \cup {NoStatus} /\ t.term_signal \in Signals \cup {NoSignal}
  BY DEF Thread
<1>2. ASSUME NEW x \in Statuses PROVE x \in Int
  <2>1. CASE x \in Codes
    BY <2>1, TableAssumption
  <2>2. CASE \E s \in Signals : x = 128 + s
    BY <2>2 DEF Signals
  <2>. QED BY <2>1, <2>2 DEF Statuses
<1>3. t.exit_status \in Int
  <2>1. NoStatus \in Int
    BY DEF NoStatus
  <2>. QED BY <1>1, <1>2, <2>1
<1>4. t.term_signal \in 0 .. 64
  BY <1>1 DEF Signals, NoSignal
<1>. QED BY <1>3, <1>4

\* One scan of try_collect_or_block by a running process.
LEMMA ScanStep ==
    ASSUME IInv, current \in 1 .. len - 1, NEW want \in Pids, try_collect_or_block(want)
    PROVE  IInv'
<1>1. /\ current \in Slots /\ is_alive(threads[current].state) /\ want # NoPid
      /\ waiting \in [Slots -> Pids \cup {NoPid}]
      /\ told \in [Slots -> Nat \cup {NotTold, Lost}]
  <2>1. current \in Slots /\ want # NoPid
    BY TableAssumption DEF IInv, Frame, Slots, Pids, NoPid
  <2>2. is_alive(threads[current].state)
    BY DEF IInv, is_alive
  <2>. QED BY Zenon, <2>1, <2>2 DEF IInv, Frame, Good, Waits
<1>2. UNCHANGED <<len, next_pid, spawning, creator>>
  BY DEF try_collect_or_block
<1>3. CASE Collect(want)
  <2>1. PICK z \in MyZombies(threads, current, want), ptr_ok \in BOOLEAN :
          /\ threads' = Collected(threads, z)
          /\ told' = [told EXCEPT ![z] =
                        IF ptr_ok THEN Encoded(threads[z].exit_status, threads[z].term_signal)
                                  ELSE Lost]
          /\ waiting' = [waiting EXCEPT ![current] = NoPid]
          /\ UNCHANGED current
    BY Zenon, <1>3 DEF Collect
  <2>2. Good(threads', waiting')
    BY Zenon, <2>1, CollectedGood DEF IInv
  <2>3. z \in Slots /\ threads[z].state = "Zombie" /\ threads \in [Slots -> Row]
    BY <2>1 DEF MyZombies, IInv, Good, TableTyped
  <2>4. told' \in [Slots -> Nat \cup {NotTold, Lost}]
    <3>1. threads[z] \in Thread
      BY <2>3 DEF Row, FreeSlot
    <3>2. threads[z].exit_status \in Int /\ threads[z].term_signal \in Nat
      BY <3>1, OutcomeTypes
    <3>3. Encoded(threads[z].exit_status, threads[z].term_signal) \in Nat
      BY <3>2 DEF Encoded
    <3>. QED BY Zenon, <2>1, <3>3, <1>1
  <2>5. threads'[current].state = "Runnable"
    <3>1. current # z
      BY <2>3 DEF IInv
    <3>2. threads'[current] = threads[current]
      BY <2>1, <2>3, <3>1, <1>1 DEF Collected
    <3>. QED BY <3>2 DEF IInv
  <2>. QED BY Zenon, <2>1, <2>2, <2>4, <2>5, <1>2, TableStep DEF IInv
<1>4. CASE WouldBlock(want)
  <2>1. Good(threads', waiting')
    BY Zenon, <1>1, <1>4, BlockedGood DEF WouldBlock, IInv, BlockReason
  <2>. QED BY <2>1, <1>1, <1>2, <1>4, SwitchStep DEF WouldBlock
<1>5. CASE NoChildren(want)
  <2>1. Good(threads, [waiting EXCEPT ![current] = NoPid])
    <3>1. [waiting EXCEPT ![current] = NoPid] \in [Slots -> Pids \cup {NoPid}]
      BY <1>1
    <3>2. \A i \in Slots : [waiting EXCEPT ![current] = NoPid][i] \in {NoPid, waiting[i]}
      BY <1>1
    <3>. QED BY Zenon, <3>1, <3>2 DEF IInv, Good, Waits
  <2>. QED BY Zenon, <2>1, <1>1, <1>2, <1>5, TableStep DEF NoChildren, IInv
<1>. QED BY <1>3, <1>4, <1>5 DEF try_collect_or_block

\* Every step of the scheduler, its callers and the timer keeps the inductive
\* invariant.
LEMMA NextIInv == IInv /\ [Next]_vars => IInv'
<1> SUFFICES ASSUME IInv, [Next]_vars PROVE IInv'
  OBVIOUS
<1>t. told \in [Slots -> Nat \cup {NotTold, Lost}] /\ Good(threads, waiting)
  BY DEF IInv, Frame
<1>1. CASE Fork
  <2>1. current \in 1 .. len - 1 /\ current \in Slots
    BY <1>1, RunningProcess DEF Fork, InUser
  <2>2. /\ next_pid \in Pids /\ next_pid > 0 /\ next_pid < next_pid' /\ next_pid' >= next_pid
        /\ next_pid' \in 2 .. MaxThreads + 1 /\ spawning' = spawning /\ spawning # next_pid
    BY SMTT(20), <1>1, TableAssumption DEF Fork, IInv, Frame, Good, Ids, Pids, NoPid
  <2>3. \A i \in 0 .. len - 1 : threads[i].pid # next_pid
    <3>1. \A i \in 0 .. len - 1 : threads[i].pid < next_pid /\ i \in Slots
      BY SMTT(20), TableAssumption DEF IInv, Good, Ids, Frame, Slots
    <3>. QED BY <3>1, <2>2, RowFields DEF IInv, Good, TableTyped, Pids
  <2>. QED BY Zenon, <1>1, <2>2, <2>3, PushKeepsIInv DEF Fork
<1>2. CASE SpawnTakePid
  <2>1. Frame'
    BY SMTT(20), <1>2, TableAssumption DEF SpawnTakePid, IInv, Frame, Pids
  <2>2. Ids(threads)'
    <3>1. \A i \in 0 .. len - 1 : threads[i].pid < next_pid /\ threads[i].pid \in Int
      <4>1. 0 .. len - 1 \subseteq Slots
        BY TableAssumption DEF IInv, Frame, Slots
      <4>. QED BY <4>1, RowFields DEF IInv, Good, Ids, TableTyped
    <3>. QED BY SMTT(20), <1>2, <3>1 DEF SpawnTakePid, IInv, Good, Ids, Frame
  <2>3. TableTyped(threads)' /\ Family(threads)' /\ Waits(threads, waiting)'
    BY Zenon, <1>2 DEF SpawnTakePid, IInv, Good, TableTyped, Family, Waits, WaitOK
  <2>. QED BY Zenon, <1>2, <2>1, <2>2, <2>3 DEF SpawnTakePid, IInv, Good
<1>3. CASE SpawnPush
  <2>1. /\ spawning \in Pids /\ spawning > 0 /\ spawning < next_pid
        /\ \A i \in 0 .. len - 1 : threads[i].pid # spawning
        /\ threads[current].pid = 0 /\ next_pid \in 2 .. MaxThreads + 1
    BY Zenon, <1>3 DEF SpawnPush, IInv, Frame, Good, Ids
  <2>2. next_pid' = next_pid /\ next_pid' >= next_pid
    BY <1>3, <2>1 DEF SpawnPush
  <2>. QED BY Zenon, <1>3, <2>1, <2>2, PushKeepsIInv DEF SpawnPush
<1>4. ASSUME NEW code \in Codes, NEW drops \in BOOLEAN, Exit(code, drops) PROVE IInv'
  <2>1. current \in 1 .. len - 1 /\ current \in Slots
    BY <1>4, RunningProcess DEF Exit, InUser
  <2> DEFINE ths == IF drops THEN Woken(threads, "Pipe") ELSE threads
  <2>2. Good(ths, waiting)
    BY <1>t, WokenGood DEF IInv
  <2>3. is_alive(ths[current].state)
    <3>1. Woken(threads, "Pipe")[current].state = "Runnable"
      BY SMTT(20), <1>t, <2>1, WokenFields DEF IInv, Good, TableTyped
    <3>. QED BY <3>1 DEF IInv, is_alive
  <2>4. /\ threads' = Terminated(ths, current, code, NoSignal)
        /\ switch_to_next(threads')
        /\ UNCHANGED <<len, next_pid, spawning, waiting, creator, told>>
    BY <1>4 DEF Exit
  <2> HIDE DEF ths
  <2>. QED BY Zenon, <2>1, <2>2, <2>3, <2>4, TerminateStep DEF Statuses
<1>5. CASE Fault
  <2>1. current \in 1 .. len - 1 /\ is_alive(threads[current].state)
    BY <1>5, RunningProcess DEF Fault, InUser
  <2>2. SIGSEGV \in Signals /\ 128 + SIGSEGV \in Statuses
    BY DEF SIGSEGV, Signals, Statuses
  <2>. QED BY <1>5, <1>t, <2>1, <2>2, TerminateStep DEF Fault
<1>6. ASSUME NEW pid \in Pids, NEW sig \in Sent, Kill(pid, sig) PROVE IInv'
  <2>1. PICK idx \in KillTargets(pid) :
          /\ threads' = Terminated(threads, idx, 128 + sig, sig)
          /\ IF idx = current THEN switch_to_next(threads') ELSE UNCHANGED current
    BY <1>6 DEF Kill
  <2>2. idx \in Slots /\ threads[idx].cr3 /\ is_alive(threads[idx].state)
    BY DEF KillTargets
  <2>3. idx \in 1 .. len - 1
    <3>1. idx # 0
      BY Zenon, <2>2 DEF IInv, Good, Ids
    <3>2. threads[idx] # FreeSlot
      BY SMTT(20), <2>2 DEF is_alive, FreeSlot
    <3>. QED BY <2>2, <3>1, <3>2, TableAssumption DEF IInv, Good, TableTyped, Frame, Slots
  <2>4. sig \in Signals /\ 128 + sig \in Statuses
    BY SMTT(20), <1>6, TableAssumption DEF Kill, Signals, Statuses
  <2>5. UNCHANGED <<len, next_pid, spawning, waiting, creator, told>>
    BY <1>6 DEF Kill
  <2>. QED BY <1>t, <2>1, <2>2, <2>3, <2>4, <2>5, TerminateStep
<1>7. ASSUME NEW want \in Pids, Wait4(want) PROVE IInv'
  <2>1. current \in 1 .. len - 1
    BY <1>7, RunningProcess DEF Wait4, InUser
  <2>. QED BY <1>7, <2>1, ScanStep DEF Wait4
<1>8. CASE WaitResume
  <2>1. current \in 1 .. len - 1 /\ current \in Slots
    BY <1>8, RunningProcess DEF WaitResume
  <2>2. waiting[current] \in Pids
    BY Zenon, <1>8, <2>1 DEF WaitResume, IInv, Good, Waits
  <2>. QED BY <1>8, <2>1, <2>2, ScanStep DEF WaitResume
<1>9. ASSUME NEW reason \in {"Stdin", "Pipe"}, Block(reason) PROVE IInv'
  <2>1. current \in 1 .. len - 1 /\ current \in Slots /\ is_alive(threads[current].state)
    BY <1>9, RunningProcess DEF Block, InUser
  <2>2. [waiting EXCEPT ![current] = NoPid] = waiting
    BY Zenon, <1>9, <2>1 DEF Block, InUser, Outside, IInv, Good, Waits
  <2>3. NoPid \in Pids \cup {NoPid} /\ reason \in BlockReason
    BY DEF BlockReason
  <2>4. Good(threads', [waiting EXCEPT ![current] = NoPid])
    BY Zenon, <1>9, <1>t, <2>1, <2>3, BlockedGood DEF Block, IInv
  <2>. QED BY <1>9, <1>t, <2>2, <2>4, SwitchStep DEF Block
<1>10. ASSUME NEW reason \in {"Stdin", "Pipe"}, Wake(reason) PROVE IInv'
  <2>1. Good(threads', waiting')
    BY Zenon, <1>10, <1>t, WokenGood DEF Wake, IInv
  <2>2. current \in Slots
    BY TableAssumption DEF IInv, Frame, Slots
  <2>3. threads'[current].state = "Runnable"
    <3>1. threads' = Woken(threads, reason) /\ threads[current].state = "Runnable"
      BY Zenon, <1>10 DEF Wake, IInv
    <3>2. threads'[current] = threads[current]
      BY <3>1, <2>2 DEF Woken
    <3>. QED BY <3>1, <3>2
  <2>. QED BY Zenon, <1>10, <1>t, <2>1, <2>3, TableStep DEF Wake, IInv
<1>11. CASE TimerTick
  BY <1>11, <1>t, SwitchStep DEF TimerTick
<1>12. CASE Reap
  <2>1. Good(threads', waiting')
    BY <1>12, <1>t, ReapedGood DEF Reap, IInv
  <2>2. threads'[current].state = "Runnable"
    BY Zenon, <1>12, <2>1 DEF Reap, Good, Ids
  <2>. QED BY Zenon, <1>12, <1>t, <2>1, <2>2, TableStep DEF Reap, IInv
<1>13. CASE UNCHANGED vars
  BY Zenon, <1>13 DEF vars, IInv, Frame, Good, TableTyped, Ids, Family, Waits, WaitOK
<1>. QED BY <1>1, <1>2, <1>3, <1>4, <1>5, <1>6, <1>7, <1>8, <1>9, <1>10, <1>11, <1>12, <1>13
         DEF Next

\* The inductive invariant holds in every reachable state.
LEMMA AlwaysIInv == Spec => []IInv
BY InitIInv, NextIInv, PTL DEF Spec

\* No lost wake-up in wait4, for every table size and whatever the processes do
\* to each other: terminate() makes a sleeping parent Runnable in the step in
\* which its child becomes a zombie, and no other step takes a child away.
THEOREM SchedulerSafe == Spec => []WaitSound
BY AlwaysIInv, IInvImplies, PTL

\* The assert of switch_to_next never fires: the running thread and thread 0 are
\* Runnable in every reachable state, for every table size.
THEOREM CpuIsRunnable == Spec => []CurrentRunnable
BY AlwaysIInv, IInvImplies, PTL

\* Lookups by pid find one thread, also while spawn() holds a pid it has not
\* pushed yet, for every table size.
THEOREM PidsStayDistinct == Spec => []PidsDistinct
BY AlwaysIInv, IInvImplies, PTL

\* terminate() keeps the family tree: a parent is the living maker or PID 0.
THEOREM FamilyStaysRight == Spec => []FamilyTree
BY AlwaysIInv, IInvImplies, PTL

\* The table of threads keeps its types and is filled exactly up to its length.
THEOREM ThreadTypesCorrect == Spec => []TypeOK
BY AlwaysIInv, IInvImplies, PTL

-----------------------------------------------------------------------------
(***************************************************************************)
(* Thread implements ProcessLife, for every value of the constants: each      *)
(* scheduler step is a birth, a death, a collection or a burial of processes,  *)
(* or leaves their lives alone.                                                *)
(***************************************************************************)
FateSet == [status : Statuses \cup {NoStatus}, signal : Signals \cup {NoSignal}]

\* A step that keeps everyone's life and outcome is a stutter of ProcessLife.
LEMMA StutterStep ==
    ASSUME \A j \in Slots : /\ LifeOf(threads'[j].state) = LifeOf(threads[j].state)
                            /\ threads'[j].exit_status = threads[j].exit_status
                            /\ threads'[j].term_signal = threads[j].term_signal,
           UNCHANGED <<creator, told>>
    PROVE  UNCHANGED Life!lifeVars
BY Zenon DEF Life!lifeVars, lives, fates

\* terminate() is a death.
LEMMA DieStep ==
    ASSUME NEW ths \in [Slots -> Row], NEW idx \in Slots, idx # 0,
           NEW status \in Statuses, NEW signal \in Signals \cup {NoSignal},
           is_alive(threads[idx].state), ths[idx] # FreeSlot,
           \A j \in Slots : /\ LifeOf(ths[j].state) = LifeOf(threads[j].state)
                            /\ ths[j].exit_status = threads[j].exit_status
                            /\ ths[j].term_signal = threads[j].term_signal,
           threads' = Terminated(ths, idx, status, signal),
           UNCHANGED <<creator, told>>
    PROVE  Life!Die(idx)
<1>1. \A j \in Slots : j # idx => LifeOf(threads'[j].state) = LifeOf(threads[j].state)
  <2> TAKE j \in Slots
  <2> HAVE j # idx
  <2>1. threads'[j].state = ths[j].state \/ (is_alive(ths[j].state) /\ is_alive(threads'[j].state))
    BY SMTT(20), TerminatedFields DEF is_alive
  <2>2. is_alive(ths[j].state) /\ is_alive(threads'[j].state)
        => LifeOf(threads'[j].state) = LifeOf(ths[j].state)
    BY Zenon DEF LifeOf, is_alive
  <2>. QED BY Zenon, <2>1, <2>2
<1>2. /\ threads'[idx].state = "Zombie"
      /\ threads'[idx].exit_status = status /\ threads'[idx].term_signal = signal
      /\ \A j \in Slots : j # idx => /\ threads'[j].exit_status = threads[j].exit_status
                                     /\ threads'[j].term_signal = threads[j].term_signal
  BY SMTT(20), TerminatedFields
<1>3. lives[idx] = "alive"
  BY Zenon DEF lives, LifeOf, is_alive
<1>4. lives' = [lives EXCEPT ![idx] = "zombie"]
  <2>1. LifeOf("Zombie") = "zombie"
    BY Zenon DEF LifeOf, is_alive
  <2>. QED BY Zenon, <1>1, <1>2, <2>1 DEF lives
<1>5. fates'[idx] \in FateSet
  BY Zenon, <1>2 DEF fates, FateSet
<1>6. fates' = [fates EXCEPT ![idx] = fates'[idx]]
  BY Zenon, <1>2 DEF fates
<1>. QED BY Zenon, <1>3, <1>4, <1>5, <1>6 DEF Life!Die, FateSet

\* push_thread() is a birth.
LEMMA BirthStep ==
    ASSUME IInv, len < MaxThreads, NEW pid, NEW parent, NEW user,
           push_thread(NewThread(pid, parent, user)), UNCHANGED told
    PROVE  Life!Birth(len)
<1>1. len \in Slots /\ current \in Slots /\ creator \in [Slots -> Slots]
  BY SMTT(20), TableAssumption DEF IInv, Frame, Slots
<1>2. threads[len] = FreeSlot /\ threads \in [Slots -> Row]
  BY <1>1 DEF IInv, Good, TableTyped
<1>3. /\ threads'[len] = NewThread(pid, parent, user)
      /\ \A j \in Slots : j # len => threads'[j] = threads[j]
      /\ creator' = [creator EXCEPT ![len] = current]
  BY <1>1, <1>2 DEF push_thread
<1>4. /\ threads'[len].state = "Runnable"
      /\ threads'[len].exit_status = threads[len].exit_status
      /\ threads'[len].term_signal = threads[len].term_signal
      /\ threads[len].state = "Free"
  BY SMTT(20), <1>2, <1>3 DEF NewThread, FreeSlot
<1>5. lives[len] = "unborn" /\ lives' = [lives EXCEPT ![len] = "alive"]
  <2>1. LifeOf("Free") = "unborn" /\ LifeOf("Runnable") = "alive"
    BY DEF LifeOf, is_alive
  <2>. QED BY Zenon, <1>1, <1>3, <1>4, <2>1 DEF lives
<1>6. fates' = fates
  BY Zenon, <1>3, <1>4 DEF fates
<1>7. creator'[len] = current /\ creator' = [creator EXCEPT ![len] = creator'[len]]
  BY <1>1, <1>3
<1>8. lives[current] = "alive"
  BY <1>1 DEF lives, LifeOf, IInv, is_alive
<1>. QED BY <1>1, <1>5, <1>6, <1>7, <1>8 DEF Life!Birth

\* The status word of sys_wait4 reads back as the outcome.
LEMMA EncodedReports ==
    ASSUME NEW f, f.status \in Int, f.signal \in 0 .. 64
    PROVE  Life!Reports(Encoded(f.status, f.signal), f)
<1>1. CASE f.signal # 0
  <2>1. f.signal % 128 = f.signal
    BY <1>1
  <2>. QED BY <1>1, <2>1 DEF Life!Reports, Encoded, NoSignal
<1>2. CASE f.signal = 0
  <2> DEFINE r == f.status % 256
  <2>1. r \in 0 .. 255
    OBVIOUS
  <2> HIDE DEF r
  <2>2. (r * 256) % 128 = 0 /\ ((r * 256) \div 256) % 256 = r
    BY <2>1
  <2>. QED BY <1>2, <2>2 DEF Life!Reports, Encoded, NoSignal, r
<1>. QED BY <1>1, <1>2

\* A successful scan of try_collect_or_block is a collection by the maker.
LEMMA CollectStep ==
    ASSUME IInv, current \in 1 .. len - 1, NEW want \in Pids, Collect(want), UNCHANGED creator
    PROVE  \E z \in Slots : Life!Collect(z)
<1>1. PICK z \in MyZombies(threads, current, want), ptr_ok \in BOOLEAN :
        /\ threads' = Collected(threads, z)
        /\ told' = [told EXCEPT ![z] =
                      IF ptr_ok THEN Encoded(threads[z].exit_status, threads[z].term_signal)
                                ELSE Lost]
  BY Zenon DEF Collect
<1>2. /\ z \in Slots /\ threads[z].state = "Zombie"
      /\ threads[z].parent = threads[current].pid /\ threads \in [Slots -> Row]
  BY <1>1 DEF MyZombies, IsMine, IInv, Good, TableTyped
<1>3. KeepsFamily(threads', threads) /\ threads'[z].state = "Dead"
      /\ \A j \in Slots : j # z => threads'[j] = threads[j]
  BY SMTT(20), <1>1, <1>2, CollectedFields
<1>4. /\ current \in Slots /\ threads[current].pid # 0
      /\ \A j \in Slots : threads[j].pid = threads[current].pid => j = current
  BY Zenon, WaiterPid DEF IInv, Good
<1>5. creator[z] = current
  <2>1. threads[z] # FreeSlot
    BY SMTT(20), <1>2 DEF FreeSlot
  <2>2. z \in 0 .. len - 1 /\ creator[z] \in Slots
    BY SMTT(30), <1>2, <2>1 DEF IInv, Good, TableTyped, Frame, Slots
  <2>. QED BY Zenon, <1>2, <1>4, <2>2 DEF IInv, Good, Family
<1>6. current # 0 /\ lives[current] = "alive" /\ lives[z] = "zombie"
  BY <1>2, <1>4 DEF lives, LifeOf, IInv, is_alive
<1>7. lives' = [lives EXCEPT ![z] = "collected"]
  <2>1. LifeOf("Dead") = "collected"
    BY DEF LifeOf, is_alive
  <2>. QED BY Zenon, <1>2, <1>3, <2>1 DEF lives
<1>8. fates' = fates
  BY Zenon, <1>3 DEF fates, KeepsFamily
<1>9. told \in [Slots -> Nat \cup {NotTold, Lost}]
  BY Zenon DEF IInv, Frame
<1>10. \/ told' = [told EXCEPT ![z] = Lost]
       \/ Life!Reports(told'[z], fates[z]) /\ told' = [told EXCEPT ![z] = told'[z]]
  <2>1. CASE ~ ptr_ok
    BY <1>1, <2>1
  <2>2. CASE ptr_ok
    <3>1. told'[z] = Encoded(threads[z].exit_status, threads[z].term_signal)
          /\ told' = [told EXCEPT ![z] = told'[z]]
      BY Zenon, <1>1, <1>2, <1>9, <2>2
    <3>2. threads[z] \in Thread
      BY <1>2 DEF Row, FreeSlot
    <3>3. /\ fates[z].status = threads[z].exit_status /\ fates[z].signal = threads[z].term_signal
          /\ fates[z].status \in Int /\ fates[z].signal \in 0 .. 64
      BY Zenon, <1>2, <3>2, OutcomeTypes DEF fates
    <3>4. Life!Reports(Encoded(fates[z].status, fates[z].signal), fates[z])
      BY Zenon, <3>3, EncodedReports
    <3>. QED BY Zenon, <3>1, <3>3, <3>4
  <2>. QED BY Zenon, <2>1, <2>2
<1>11. Life!Collect(z)
  BY <1>5, <1>6, <1>7, <1>8, <1>10 DEF Life!Collect
<1>. QED BY <1>2, <1>11

\* reap() frees only the collected and the orphaned.
LEMMA FreeStep ==
    ASSUME IInv, Reap
    PROVE  Life!Free
<1>1. 0 \in Slots /\ threads \in [Slots -> Row] /\ threads' = Reaped(threads, 0)
  BY TableAssumption DEF Slots, Reap, IInv, Good, TableTyped
<1>2. /\ KeepsFamily(threads', threads)
      /\ \A j \in Slots : threads'[j].state = IF j # 0 /\ Collectable(threads[j])
                                              THEN "Reaped" ELSE threads[j].state
  BY <1>1, ReapedFields
<1>3. ASSUME NEW p \in Slots, lives'[p] # lives[p]
      PROVE  /\ lives'[p] = "freed"
             /\ lives[p] = "collected" \/ (lives[p] = "zombie" /\ Life!Orphaned(p))
  <2>1. lives'[p] = LifeOf(threads'[p].state) /\ lives[p] = LifeOf(threads[p].state)
    BY DEF lives
  <2>2. Collectable(threads[p]) /\ threads'[p].state = "Reaped"
    BY Zenon, <1>2, <1>3, <2>1
  <2>3. LifeOf("Reaped") = "freed" /\ LifeOf("Dead") = "collected" /\ LifeOf("Zombie") = "zombie"
    BY DEF LifeOf, is_alive
  <2>4. CASE threads[p].state = "Dead"
    BY Zenon, <2>1, <2>2, <2>3, <2>4
  <2>5. CASE threads[p].state = "Zombie" /\ threads[p].parent = 0
    <3>1. threads[p] # FreeSlot
      BY SMTT(20), <2>5 DEF FreeSlot
    <3>2. p \in 0 .. len - 1 /\ creator[p] \in Slots /\ creator[p] \in 0 .. len - 1
      BY <3>1 DEF IInv, Good, TableTyped, Frame, Slots
    <3>3. is_alive(threads[creator[p]].state) => creator[p] = 0
      <4>1. 0 \in 0 .. len - 1
        BY DEF IInv, Frame
      <4>. QED BY SMTT(30), <2>5, <3>2, <4>1 DEF IInv, Good, Family, Ids
    <3>4. ~ is_alive(threads[creator[p]].state) => lives[creator[p]] # "alive"
      BY <3>2 DEF lives, LifeOf
    <3>. QED BY Zenon, <2>1, <2>2, <2>3, <2>5, <3>3, <3>4 DEF Life!Orphaned
  <2>. QED BY Zenon, <2>2, <2>4, <2>5 DEF Collectable
<1>4. lives' = [p \in Slots |-> lives'[p]] /\ fates' = fates
  BY Zenon, <1>2 DEF lives, fates, KeepsFamily
<1>. QED BY <1>3, <1>4 DEF Life!Free, Reap

\* The state after boot is an initial state of the life cycle.
LEMMA InitLife == Init => Life!LifeInit
<1> SUFFICES ASSUME Init PROVE Life!LifeInit
  OBVIOUS
<1>1. IInv
  BY InitIInv
<1>2. \A i \in Slots : /\ i \in {0, 1} => threads[i] \in {NewThread(0, 0, FALSE), NewThread(1, 0, TRUE)}
                       /\ i \notin {0, 1} => threads[i] = FreeSlot
  BY Zenon DEF Init
<1>3. \A i \in Slots : /\ i \in {0, 1} => threads[i].state = "Runnable"
                       /\ i \notin {0, 1} => threads[i].state = "Free"
                       /\ threads[i].exit_status = NoStatus
                       /\ threads[i].term_signal = NoSignal
  BY SMTT(20), <1>2 DEF NewThread, FreeSlot
<1>4. LifeOf("Runnable") = "alive" /\ LifeOf("Free") = "unborn"
  BY DEF LifeOf, is_alive
<1>5. lives = [p \in Slots |-> IF p \in {0, 1} THEN "alive" ELSE "unborn"]
  BY <1>3, <1>4 DEF lives
<1>6. fates \in [Slots -> FateSet]
  BY Zenon, <1>3 DEF fates, FateSet
<1>7. creator = [p \in Slots |-> 0] /\ told = [p \in Slots |-> NotTold]
  BY DEF Init
<1>. QED BY <1>5, <1>6, <1>7 DEF Life!LifeInit, FateSet

\* Every step of the scheduler is a birth, a death, a collection, a freeing, or
\* nothing at all to the life cycle.
LEMMA NextLife == IInv /\ [Next]_vars => [Life!LifeNext]_(Life!lifeVars)
<1> SUFFICES ASSUME IInv, [Next]_vars PROVE Life!LifeNext \/ UNCHANGED Life!lifeVars
  OBVIOUS
<1>t. threads \in [Slots -> Row]
  BY DEF IInv, Good, TableTyped
<1>l. len < MaxThreads => len \in Slots
  BY TableAssumption DEF IInv, Frame, Slots
<1>s. LifeOf("Runnable") = "alive" /\ LifeOf("Blocked") = "alive"
  BY DEF LifeOf, is_alive
<1>1. CASE Fork
  BY Zenon, <1>1, <1>l, BirthStep DEF Fork, Life!LifeNext
<1>2. CASE SpawnTakePid
  BY <1>2, StutterStep DEF SpawnTakePid
<1>3. CASE SpawnPush
  BY Zenon, <1>3, <1>l, BirthStep DEF SpawnPush, Life!LifeNext
<1>4. ASSUME NEW code \in Codes, NEW drops \in BOOLEAN, Exit(code, drops)
      PROVE  Life!LifeNext
  <2>1. current \in 1 .. len - 1 /\ current \in Slots /\ is_alive(threads[current].state)
    BY <1>4, RunningProcess DEF Exit, InUser
  <2> DEFINE ths == IF drops THEN Woken(threads, "Pipe") ELSE threads
  <2>2. /\ ths \in [Slots -> Row]
        /\ \A j \in Slots : /\ LifeOf(ths[j].state) = LifeOf(threads[j].state)
                            /\ ths[j].exit_status = threads[j].exit_status
                            /\ ths[j].term_signal = threads[j].term_signal
                            /\ ths[j] = FreeSlot <=> threads[j] = FreeSlot
    BY <1>t, <1>s, WokenFields DEF KeepsFamily
  <2>3. threads[current] # FreeSlot
    BY SMTT(30), <2>1 DEF is_alive, FreeSlot
  <2>4. threads' = Terminated(ths, current, code, NoSignal) /\ UNCHANGED <<creator, told>>
    BY <1>4 DEF Exit
  <2> HIDE DEF ths
  <2>5. Life!Die(current)
    BY SMTT(20), <2>1, <2>2, <2>3, <2>4, DieStep DEF Statuses
  <2>. QED BY <2>1, <2>5 DEF Life!LifeNext
<1>5. CASE Fault
  <2>1. current \in 1 .. len - 1 /\ current \in Slots /\ is_alive(threads[current].state)
    BY <1>5, RunningProcess DEF Fault, InUser
  <2>2. threads[current] # FreeSlot
    BY SMTT(20), <2>1 DEF is_alive, FreeSlot
  <2>3. SIGSEGV \in Signals /\ 128 + SIGSEGV \in Statuses
    BY DEF SIGSEGV, Signals, Statuses
  <2>4. Life!Die(current)
    BY <1>5, <1>t, <2>1, <2>2, <2>3, DieStep DEF Fault
  <2>. QED BY <2>1, <2>4 DEF Life!LifeNext
<1>6. ASSUME NEW pid \in Pids, NEW sig \in Sent, Kill(pid, sig) PROVE Life!LifeNext
  <2>1. PICK idx \in KillTargets(pid) : threads' = Terminated(threads, idx, 128 + sig, sig)
    BY <1>6 DEF Kill
  <2>2. idx \in Slots /\ threads[idx].cr3 /\ is_alive(threads[idx].state)
    BY DEF KillTargets
  <2>3. idx # 0 /\ threads[idx] # FreeSlot
    BY SMTT(20), <2>2 DEF IInv, Good, Ids, is_alive, FreeSlot
  <2>4. sig \in Signals /\ 128 + sig \in Statuses /\ UNCHANGED <<creator, told>>
    BY <1>6, TableAssumption DEF Kill, Signals, Statuses
  <2>5. Life!Die(idx)
    BY Zenon, <1>t, <2>1, <2>2, <2>3, <2>4, DieStep
  <2>. QED BY <2>2, <2>5 DEF Life!LifeNext
<1>7. ASSUME NEW want \in Pids, current \in 1 .. len - 1, try_collect_or_block(want)
      PROVE  Life!LifeNext \/ UNCHANGED Life!lifeVars
  <2>0. UNCHANGED creator /\ current \in Slots /\ threads[current].state = "Runnable"
    BY <1>7, TableAssumption DEF try_collect_or_block, IInv, Frame, Slots
  <2>1. CASE Collect(want)
    BY Zenon, <1>7, <2>0, <2>1, CollectStep DEF Life!LifeNext
  <2>2. CASE WouldBlock(want)
    <3>1. threads[current] # FreeSlot
      BY SMTT(30), <2>0 DEF FreeSlot
    <3>2. /\ KeepsFamily(threads', threads) /\ threads'[current].state = "Blocked"
          /\ \A j \in Slots : j # current => threads'[j] = threads[j]
      BY SMTT(30), <1>t, <2>0, <2>2, <3>1, BlockedFields DEF WouldBlock, BlockReason
    <3>. QED BY Zenon, <1>s, <2>0, <2>2, <3>2, StutterStep DEF WouldBlock, KeepsFamily
  <2>3. CASE NoChildren(want)
    BY Zenon, <2>0, <2>3, StutterStep DEF NoChildren
  <2>. QED BY <1>7, <2>1, <2>2, <2>3 DEF try_collect_or_block
<1>8. ASSUME NEW want \in Pids, Wait4(want) PROVE Life!LifeNext \/ UNCHANGED Life!lifeVars
  BY <1>7, <1>8, RunningProcess DEF Wait4, InUser
<1>9. CASE WaitResume
  <2>1. current \in 1 .. len - 1 /\ current \in Slots
    BY <1>9, RunningProcess DEF WaitResume
  <2>2. waiting[current] \in Pids
    BY <1>9, <2>1 DEF WaitResume, IInv, Good, Waits
  <2>. QED BY <1>7, <1>9, <2>1, <2>2 DEF WaitResume
<1>10. ASSUME NEW reason \in {"Stdin", "Pipe"}, Block(reason) PROVE UNCHANGED Life!lifeVars
  <2>1. current \in Slots /\ threads[current].state = "Runnable"
    BY TableAssumption DEF IInv, Frame, Slots
  <2>2. threads[current] # FreeSlot
    BY <2>1 DEF FreeSlot
  <2>3. /\ KeepsFamily(threads', threads) /\ threads'[current].state = "Blocked"
        /\ \A j \in Slots : j # current => threads'[j] = threads[j]
    BY SMTT(20), <1>t, <1>10, <2>1, <2>2, BlockedFields DEF Block, BlockReason
  <2>. QED BY SMTT(20), <1>s, <1>10, <2>1, <2>3, StutterStep DEF Block, KeepsFamily
<1>11. ASSUME NEW reason \in {"Stdin", "Pipe"}, Wake(reason) PROVE UNCHANGED Life!lifeVars
  <2>1. \A j \in Slots : /\ LifeOf(threads'[j].state) = LifeOf(threads[j].state)
                         /\ threads'[j].exit_status = threads[j].exit_status
                         /\ threads'[j].term_signal = threads[j].term_signal
    BY <1>t, <1>s, <1>11, WokenFields DEF Wake, KeepsFamily
  <2>. QED BY Zenon, <1>11, <2>1, StutterStep DEF Wake
<1>12. CASE TimerTick
  BY <1>12, StutterStep DEF TimerTick
<1>13. CASE Reap
  BY <1>13, FreeStep DEF Life!LifeNext
<1>14. CASE UNCHANGED vars
  BY <1>14, StutterStep DEF vars
<1>. QED BY <1>1, <1>2, <1>3, <1>4, <1>5, <1>6, <1>8, <1>9, <1>10, <1>11, <1>12, <1>13, <1>14
         DEF Next

\* Refinement for every table size: exit, faults, kill, wait4 and the reaper
\* together give each process one death, one outcome, at most one truthful
\* report to the process that made it, and a burial only afterwards.
THEOREM SchedulerImplementsLife == Spec => ImplementsLife
<1>1. Spec => []IInv
  BY InitIInv, NextIInv, PTL DEF Spec
<1>. QED BY <1>1, InitLife, NextLife, PTL DEF Spec, ImplementsLife, Life!LifeSpec
=============================================================================
