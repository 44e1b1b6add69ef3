---------------------------- MODULE ProcessLife ----------------------------
(***************************************************************************)
(* What ferros promises about a process, whatever the scheduler does: it    *)
(* lives once and dies once, its outcome is fixed at death, the outcome is   *)
(* told at most once and truthfully, only while the process that made it     *)
(* lives, and nothing is freed before the outcome was told or nobody is      *)
(* left to tell.                                                              *)
(*                                                                           *)
(* No table, no scheduler and no parent field that changes: only the         *)
(* process that made each process.                                            *)
(***************************************************************************)
EXTENDS Integers

CONSTANTS Procs,     \* process names; 0 is the kernel, which never waits
          Fates,     \* [status, signal] records
          NotTold,   \* nothing was told about the process
          Lost       \* told, but the caller's pointer was bad

VARIABLES life, fate, maker, told

lifeVars == <<life, fate, maker, told>>

\* The Linux reading of a status word: WIFSIGNALED/WTERMSIG, else WEXITSTATUS.
Reports(word, f) ==
    IF f.signal # 0 THEN word % 128 = f.signal
                    ELSE word % 128 = 0 /\ (word \div 256) % 256 = f.status % 256

LifeInit ==
    /\ life = [p \in Procs |-> IF p \in {0, 1} THEN "alive" ELSE "unborn"]
    /\ fate \in [Procs -> Fates]
    /\ maker = [p \in Procs |-> 0]
    /\ told = [p \in Procs |-> NotTold]

Birth(p) ==
    /\ life[p] = "unborn"
    /\ life' = [life EXCEPT ![p] = "alive"]
    /\ maker'[p] \in Procs /\ life[maker'[p]] = "alive"
    /\ maker' = [maker EXCEPT ![p] = maker'[p]]
    /\ UNCHANGED <<fate, told>>

Die(p) ==
    /\ life[p] = "alive" /\ p # 0
    /\ life' = [life EXCEPT ![p] = "zombie"]
    /\ fate'[p] \in Fates
    /\ fate' = [fate EXCEPT ![p] = fate'[p]]
    /\ UNCHANGED <<maker, told>>

Collect(p) ==
    /\ life[p] = "zombie"
    /\ maker[p] # 0 /\ life[maker[p]] = "alive"
    /\ life' = [life EXCEPT ![p] = "collected"]
    /\ \/ told' = [told EXCEPT ![p] = Lost]
       \/ /\ Reports(told'[p], fate[p])
          /\ told' = [told EXCEPT ![p] = told'[p]]
    /\ UNCHANGED <<fate, maker>>

Orphaned(p) == maker[p] = 0 \/ life[maker[p]] # "alive"

\* Any number of processes at once.
Free ==
    /\ \A p \in Procs : \/ life'[p] = life[p]
                        \/ /\ life'[p] = "freed"
                           /\ life[p] = "collected" \/ (life[p] = "zombie" /\ Orphaned(p))
    /\ life' = [p \in Procs |-> life'[p]]
    /\ UNCHANGED <<fate, maker, told>>

LifeNext ==
    \/ \E p \in Procs : Birth(p) \/ Die(p) \/ Collect(p)
    \/ Free

LifeSpec == LifeInit /\ [][LifeNext]_lifeVars
=============================================================================
