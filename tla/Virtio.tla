------------------------------- MODULE Virtio -------------------------------
(***************************************************************************)
(* A machine with the devices the kernel drives through virtqueues.  The two     *)
(* drivers share nothing; machines differ in the devices they have.               *)
(***************************************************************************)
EXTENDS VirtioNet, VirtioBlk

CONSTANT Machines   \* for each machine, the devices on its bus

ASSUME MachinesAssumption == Machines \subseteq SUBSET {"net", "blk"}

VirtioInit ==
    /\ NetInit /\ BlkInit
    /\ {d \in {"net", "blk"} : IF d = "net" THEN nic # "absent" ELSE blk # "absent"} \in Machines
    /\ blk = "absent" => disk = [lba \in Capacity |-> CHOOSE v \in Values : TRUE]

VirtioNext == \/ NetNext /\ UNCHANGED blkVars
              \/ BlkNext /\ UNCHANGED netVars

virtioVars == <<netVars, blkVars>>

(***************************************************************************)
(* Both drivers poll and are run by the processor; the disk answers every request  *)
(* in the end.  Nothing is assumed of the network card.                            *)
(***************************************************************************)
Fairness ==
    /\ WF_virtioVars(NetDriver /\ UNCHANGED blkVars)
    /\ WF_virtioVars(BlkDriver /\ UNCHANGED netVars)
    /\ WF_virtioVars(BlkDevice /\ UNCHANGED netVars)

VirtioSpec == VirtioInit /\ [][VirtioNext]_virtioVars /\ Fairness

\* Every value is one the code can hold.
VirtioTypeOK ==
    /\ nic \in {"absent", "off", "failed", "ok"} /\ blk \in {"absent", "off", "failed", "ok"}
    /\ \A vq \in {rx, tx} :
          /\ {vq.avail_idx, vq.used_idx, vq.last_used_idx, vq.taken} \subseteq 0 .. MaxIdx
          /\ \A s \in Slots : vq.avail[s] \in RxBufs /\ vq.used[s] \in RxBufs \cup {NoBuf}
    /\ op.at \in {"idle", "copy", "wait", "recv"}
    /\ op.at = "wait" => op.target = tx.avail_idx /\ op.spins \in 0 .. MaxSpins
    /\ op.at = "recv" => op.id \in RxBufs
    /\ card_rx \in RxBufs \cup {NoBuf}
    /\ {blkq.avail_idx, blkq.used_idx, blkq.last_used_idx, blkq.taken} \subseteq 0 .. MAX_IDX
    /\ page.status \in {NotWritten, Okay, IOERR}
    /\ req.at \in {"idle", "setup", "run", "poll", "finish"}
    /\ blkdev.at \in {"idle", "data", "status", "used"}

(***************************************************************************)
(* send returns whatever the card does, its wait being bounded.  The wait for the   *)
(* disk is not bounded: a request returns because the disk answers it.               *)
(***************************************************************************)
CallsReturn == /\ op.at # "idle" ~> op.at = "idle"
               /\ req.at # "idle" ~> req.at = "idle"
=============================================================================
