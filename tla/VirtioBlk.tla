----------------------------- MODULE VirtioBlk -----------------------------
(***************************************************************************)
(* The disk driver (drivers/virtio_blk.rs) and the device it talks to through   *)
(* shared memory.  The driver has one page for the header, the data and the     *)
(* status of a request and one chain of descriptors over it, used again for      *)
(* every request; its lock admits one request at a time.  The device runs on its *)
(* own: it sees each store of the driver as it is made.  The ring holds the head *)
(* of the one chain in every slot, so only its indices, which wrap, are kept.     *)
(***************************************************************************)
EXTENDS Naturals

CONSTANTS
    Lbas, Capacity, Values,   \* as in Sectors
    MAX_IDX                   \* the largest ring index (65535 in the code)

ASSUME BlkAssumption == Capacity \subseteq Lbas /\ MAX_IDX \in Nat \ {0}

VARIABLES
    blk,         \* the driver's DEVICE and the device's status: "absent" (pci::find),
                 \* "off", "failed" or "ok"
    blkq,        \* the queue: avail_idx, used_idx, last_used_idx and the device's own position
    page,        \* the page: header (type, lba), status, data; and the data descriptor's flags
    req,         \* the request the driver is working on
    blkdev,      \* the request the device is working on
    disk,        \* the device's sectors
    reply        \* history: what the last call returned

blkVars == <<blk, blkq, page, req, blkdev, disk, reply>>

NotWritten == "0xFF"   \* the status byte before the device writes it
Okay       == "0"
IOERR      == "1"

NoReq == [at |-> "idle"]
Req(at, type, lba, val) == [at |-> at, type |-> type, lba |-> lba, val |-> val]

\* What a call returns; val is what was read or written.
Returned(type, lba, val, result) == [result |-> result, type |-> type, lba |-> lba, val |-> val]

wrapping_add(i) == IF i = MAX_IDX THEN 0 ELSE i + 1

BlkInit ==
    /\ blk \in {"absent", "off"}
    /\ blkq = [avail_idx |-> 0, used_idx |-> 0, last_used_idx |-> 0, taken |-> 0]
    /\ page = [type |-> "IN", lba |-> "none", status |-> Okay, data |-> "none", data_flags |-> "NEXT"]
    /\ req = NoReq
    /\ blkdev = NoReq
    /\ disk \in [Capacity -> Values]
    /\ reply = [result |-> "none"]

(***************************************************************************)
(* init: no device; a device without a queue, or no memory, which is told        *)
(* STATUS_FAILED; or a device that is told DRIVER_OK.                            *)
(***************************************************************************)
blk_init ==
    /\ blk = "off"
    /\ blk' \in {"failed", "ok"}
    /\ UNCHANGED <<blkq, page, req, blkdev, disk, reply>>

(***************************************************************************)
(* The driver.                                                                *)
(***************************************************************************)
CanCall == blk = "ok" /\ req = NoReq

\* No device, or lba >= capacity_sectors.
Refused ==
    /\ req = NoReq
    /\ \/ blk # "ok" /\ reply' = [result |-> "NotInitialized"]
       \/ /\ blk = "ok"
          /\ \E lba \in Lbas \ Capacity, type \in {"IN", "OUT"} :
                reply' = Returned(type, lba, "none", "OutOfRange")
    /\ UNCHANGED <<blk, blkq, page, req, blkdev, disk>>

submit_read ==
    /\ CanCall
    /\ \E lba \in Capacity : req' = Req("setup", "IN", lba, "none")
    /\ UNCHANGED <<blk, blkq, page, blkdev, disk, reply>>

submit_write ==
    /\ CanCall
    /\ \E lba \in Capacity, v \in Values :
          /\ req' = Req("setup", "OUT", lba, v)
          /\ page' = [page EXCEPT !.data = v]
    /\ UNCHANGED <<blk, blkq, blkdev, disk, reply>>

setup_chain ==
    /\ req.at = "setup"
    /\ page' = [page EXCEPT !.type = req.type, !.lba = req.lba, !.status = NotWritten,
                            !.data_flags = IF req.type = "IN" THEN "NEXT|WRITE" ELSE "NEXT"]
    /\ req' = [req EXCEPT !.at = "run"]
    /\ UNCHANGED <<blk, blkq, blkdev, disk, reply>>

\* run_request: the chain is made available and the device notified ...
Publish ==
    /\ req.at = "run"
    /\ blkq' = [blkq EXCEPT !.avail_idx = wrapping_add(@)]
    /\ req' = [req EXCEPT !.at = "poll"]
    /\ UNCHANGED <<blk, page, blkdev, disk, reply>>

\* Mutant: the completion is seen but not remembered.
Completed_forgets ==
    /\ req.at = "poll"
    /\ blkq.used_idx # blkq.last_used_idx
    /\ req' = [req EXCEPT !.at = "finish"]
    /\ UNCHANGED <<blk, blkq, page, blkdev, disk, reply>>

\* ... used.idx is polled, for as long as it takes ...
Completed ==
    /\ req.at = "poll"
    /\ blkq.used_idx # blkq.last_used_idx
    /\ blkq' = [blkq EXCEPT !.last_used_idx = blkq.used_idx]
    /\ req' = [req EXCEPT !.at = "finish"]
    /\ UNCHANGED <<blk, page, blkdev, disk, reply>>

\* ... and the status is looked at; submit_read then copies the data out.
Finish ==
    /\ req.at = "finish"
    /\ reply' = IF page.status # Okay THEN Returned(req.type, req.lba, "none", "DeviceError")
                ELSE Returned(req.type, req.lba, page.data, "Ok")
    /\ req' = NoReq
    /\ UNCHANGED <<blk, blkq, page, blkdev, disk>>

(***************************************************************************)
(* The device (external): takes the next chain, carries it out or fails it,      *)
(* writes the status and then advances used.idx.                                 *)
(***************************************************************************)
DevTake ==
    /\ blk = "ok" /\ blkdev = NoReq
    /\ blkq.taken # blkq.avail_idx
    /\ blkdev' = Req("data", page.type, page.lba, "none")
    /\ blkq' = [blkq EXCEPT !.taken = wrapping_add(@)]
    /\ UNCHANGED <<blk, page, req, disk, reply>>

\* A buffer the chain does not let the device write makes the request fail.
DevData ==
    /\ blkdev.at = "data"
    /\ \/ /\ blkdev.type = "IN" /\ page.data_flags = "NEXT|WRITE"
          /\ page' = [page EXCEPT !.data = disk[blkdev.lba]]
          /\ blkdev' = [blkdev EXCEPT !.at = "status", !.val = Okay]
          /\ UNCHANGED disk
       \/ /\ blkdev.type = "OUT"
          /\ disk' = [disk EXCEPT ![blkdev.lba] = page.data]
          /\ blkdev' = [blkdev EXCEPT !.at = "status", !.val = Okay]
          /\ UNCHANGED page
       \/ /\ blkdev' = [blkdev EXCEPT !.at = "status", !.val = IOERR]
          /\ UNCHANGED <<page, disk>>
    /\ UNCHANGED <<blk, blkq, req, reply>>

DevStatus ==
    /\ blkdev.at = "status"
    /\ page' = [page EXCEPT !.status = blkdev.val]
    /\ blkdev' = [blkdev EXCEPT !.at = "used"]
    /\ UNCHANGED <<blk, blkq, req, disk, reply>>

DevUsed ==
    /\ blkdev.at = "used"
    /\ blkq' = [blkq EXCEPT !.used_idx = wrapping_add(@)]
    /\ blkdev' = NoReq
    /\ UNCHANGED <<blk, page, req, disk, reply>>

BlkDriver == setup_chain \/ Publish \/ Completed \/ Finish
BlkDevice == DevTake \/ DevData \/ DevStatus \/ DevUsed
BlkNext   == blk_init \/ Refused \/ submit_read \/ submit_write \/ BlkDriver \/ BlkDevice

BlkSpec == BlkInit /\ [][BlkNext]_blkVars

(***************************************************************************)
(* The call in progress, as the file system sees it: its effect is the device's  *)
(* access to the data.                                                           *)
(***************************************************************************)
EffectDone ==
    \/ blkdev.at \in {"status", "used"}
    \/ req.at = "poll" /\ blkq.used_idx # blkq.last_used_idx
    \/ req.at = "finish"

Outcome == IF blkdev.at = "status" THEN blkdev.val ELSE page.status

CallOf ==
    IF req = NoReq THEN [state |-> "none"]
    ELSE IF ~EffectDone THEN [state |-> "pending", type |-> req.type, lba |-> req.lba, val |-> req.val]
    ELSE IF Outcome = Okay
         THEN [state |-> "Ok", type |-> req.type, lba |-> req.lba, val |-> page.data]
         ELSE [state |-> "DeviceError", type |-> req.type, lba |-> req.lba, val |-> "none"]

S == INSTANCE Sectors WITH sectors <- disk, call <- CallOf

(***************************************************************************)
(* Each read_sector and write_sector is one access to the sector it names, made  *)
(* between call and return, and returns what that access did: although the page,  *)
(* the chain and the status byte are used again for every request and the ring     *)
(* indices wrap, no request is answered with the data or the status of another.    *)
(***************************************************************************)
ImplementsSectors == S!SectorsSpec
=============================================================================
