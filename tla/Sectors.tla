------------------------------ MODULE Sectors ------------------------------
(***************************************************************************)
(* What the disk driver promises the file system: sectors read and written one  *)
(* at a time, each request taking effect at one moment between call and return  *)
(* or failing without effect, and the caller told which.  Fat builds on this.    *)
(***************************************************************************)
CONSTANTS
    Lbas,      \* sector numbers callers ask for
    Capacity,  \* those the disk has, a subset of Lbas
    Values     \* what a sector may hold

VARIABLES
    sectors,   \* [Capacity -> Values]
    call,      \* the request in progress
    reply      \* what the last request returned

NoCall == [state |-> "none"]
Request(type, lba, val, state) == [state |-> state, type |-> type, lba |-> lba, val |-> val]
NoReply == [result |-> "none"]
NoDisk == [result |-> "NotInitialized"]
Reply(type, lba, val, result) == [result |-> result, type |-> type, lba |-> lba, val |-> val]

SectorsInit == sectors \in [Capacity -> Values] /\ call = NoCall /\ reply = NoReply

\* A request refused at once: there is no disk, or no such sector.
Refuse ==
    /\ call = NoCall
    /\ \/ reply' = NoDisk
       \/ \E lba \in Lbas \ Capacity, type \in {"IN", "OUT"} :
             reply' = Reply(type, lba, "none", "OutOfRange")
    /\ UNCHANGED <<sectors, call>>

Begin ==
    /\ call = NoCall
    /\ \E lba \in Capacity :
          \/ call' = Request("IN", lba, "none", "pending")
          \/ \E v \in Values : call' = Request("OUT", lba, v, "pending")
    /\ UNCHANGED <<sectors, reply>>

Effect ==
    /\ call.state = "pending"
    /\ \/ /\ call.type = "IN"
          /\ call' = Request("IN", call.lba, sectors[call.lba], "Ok")
          /\ UNCHANGED sectors
       \/ /\ call.type = "OUT"
          /\ call' = Request("OUT", call.lba, call.val, "Ok")
          /\ sectors' = [sectors EXCEPT ![call.lba] = call.val]
       \/ /\ call' = Request(call.type, call.lba, "none", "DeviceError")
          /\ UNCHANGED sectors
    /\ UNCHANGED reply

Return ==
    /\ call.state \in {"Ok", "DeviceError"}
    /\ reply' = Reply(call.type, call.lba, call.val, call.state)
    /\ call' = NoCall
    /\ UNCHANGED sectors

SectorsNext == Refuse \/ Begin \/ Effect \/ Return

SectorsSpec == SectorsInit /\ [][SectorsNext]_<<sectors, call, reply>>
=============================================================================
