---------------------------- MODULE VirtioProofs ----------------------------
(***************************************************************************)
(* The two drivers, for every size of disk, ring and buffer pool and every      *)
(* width of the indices: the disk driver implements Sectors, a frame that send    *)
(* reports is on the wire, and a receive buffer is in one pair of hands.          *)
(***************************************************************************)
EXTENDS Virtio, VirtioRings, FiniteSetTheorems

-----------------------------------------------------------------------------
(***************************************************************************)
(* The disk driver.  The invariant follows one request through the hands it is   *)
(* in: the driver's, on the ring, the device's, on the used ring, and the driver's  *)
(* again; where it is decides what the four indices and the page hold.             *)
(***************************************************************************)
Indices == 0 .. MAX_IDX

Active == [at : {"setup", "run", "poll", "finish"}, type : {"IN", "OUT"},
           lba : Capacity, val : Values \cup {"none"}]
Taken  == [at : {"data", "status", "used"}, type : {"IN", "OUT"},
           lba : Capacity, val : {"none", Okay, IOERR}]

BlkTypes ==
    /\ blk \in {"absent", "off", "failed", "ok"}
    /\ blkq \in [avail_idx : Indices, used_idx : Indices, last_used_idx : Indices, taken : Indices]
    /\ page \in [type : {"IN", "OUT"}, lba : Capacity \cup {"none"},
                 status : {NotWritten, Okay, IOERR}, data : Values \cup {"none"},
                 data_flags : {"NEXT", "NEXT|WRITE"}]
    /\ req \in Active \cup {NoReq}
    /\ blkdev \in Taken \cup {NoReq}
    /\ disk \in [Capacity -> Values]

\* The request is with the driver: nothing is on the ring and the device is idle.
WithDriver ==
    /\ blkdev = NoReq
    /\ blkq.avail_idx = blkq.last_used_idx
    /\ blkq.taken = blkq.last_used_idx
    /\ blkq.used_idx = blkq.last_used_idx

OnAvail ==
    /\ blkdev = NoReq
    /\ blkq.avail_idx = wrapping_add(blkq.last_used_idx)
    /\ blkq.taken = blkq.last_used_idx
    /\ blkq.used_idx = blkq.last_used_idx

WithDevice ==
    /\ blkdev \in Taken
    /\ blkdev.type = page.type /\ blkdev.lba = page.lba
    /\ blkdev.at \in {"status", "used"} => blkdev.val \in {Okay, IOERR}
    /\ blkdev.at = "used" => page.status = blkdev.val
    /\ blkq.avail_idx = wrapping_add(blkq.last_used_idx)
    /\ blkq.taken = wrapping_add(blkq.last_used_idx)
    /\ blkq.used_idx = blkq.last_used_idx

OnUsed ==
    /\ blkdev = NoReq
    /\ blkq.avail_idx = wrapping_add(blkq.last_used_idx)
    /\ blkq.taken = wrapping_add(blkq.last_used_idx)
    /\ blkq.used_idx = wrapping_add(blkq.last_used_idx)
    /\ page.status \in {Okay, IOERR}

ChainMatches ==
    /\ page.type = req.type /\ page.lba = req.lba
    /\ page.data_flags = IF req.type = "IN" THEN "NEXT|WRITE" ELSE "NEXT"

\* What the page holds of the request in progress.
PageMatches ==
    req \in Active =>
        /\ req.type = "IN" => req.val = "none"
        /\ req.type = "OUT" => req.val \in Values /\ page.data = req.val
        /\ req.at # "setup" => ChainMatches

Hands ==
    /\ req = NoReq \/ req.at \in {"setup", "run"} => WithDriver
    /\ req.at = "poll" => OnAvail \/ WithDevice \/ OnUsed
    /\ req.at = "finish" => WithDriver /\ page.status \in {Okay, IOERR}

BlkInv == BlkTypes /\ PageMatches /\ Hands

-----------------------------------------------------------------------------

\* An index that advances stays an index and is not the one it was.
LEMMA WrapAdvances ==
    ASSUME NEW i \in Indices
    PROVE  wrapping_add(i) \in Indices /\ wrapping_add(i) # i
BY BlkAssumption DEF Indices, wrapping_add

\* The invariant holds at boot.
LEMMA BlkInvInit == BlkInit => BlkInv
BY BlkAssumption DEF BlkInit, BlkInv, BlkTypes, PageMatches, Hands, WithDriver, Indices,
                     NoReq, Active, Taken, Okay, NotWritten, IOERR

\* Carrying a request out ends in the status phase, with the request's type and
\* sector as they were: data read into the page, data written to the disk, or
\* neither and a failure.
LEMMA DevDataDoes ==
    ASSUME BlkTypes, DevData, blkdev \in Taken
    PROVE  /\ blkdev.at = "data" /\ blkdev.lba \in Capacity
           /\ blkdev' \in Taken /\ blkdev'.at = "status"
           /\ blkdev'.type = blkdev.type /\ blkdev'.lba = blkdev.lba
           /\ \/ /\ blkdev.type = "IN" /\ page' = [page EXCEPT !.data = disk[blkdev.lba]]
                 /\ blkdev'.val = Okay /\ disk' = disk
              \/ /\ blkdev.type = "OUT" /\ disk' = [disk EXCEPT ![blkdev.lba] = page.data]
                 /\ blkdev'.val = Okay /\ page' = page
              \/ blkdev'.val = IOERR /\ page' = page /\ disk' = disk
<1>1. blkdev.at = "data" /\ blkdev.lba \in Capacity
  BY DEF DevData, Taken
<1>2. ASSUME NEW v \in {Okay, IOERR}, blkdev' = [blkdev EXCEPT !.at = "status", !.val = v]
      PROVE  /\ blkdev' \in Taken /\ blkdev'.at = "status" /\ blkdev'.val = v
             /\ blkdev'.type = blkdev.type /\ blkdev'.lba = blkdev.lba
  BY Zenon, <1>2 DEF Taken
<1> QED
  BY <1>1, <1>2 DEF DevData

USE DEF Active, Taken, NoReq, Req, Okay, IOERR, NotWritten

\* Every step of the driver and of the device keeps it.
LEMMA BlkInvNext == BlkInv /\ [BlkNext]_blkVars => BlkInv'
<1> SUFFICES ASSUME BlkInv, [BlkNext]_blkVars PROVE BlkInv'
  OBVIOUS
<1> USE DEF BlkInv, BlkTypes, PageMatches, Hands, WithDriver, OnAvail, WithDevice, OnUsed, ChainMatches
<1>1. CASE blk_init
  BY <1>1 DEF blk_init
<1>2. CASE Refused
  BY <1>2 DEF Refused
<1>3. CASE submit_read
  BY <1>3 DEF submit_read, CanCall
<1>4. CASE submit_write
  BY <1>4 DEF submit_write, CanCall
<1>5. CASE setup_chain
  <2>1. req \in Active /\ req.at = "setup" /\ WithDriver
    BY <1>5 DEF setup_chain
  <2>2. /\ req' \in Active /\ req'.at = "run"
        /\ req'.type = req.type /\ req'.lba = req.lba /\ req'.val = req.val
    BY <1>5, <2>1 DEF setup_chain
  <2>3. /\ page'.type = req.type /\ page'.lba = req.lba /\ page'.data = page.data
        /\ page'.data_flags = IF req.type = "IN" THEN "NEXT|WRITE" ELSE "NEXT"
        /\ page'.status = NotWritten
    BY <1>5, <2>1 DEF setup_chain
  <2>4. BlkTypes'
    <3>1. /\ page' \in [type : {"IN", "OUT"}, lba : Capacity \cup {"none"},
                        status : {NotWritten, Okay, IOERR}, data : Values \cup {"none"},
                        data_flags : {"NEXT", "NEXT|WRITE"}]
          /\ blk' = blk /\ blkq' = blkq /\ blkdev' = blkdev /\ disk' = disk
      BY Zenon, <1>5, <2>1 DEF setup_chain
    <3> QED BY <2>2, <3>1
  <2>5. PageMatches'
    BY <2>1, <2>2, <2>3
  <2>6. Hands'
    BY <1>5, <2>1, <2>2 DEF setup_chain
  <2> QED
    BY Zenon, <2>4, <2>5, <2>6
<1>6. CASE Publish
  BY <1>6, WrapAdvances DEF Publish
<1>7. CASE Completed
  BY <1>7, WrapAdvances DEF Completed
<1>8. CASE Finish
  BY <1>8 DEF Finish
<1>9. CASE DevTake
  BY <1>9, WrapAdvances DEF DevTake
<1>10. CASE DevData
  <2>1. /\ req \in Active /\ req.at = "poll" /\ WithDevice
        /\ blkdev.at = "data" /\ blkdev.lba \in Capacity
        /\ UNCHANGED <<blk, blkq, req>>
    BY <1>10 DEF DevData
  <2>2. /\ blkdev' \in Taken /\ blkdev'.at = "status" /\ blkdev'.val \in {Okay, IOERR}
        /\ blkdev'.type = blkdev.type /\ blkdev'.lba = blkdev.lba
        /\ \/ blkdev.type = "IN" /\ page' = [page EXCEPT !.data = disk[blkdev.lba]] /\ disk' = disk
           \/ blkdev.type = "OUT" /\ disk' = [disk EXCEPT ![blkdev.lba] = page.data] /\ page' = page
           \/ page' = page /\ disk' = disk
    <3> HIDE DEF DevData
    <3> QED BY <1>10, <2>1, DevDataDoes
  <2>3. /\ page'.type = page.type /\ page'.lba = page.lba /\ page'.data_flags = page.data_flags
        /\ req.type = "OUT" => page' = page
    BY <2>1, <2>2
  <2>4. disk' \in [Capacity -> Values]
    BY <2>1, <2>2
  <2>5. page' = page \/ page' = [page EXCEPT !.data = disk[blkdev.lba]]
    BY Zenon, <2>2
  <2>6. BlkTypes'
    BY <2>1, <2>2, <2>4, <2>5
  <2>7. PageMatches'
    BY <2>1, <2>3
  <2>8. Hands'
    BY <2>1, <2>2, <2>3
  <2> QED
    BY <2>6, <2>7, <2>8
<1>11. CASE DevStatus
  BY <1>11 DEF DevStatus
<1>12. CASE DevUsed
  BY <1>12, WrapAdvances DEF DevUsed
<1>13. CASE UNCHANGED blkVars
  BY SMTT(20), <1>13 DEF blkVars
<1> QED
  BY Zenon, <1>1, <1>2, <1>3, <1>4, <1>5, <1>6, <1>7, <1>8, <1>9, <1>10, <1>11, <1>12, <1>13
     DEF BlkNext, BlkDriver, BlkDevice

\* The device's access to the data is the Effect of Sectors: the sector and the
\* value are those of the request, and the outcome told is what happened.
LEMMA DataStepRefines == ASSUME BlkInv, DevData PROVE S!SectorsNext
<1>1. /\ BlkTypes /\ req \in Active /\ req.at = "poll"
      /\ blkdev \in Taken /\ blkdev.type = req.type /\ blkdev.lba = req.lba
      /\ blkq.used_idx = blkq.last_used_idx
      /\ req.type = "OUT" => page.data = req.val
  BY DEF DevData, BlkInv, BlkTypes, Hands, PageMatches, ChainMatches,
         WithDriver, OnAvail, WithDevice, OnUsed
<1>2. UNCHANGED <<blkq, req, reply>>
  BY DEF DevData
<1>3. /\ blkdev.at = "data" /\ blkdev.lba \in Capacity /\ blkdev'.at = "status"
      /\ \/ /\ blkdev.type = "IN" /\ page' = [page EXCEPT !.data = disk[blkdev.lba]]
            /\ blkdev'.val = Okay /\ disk' = disk
         \/ /\ blkdev.type = "OUT" /\ disk' = [disk EXCEPT ![blkdev.lba] = page.data]
            /\ blkdev'.val = Okay /\ page' = page
         \/ blkdev'.val = IOERR /\ page' = page /\ disk' = disk
  BY <1>1, DevDataDoes
<1>4. CallOf = [state |-> "pending", type |-> req.type, lba |-> req.lba, val |-> req.val]
  BY <1>1, <1>3 DEF CallOf, EffectDone
<1>5. EffectDone' /\ Outcome' = blkdev'.val /\ req' # NoReq
  BY <1>1, <1>2, <1>3 DEF EffectDone, Outcome
<1>6. CallOf' = IF blkdev'.val = Okay
                THEN [state |-> "Ok", type |-> req.type, lba |-> req.lba, val |-> page'.data]
                ELSE [state |-> "DeviceError", type |-> req.type, lba |-> req.lba, val |-> "none"]
  BY <1>2, <1>5 DEF CallOf
<1>7. page.data \in Values \cup {"none"} /\ DOMAIN page = {"type", "lba", "status", "data", "data_flags"}
  BY <1>1 DEF BlkTypes
<1>8. CASE blkdev.type = "IN" /\ page'.data = disk[req.lba] /\ blkdev'.val = Okay /\ disk' = disk
  BY <1>1, <1>2, <1>4, <1>6, <1>8 DEF S!SectorsNext, S!Effect, S!Request
<1>9. CASE /\ blkdev.type = "OUT" /\ disk' = [disk EXCEPT ![req.lba] = req.val]
           /\ blkdev'.val = Okay /\ page' = page
  BY <1>1, <1>2, <1>4, <1>6, <1>9 DEF S!SectorsNext, S!Effect, S!Request
<1>10. CASE blkdev'.val = IOERR /\ page' = page /\ disk' = disk
  BY <1>1, <1>2, <1>4, <1>6, <1>10 DEF S!SectorsNext, S!Effect, S!Request
<1> QED
  BY <1>1, <1>3, <1>7, <1>8, <1>9, <1>10

\* Every step is a step of Sectors or leaves what its callers see as it was.
LEMMA BlkStepRefines == BlkInv /\ BlkInv' /\ [BlkNext]_blkVars => [S!SectorsNext]_<<disk, CallOf, reply>>
<1> SUFFICES ASSUME BlkInv, BlkInv', [BlkNext]_blkVars
             PROVE  [S!SectorsNext]_<<disk, CallOf, reply>>
  OBVIOUS
<1> USE DEF BlkInv, BlkTypes, PageMatches, Hands, WithDriver, OnAvail, WithDevice, OnUsed, ChainMatches,
            CallOf, EffectDone, Outcome
<1>1. CASE blk_init
  BY SMTT(20), <1>1 DEF blk_init
<1>2. CASE Refused
  BY Zenon, <1>2 DEF Refused, Returned, S!SectorsNext, S!Refuse, S!NoCall, S!NoDisk, S!Reply
<1>3. CASE submit_read
  <2>1. PICK lba \in Capacity : req' = Req("setup", "IN", lba, "none")
    BY Zenon, <1>3 DEF submit_read
  <2>2. req = NoReq /\ blkdev = NoReq /\ UNCHANGED <<blkq, page, blkdev, disk, reply>>
    BY Zenon, <1>3 DEF submit_read, CanCall
  <2> HIDE DEF BlkInv, BlkTypes, PageMatches, Hands, WithDriver, OnAvail, WithDevice, OnUsed, ChainMatches
  <2>3. /\ CallOf = [state |-> "none"]
        /\ CallOf' = [state |-> "pending", type |-> "IN", lba |-> lba, val |-> "none"]
    BY Zenon, <2>1, <2>2 DEF Req, NoReq
  <2> HIDE DEF CallOf
  <2> QED BY <2>2, <2>3 DEF S!SectorsNext, S!Begin, S!NoCall, S!Request
<1>4. CASE submit_write
  BY SMTT(20), <1>4 DEF submit_write, CanCall, S!SectorsNext, S!Begin, S!NoCall, S!Request
<1>5. CASE setup_chain
  BY <1>5 DEF setup_chain
<1>6. CASE Publish
  BY <1>6, WrapAdvances DEF Publish
<1>7. CASE Completed
  BY <1>7, WrapAdvances DEF Completed
<1>8. CASE Finish
  <2>1. /\ req.at = "finish" /\ req # NoReq /\ req' = NoReq /\ blkdev = NoReq /\ disk' = disk
        /\ page.status \in {Okay, IOERR}
        /\ reply' = IF page.status # Okay THEN Returned(req.type, req.lba, "none", "DeviceError")
                    ELSE Returned(req.type, req.lba, page.data, "Ok")
    BY SMTT(20), <1>8 DEF Finish, NoReq
  <2> HIDE DEF BlkInv, BlkTypes, PageMatches, Hands, WithDriver, OnAvail, WithDevice, OnUsed, ChainMatches
  <2>2. CallOf' = [state |-> "none"]
    BY Zenon, <2>1
  <2>3. CallOf = IF page.status = Okay
                 THEN [state |-> "Ok", type |-> req.type, lba |-> req.lba, val |-> page.data]
                 ELSE [state |-> "DeviceError", type |-> req.type, lba |-> req.lba, val |-> "none"]
    BY Zenon, <2>1 DEF NoReq
  <2> HIDE DEF CallOf
  <2> QED BY Zenon, <2>1, <2>2, <2>3 DEF Returned, S!SectorsNext, S!Return, S!NoCall, S!Reply
<1>9. CASE DevTake
  BY <1>9, WrapAdvances DEF DevTake
<1>10. CASE DevData
  <2> HIDE DEF BlkInv, BlkTypes, PageMatches, Hands, WithDriver, OnAvail, WithDevice, OnUsed, ChainMatches,
               CallOf, EffectDone, Outcome
  <2> QED BY <1>10, DataStepRefines
<1>11. CASE DevStatus
  BY <1>11 DEF DevStatus
<1>12. CASE DevUsed
  BY <1>12, WrapAdvances DEF DevUsed
<1>13. CASE UNCHANGED blkVars
  <2> HIDE DEF BlkInv
  <2> QED BY Zenon, <1>13 DEF blkVars
<1> QED
  BY Zenon, <1>1, <1>2, <1>3, <1>4, <1>5, <1>6, <1>7, <1>8, <1>9, <1>10, <1>11, <1>12, <1>13
     DEF BlkNext, BlkDriver, BlkDevice

(***************************************************************************)
(* The driver of virtio_blk.rs implements Sectors: every request is one access   *)
(* to its own sector and is answered with what that access did.                   *)
(***************************************************************************)
THEOREM BlkImplementsSectors == BlkSpec => ImplementsSectors
<1>1. BlkInit => S!SectorsInit
  BY Zenon DEF BlkInit, CallOf, S!SectorsInit, S!NoCall, S!NoReply
<1> QED
  BY <1>1, BlkInvInit, BlkInvNext, BlkStepRefines, PTL
     DEF BlkSpec, ImplementsSectors, S!SectorsSpec

-----------------------------------------------------------------------------
(***************************************************************************)
(* Least elements.  Where a proof needs induction it takes the least          *)
(* counterexample, which LeastNatural provides.                                *)
(***************************************************************************)
Below == {p \in Nat \X Nat : p[1] < p[2]}

\* Every non-empty set of naturals has a least element.
LEMMA LeastNatural ==
    ASSUME NEW T, T \subseteq Nat, T # {}
    PROVE  \E n \in T : \A m \in T : n <= m
<1>1. IsWellFoundedOn(Below, Nat)
  BY NatLessThanWellFounded, Zenon DEF OpToRel, Below
<1>2. PICK n \in T : \A m \in T : ~ (<<m, n>> \in Below)
  BY Zenon, <1>1, WFMin
<1>3. n \in Nat /\ \A m \in T : m \in Nat /\ ~ (m < n)
  BY Zenon, <1>2 DEF Below
<1>4. \A m \in T : n <= m
  BY <1>3
<1>. QED BY <1>2, <1>4

-----------------------------------------------------------------------------
(***************************************************************************)
(* What a buffer's hands are: the entries of the rings, the card and recv.    *)
(***************************************************************************)
LEMMA HandedOutIs ==
    ASSUME rx = Virtq
    PROVE  HandedOut = Handed(RX_BUF_COUNT)
<1> DEFINE N == RX_BUF_COUNT
           Eqn(f) == f = [n \in 0 .. N |-> IF n = 0 THEN rx ELSE push_avail(f[n - 1], n - 1)]
           g == [n \in 0 .. N |-> Handed(n)]
           after == CHOOSE f : Eqn(f)
<1>1. N \in Nat
  BY NetConstants
<1>2. Handed(0) = rx
  <2>1. [s \in Slots |-> IF s < 0 THEN s ELSE 0] = [s \in Slots |-> 0]
    BY DEF Slots
  <2> QED BY <2>1 DEF Handed, Virtq
<1>3. ASSUME NEW n \in 0 .. N, n # 0 PROVE Handed(n) = push_avail(Handed(n - 1), n - 1)
  <2>1. n - 1 \in Nat /\ n - 1 < N /\ (n - 1) + 1 = n
    BY <1>1, <1>3
  <2> QED BY <2>1, HandedNext
<1>4. Eqn(g)
  <2>1. ASSUME NEW n \in 0 .. N
        PROVE  g[n] = IF n = 0 THEN rx ELSE push_avail(g[n - 1], n - 1)
    <3>1. n # 0 => n - 1 \in 0 .. N
      BY <1>1
    <3> QED BY <1>2, <1>3, <3>1
  <2> QED BY <2>1
<1>5. HandedOut = after[N]
  BY DEF HandedOut
<1>6. Eqn(after)
  <2> HIDE DEF Eqn, g
  <2> QED BY <1>4
<1> HIDE DEF after
<1> DEFINE T == {n \in 0 .. N : after[n] # Handed(n)}
<1>7. T = {}
  <2> SUFFICES ASSUME T # {} PROVE FALSE
    OBVIOUS
  <2>1. T \subseteq Nat
    BY <1>1
  <2>2. PICK n \in T : \A m \in T : n <= m
    <3> HIDE DEF T
    <3> QED BY Zenon, <2>1, LeastNatural
  <2>3. n \in 0 .. N /\ after[n] # Handed(n)
    OBVIOUS
  <2>4. n # 0
    BY <1>1, <1>2, <1>6, <2>3
  <2>5. n - 1 \in 0 .. N /\ n - 1 \notin T
    <3>1. n - 1 \in 0 .. N /\ ~ (n <= n - 1)
      BY <1>1, <2>3, <2>4
    <3> HIDE DEF T
    <3> QED BY <2>2, <3>1
  <2>6. after[n - 1] = Handed(n - 1)
    BY <2>5
  <2>7. after[n] = push_avail(after[n - 1], n - 1)
    BY Zenon, <1>6, <2>3, <2>4
  <2> QED BY <1>3, <2>3, <2>4, <2>6, <2>7
<1>8. after[N] = Handed(N)
  BY <1>1, <1>7
<1> QED BY <1>5, <1>8

Same(a, b) == IF a = b THEN 1 ELSE 0

\* The entries of a ring, from index i up to index j, that name buffer b.
Entries(ring, i, j, b) == Cardinality({s \in Live(i, j) : ring[s] = b})

\* Sets of ring slots are finite.
LEMMA SlotsFinite ==
    ASSUME NEW slots \in SUBSET Slots
    PROVE  IsFiniteSet(slots) /\ Cardinality(slots) \in Nat
<1>1. 0 \in Int /\ queue_size - 1 \in Int
  BY NetConstants
<1>2. IsFiniteSet(Slots)
  BY <1>1, FS_Interval DEF Slots
<1> QED BY <1>2, FS_Subset, FS_CardinalityType

\* The entries of a buffer on a ring are a natural number.
LEMMA EntriesNat ==
    ASSUME NEW ring, NEW i, NEW j, NEW b
    PROVE  Entries(ring, i, j, b) \in Nat
<1> DEFINE here == {s \in Live(i, j) : ring[s] = b}
<1>1. here \in SUBSET Slots /\ Entries(ring, i, j, b) = Cardinality(here)
  BY DEF Live, Entries
<1> HIDE DEF here
<1> QED BY <1>1, SlotsFinite

\* The first entry is taken.
LEMMA EntryTaken ==
    ASSUME NEW ring, NEW i \in Idx, NEW j \in Idx, Between(i, j) \in 1 .. queue_size, NEW b
    PROVE  Entries(ring, Wrap(i), j, b) = Entries(ring, i, j, b) - Same(ring[i % queue_size], b)
<1> DEFINE f    == i % queue_size
           here == {s \in Live(i, j) : ring[s] = b}
           next == {s \in Live(Wrap(i), j) : ring[s] = b}
<1>1. f \in Live(i, j) /\ Live(Wrap(i), j) = Live(i, j) \ {f}
  <2>1. f = i % queue_size
    OBVIOUS
  <2> HIDE DEF f
  <2> QED BY <2>1, LivePop, Zenon
<1>2. IsFiniteSet(here) /\ Cardinality(here) \in Nat
  <2>1. here \in SUBSET Slots
    BY DEF Live
  <2> HIDE DEF here
  <2> QED BY <2>1, SlotsFinite
<1>3. Entries(ring, i, j, b) = Cardinality(here) /\ Entries(ring, Wrap(i), j, b) = Cardinality(next)
  BY DEF Entries
<1> HIDE DEF f
<1>4. CASE ring[f] = b
  <2>1. next = here \ {f} /\ f \in here
    BY <1>1, <1>4
  <2> HIDE DEF here, next
  <2>2. Cardinality(here \ {f}) = Cardinality(here) - 1
    BY SMTT(20), <1>2, <2>1, FS_RemoveElement
  <2>3. Cardinality(next) = Cardinality(here) - 1
    BY <2>1, <2>2, Zenon
  <2> QED BY <1>3, <1>4, <2>3 DEF Same, f
<1>5. CASE ring[f] # b
  <2>1. next = here
    BY <1>1, <1>5
  <2> HIDE DEF here, next
  <2>2. Cardinality(next) = Cardinality(here)
    BY <2>1, Zenon
  <2> QED BY <1>2, <1>3, <1>5, <2>2 DEF Same, f
<1> QED BY <1>4, <1>5

\* An entry is added.
LEMMA EntryAdded ==
    ASSUME NEW ring, NEW i \in Idx, NEW j \in Idx, Between(i, j) < queue_size, NEW b, NEW new,
           \A s \in Slots : s # j % queue_size => new[s] = ring[s]
    PROVE  Entries(new, i, Wrap(j), b) = Entries(ring, i, j, b) + Same(new[j % queue_size], b)
<1> DEFINE e    == j % queue_size
           here == {s \in Live(i, j) : ring[s] = b}
           next == {s \in Live(i, Wrap(j)) : new[s] = b}
<1>1. e \notin Live(i, j) /\ Live(i, Wrap(j)) = Live(i, j) \cup {e}
  BY LivePush
<1>2. IsFiniteSet(here) /\ Cardinality(here) \in Nat
  <2>1. here \in SUBSET Slots
    BY DEF Live
  <2> HIDE DEF here
  <2> QED BY <2>1, SlotsFinite
<1>3. Entries(ring, i, j, b) = Cardinality(here) /\ Entries(new, i, Wrap(j), b) = Cardinality(next)
  BY DEF Entries
<1>n. \A s \in Live(i, j) : new[s] = ring[s]
  BY <1>1 DEF Live
<1> HIDE DEF e
<1>4. CASE new[e] = b
  <2>1. next = here \cup {e} /\ e \notin here
    BY <1>1, <1>4, <1>n
  <2> HIDE DEF here, next
  <2>2. Cardinality(here \cup {e}) = Cardinality(here) + 1
    BY Zenon, <1>2, <2>1, FS_AddElement
  <2>3. Cardinality(next) = Cardinality(here) + 1
    BY <2>1, <2>2, Zenon
  <2> QED BY <1>3, <1>4, <2>3 DEF Same, e
<1>5. CASE new[e] # b
  <2>1. next = here
    BY Zenon, <1>1, <1>5, <1>n
  <2> HIDE DEF here, next
  <2>2. Cardinality(next) = Cardinality(here)
    BY <2>1, Zenon
  <2> QED BY <1>2, <1>3, <1>5, <2>2 DEF Same, e
<1> QED BY <1>4, <1>5

\* What a live slot of a ring holds is on that ring.
LEMMA SomeEntry ==
    ASSUME NEW ring, NEW i, NEW j, NEW s \in Live(i, j)
    PROVE  Entries(ring, i, j, ring[s]) >= 1
<1> DEFINE here == {e \in Live(i, j) : ring[e] = ring[s]}
<1>1. here \in SUBSET Slots /\ s \in here /\ Entries(ring, i, j, ring[s]) = Cardinality(here)
  BY DEF Live, Entries
<1> HIDE DEF here
<1>2. IsFiniteSet(here) /\ Cardinality(here) \in Nat /\ here # {}
  BY <1>1, SlotsFinite
<1>3. Cardinality(here) # 0
  BY <1>2, FS_EmptySet
<1> QED BY <1>1, <1>2, <1>3

Avail(b)  == Entries(rx.avail, rx.taken, rx.avail_idx, b)
Used(b)   == Entries(rx.used, rx.last_used_idx, rx.used_idx, b)
Copied(b) == IF op.at = "recv" /\ op.id = b THEN 1 ELSE 0

\* The holders of a buffer, hand by hand: on the available ring, on the used ring, the card, the driver.
LEMMA HoldersAre ==
    ASSUME NEW b
    PROVE  /\ Holders(b) = Avail(b) + Used(b) + Same(card_rx, b) + Copied(b)
           /\ Avail(b) \in Nat /\ Used(b) \in Nat /\ Same(card_rx, b) \in Nat /\ Copied(b) \in Nat
           /\ Holders(b)' = Avail(b)' + Used(b)' + Same(card_rx', b) + Copied(b)'
<1>1. /\ Holders(b) = Avail(b) + Used(b) + Same(card_rx, b) + Copied(b)
      /\ Holders(b)' = Avail(b)' + Used(b)' + Same(card_rx', b) + Copied(b)'
  BY Zenon DEF Holders, Avail, Used, Entries, Same, Copied
<1>2. Avail(b) \in Nat /\ Used(b) \in Nat
  BY EntriesNat DEF Avail, Used
<1> QED BY <1>1, <1>2 DEF Same, Copied

\* A step that moves a buffer from one pair of hands to another.
LEMMA HandsKept ==
    ASSUME NetInv, nic = "ok", bogus' = bogus, \A b \in RxBufs : Holders(b)' = Holders(b)
    PROVE  /\ \A b \in RxBufs : Holders(b)' <= 1
           /\ Cardinality({b \in RxBufs : Holders(b)' = 0}) = bogus'
<1> DEFINE none == {b \in RxBufs : Holders(b) = 0}
           next == {b \in RxBufs : Holders(b)' = 0}
<1>1. (\A b \in RxBufs : Holders(b) <= 1) /\ Cardinality(none) = bogus
  BY DEF NetInv, RxSound
<1>2. next = none
  OBVIOUS
<1> HIDE DEF none, next
<1>3. Cardinality(next) = bogus'
  BY <1>1, <1>2, Zenon
<1> QED BY <1>1, <1>3 DEF next

\* A step that loses the buffer c.
LEMMA HandLost ==
    ASSUME NetInv, nic = "ok", bogus' = bogus + 1, NEW c \in RxBufs, Holders(c) >= 1,
           \A b \in RxBufs : Holders(b)' = Holders(b) - Same(c, b)
    PROVE  /\ \A b \in RxBufs : Holders(b)' <= 1
           /\ Cardinality({b \in RxBufs : Holders(b)' = 0}) = bogus'
<1> DEFINE none == {b \in RxBufs : Holders(b) = 0}
           next == {b \in RxBufs : Holders(b)' = 0}
<1>1. (\A b \in RxBufs : Holders(b) <= 1) /\ Cardinality(none) = bogus
  BY DEF NetInv, RxSound
<1>2. \A b \in RxBufs : Holders(b) \in Nat
  BY HoldersAre
<1>3. next = none \cup {c} /\ c \notin none
  BY <1>1, <1>2 DEF Same
<1>4. \A b \in RxBufs : Holders(b)' <= 1
  BY <1>1, <1>2 DEF Same
<1>5. none \in SUBSET Slots
  <2>1. RxBufs \subseteq Slots
    BY NetConstants DEF RxBufs, Slots
  <2> QED BY <2>1
<1> HIDE DEF none, next
<1>6. IsFiniteSet(none)
  BY <1>5, SlotsFinite
<1>7. Cardinality(none \cup {c}) = Cardinality(none) + 1
  BY <1>3, <1>6, FS_AddElement
<1>8. Cardinality(next) = bogus'
  BY <1>1, <1>3, <1>7, Zenon
<1> QED BY <1>4, <1>8 DEF next

\* Steps that leave the receive side alone.
LEMMA RxKept ==
    ASSUME NetInv, UNCHANGED <<nic, rx, rx_bufs, card_rx, arrivals, got, bogus>>,
           (op.at # "recv" /\ op'.at # "recv") \/ UNCHANGED op
    PROVE  RxRoom' /\ RxFrames' /\ RxSound'
<1>1. RxRoom' /\ RxFrames' /\ InOrder'
  BY FramesKept
<1>2. \A b \in RxBufs : Holders(b)' = Holders(b)
  BY Zenon DEF Holders
<1>3. RxSound'
  BY <1>1, <1>2, HandsKept DEF RxSound, InOrder
<1> QED BY <1>1, <1>3

\* recv takes a used entry: its buffer goes from the used ring to the driver.
LEMMA RecvTakeMoves ==
    ASSUME NetInv, RecvTake, NEW b \in RxBufs
    PROVE  Holders(b)' = Holders(b)
<1> DEFINE u == UsedId(rx)
<1>1. /\ op = Idle /\ card_rx' = card_rx
      /\ op' = IF u \in RxBufs THEN [at |-> "recv", id |-> u] ELSE Idle
  BY Zenon DEF RecvTake
<1>2. /\ rx'.avail = rx.avail /\ rx'.avail_idx = rx.avail_idx /\ rx'.used = rx.used
      /\ rx'.used_idx = rx.used_idx /\ rx'.last_used_idx = Wrap(rx.last_used_idx)
      /\ rx'.taken = rx.taken
  BY Zenon, RxIndices, TakeUsedFields DEF RecvTake
<1>3. /\ rx.last_used_idx \in Idx /\ rx.used_idx \in Idx
      /\ Between(rx.last_used_idx, rx.used_idx) \in 1 .. queue_size
  BY Zenon, RxIndices, RecvTakeFrames DEF Unread
<1>4. Used(b)' = Used(b) - Same(u, b)
  BY SMTT(20), <1>2, <1>3, EntryTaken DEF Used, UsedId
<1>5. Avail(b)' = Avail(b) /\ Same(card_rx', b) = Same(card_rx, b)
  BY Zenon, <1>1, <1>2 DEF Avail
<1>6. Copied(b) = 0 /\ Copied(b)' = Same(u, b) /\ Same(u, b) \in Nat
  BY Zenon, <1>1 DEF Copied, Idle, Same
<1> QED BY <1>4, <1>5, <1>6, HoldersAre

\* recv copies the frame out: its buffer goes from the driver to the available ring.
LEMMA RecvCopyMoves ==
    ASSUME NetInv, RecvCopy, NEW b \in RxBufs
    PROVE  Holders(b)' = Holders(b)
<1> DEFINE e == rx.avail_idx % queue_size
<1>1. /\ op.at = "recv" /\ op' = Idle /\ card_rx' = card_rx /\ rx' = push_avail(rx, op.id)
      /\ op.id \in RxBufs /\ rx \in Virtqs /\ rx.taken \in Idx /\ rx.avail_idx \in Idx
      /\ Between(rx.taken, rx.avail_idx) < queue_size
  BY Zenon, RxIndices, RecvCopyFrames DEF RecvCopy
<1>2. /\ \A s \in Slots : rx'.avail[s] = IF s = e THEN op.id ELSE rx.avail[s]
      /\ rx'.avail_idx = Wrap(rx.avail_idx) /\ rx'.used = rx.used
      /\ rx'.used_idx = rx.used_idx /\ rx'.last_used_idx = rx.last_used_idx
      /\ rx'.taken = rx.taken
  BY SMTT(20), <1>1, PushFields
<1>3. e \in Slots
  BY Zenon, <1>1, LivePush
<1>4. rx'.avail[e] = op.id /\ \A s \in Slots : s # e => rx'.avail[s] = rx.avail[s]
  BY Zenon, <1>2, <1>3
<1>5. Avail(b)' = Avail(b) + Same(op.id, b)
  BY SMTT(20), <1>1, <1>2, <1>4, EntryAdded DEF Avail
<1>6. Used(b)' = Used(b) /\ Same(card_rx', b) = Same(card_rx, b)
  BY Zenon, <1>1, <1>2 DEF Used
<1>7. Copied(b) = Same(op.id, b) /\ Copied(b)' = 0
  BY Zenon, <1>1 DEF Copied, Idle, Same
<1> QED BY SMTT(20), <1>5, <1>6, <1>7, HoldersAre

\* A frame arrives: the first buffer made available goes to the card.
LEMMA CardRxFillMoves ==
    ASSUME NetInv, CardRxFill
    PROVE  HeadIsFree /\ (\A b \in RxBufs : Holders(b)' = Holders(b))
<1> DEFINE f == rx.taken % queue_size
           c == rx.avail[f]
<1>1. /\ nic = "ok" /\ card_rx = NoBuf /\ card_rx' = c /\ op' = op /\ rx' = TakeAvail(rx)
      /\ Between(rx.taken, rx.avail_idx) \in 1 .. queue_size /\ c = AvailHead(rx)
  BY Zenon DEF CardRxFill, HasAvail, AvailHead
<1>2. rx \in Virtqs /\ rx.taken \in Idx /\ rx.avail_idx \in Idx
  BY RxIndices
<1>3. /\ rx'.avail = rx.avail /\ rx'.avail_idx = rx.avail_idx /\ rx'.used = rx.used
      /\ rx'.used_idx = rx.used_idx /\ rx'.last_used_idx = rx.last_used_idx
      /\ rx'.taken = Wrap(rx.taken)
  BY Zenon, <1>1, <1>2, TakeAvailFields
<1>4. f \in Live(rx.taken, rx.avail_idx)
  BY Zenon, <1>1, <1>2, LivePop
<1>5. c \in RxBufs
  BY Zenon, <1>2, <1>4 DEF Live, Virtqs
<1>6. Avail(c) >= 1
  BY Zenon, <1>4, SomeEntry DEF Avail
<1> HIDE DEF f, c
<1>7. HeadIsFree
  <2>1. Holders(c) <= 1
    BY Zenon, <1>1, <1>5 DEF NetInv, RxSound
  <2>2. Used(c) = 0 /\ Copied(c) = 0
    BY <1>6, <2>1, HoldersAre
  <2>3. \A s \in Live(rx.last_used_idx, rx.used_idx) : rx.used[s] # c
    BY <2>2, SomeEntry DEF Used
  <2> QED BY <1>1, <2>2, <2>3 DEF HeadIsFree, Copied
<1>8. ASSUME NEW b \in RxBufs PROVE Holders(b)' = Holders(b)
  <2>1. Avail(b)' = Avail(b) - Same(c, b)
    BY SMTT(30), <1>1, <1>2, <1>3, EntryTaken DEF Avail, c, f
  <2>2. Used(b)' = Used(b) /\ Copied(b)' = Copied(b)
    BY Zenon, <1>1, <1>3 DEF Used, Copied
  <2>3. Same(card_rx, b) = 0 /\ Same(card_rx', b) = Same(c, b) /\ Same(c, b) \in Nat
    BY <1>1, ZeroIsBuf DEF Same
  <2> QED BY SMTT(20), <2>1, <2>2, <2>3, HoldersAre
<1> QED BY <1>7, <1>8

\* The card answers: its buffer goes to the used ring or, with an id that is none,
\* is lost.
LEMMA CardRxDoneMoves ==
    ASSUME NetInv, CardRxDone
    PROVE  /\ \A b \in RxBufs : Holders(b)' <= 1
           /\ Cardinality({b \in RxBufs : Holders(b)' = 0}) = bogus'
<1> DEFINE e == rx.used_idx % queue_size
           id == IF bogus' = bogus THEN card_rx ELSE NoBuf
<1>1. /\ card_rx # NoBuf /\ card_rx' = NoBuf /\ rx' = PushUsed(rx, id) /\ op' = op
      /\ bogus' = bogus \/ (bogus' = bogus + 1 /\ id = NoBuf)
  BY SMTT(20) DEF CardRxDone, NetInv, NetTypes
<1>2. card_rx \in RxBufs /\ id \in RxBufs \cup {NoBuf} /\ nic = "ok"
  BY Zenon, <1>1 DEF NetInv, NetTypes, Untouched
<1>3. /\ bogus' = bogus => id = card_rx
      /\ bogus' # bogus => bogus' = bogus + 1 /\ id = NoBuf
  BY <1>1
<1> HIDE DEF id
<1>4. /\ rx \in Virtqs /\ rx.last_used_idx \in Idx /\ rx.used_idx \in Idx
      /\ Between(rx.last_used_idx, rx.used_idx) < queue_size
  BY RxIndices, CardRxDoneFrames DEF Unread
<1>5. /\ rx'.avail = rx.avail /\ rx'.avail_idx = rx.avail_idx
      /\ \A s \in Slots : rx'.used[s] = IF s = e THEN id ELSE rx.used[s]
      /\ rx'.used_idx = Wrap(rx.used_idx) /\ rx'.last_used_idx = rx.last_used_idx
      /\ rx'.taken = rx.taken
  <2>1. rx \in Virtqs /\ id \in RxBufs \cup {NoBuf} /\ rx' = PushUsed(rx, id)
    BY Zenon, <1>1, <1>2, <1>4
  <2> QED BY SMTT(20), <2>1, PushUsedFields
<1>6. e \in Slots
  BY <1>4, LivePush
<1>7. ASSUME NEW b \in RxBufs
      PROVE  /\ Holders(b)' = Holders(b) - Same(card_rx, b) + Same(id, b)
             /\ Holders(b) \in Nat /\ Same(card_rx, b) \in Nat
             /\ b = card_rx => Holders(b) >= 1
  <2>1. Used(b)' = Used(b) + Same(id, b)
    <3>1. rx'.used[e] = id /\ \A s \in Slots : s # e => rx'.used[s] = rx.used[s]
      BY Zenon, <1>5, <1>6
    <3> QED BY SMTT(20), <1>4, <1>5, <3>1, EntryAdded DEF Used
  <2>2. Avail(b)' = Avail(b) /\ Copied(b)' = Copied(b)
    BY Zenon, <1>1, <1>5 DEF Avail, Copied
  <2>3. Same(card_rx', b) = 0 /\ Same(id, b) \in Nat /\ (b = card_rx => Same(card_rx, b) = 1)
    BY <1>1, ZeroIsBuf DEF Same
  <2> QED BY SMTT(20), <2>1, <2>2, <2>3, HoldersAre
<1>8. CASE bogus' = bogus
  <2>1. \A b \in RxBufs : Holders(b)' = Holders(b)
    BY <1>3, <1>7, <1>8
  <2> QED BY <1>2, <1>8, <2>1, HandsKept
<1>9. CASE bogus' # bogus
  <2>1. \A b \in RxBufs : Same(id, b) = 0
    BY <1>3, <1>9, ZeroIsBuf DEF Same
  <2>2. \A b \in RxBufs : Holders(b)' = Holders(b) - Same(card_rx, b)
    BY <1>7, <2>1
  <2>3. Holders(card_rx) >= 1
    BY <1>2, <1>7
  <2> QED BY <1>2, <1>3, <1>9, <2>2, <2>3, HandLost
<1> QED BY <1>8, <1>9

\* init hands every buffer to the card, once.
LEMMA InitHandsOut ==
    ASSUME NetInv, net_init, nic' = "ok"
    PROVE  /\ \A b \in RxBufs : Holders(b)' = 1
           /\ bogus' = 0 /\ RxRoom' /\ RxFrames' /\ InOrder'
<1> DEFINE N == RX_BUF_COUNT
<1>1. /\ N \in Nat /\ N > 0 /\ queue_size \in Nat /\ N <= queue_size /\ 0 \in Idx /\ N \in Idx
      /\ queue_size > 0
  BY NetConstants DEF Idx
<1>2. /\ rx' = Handed(N) /\ op' = Idle /\ card_rx' = NoBuf
      /\ bogus' = 0 /\ RxRoom' /\ RxFrames' /\ InOrder'
  <2>1. HandsOut
    BY HandedOutIs DEF HandsOut
  <2> QED BY <2>1, InitFrames
<1>3. /\ rx'.taken = 0 /\ rx'.avail_idx = N /\ rx'.last_used_idx = 0 /\ rx'.used_idx = 0
      /\ \A s \in Slots : rx'.avail[s] = IF s < N THEN s ELSE 0
  BY Zenon, <1>2 DEF Handed
<1>4. Between(0, N) = N /\ Between(0, 0) = 0
  BY <1>1, Distance
<1>5. \A s \in Slots : Offset(0, s) = s
  <2>1. 0 % queue_size = 0
    BY <1>1, SmallRemainder
  <2> QED BY <1>1, <2>1, OffsetIs DEF Slots
<1>6. ASSUME NEW b \in RxBufs PROVE Holders(b)' = 1
  <2>1. Avail(b)' = 1
    <3> DEFINE here == {s \in Live(0, N) : rx'.avail[s] = b}
               one  == {b}
    <3>1. Live(0, N) = {s \in Slots : s < N}
      BY Zenon, <1>4, <1>5 DEF Live
    <3>2. b \in Slots /\ b < N
      BY <1>1 DEF RxBufs, Slots
    <3>3. here = one
      BY <1>3, <3>1, <3>2
    <3>4. Avail(b)' = Cardinality(here)
      BY Zenon, <1>3 DEF Avail, Entries
    <3>5. Cardinality({b}) = 1
      BY Zenon, FS_Singleton
    <3> HIDE DEF here
    <3> QED BY <3>3, <3>4, <3>5, Zenon
  <2>2. Used(b)' = 0
    <3> DEFINE here == {s \in Live(0, 0) : rx'.used[s] = b}
    <3>1. here = {}
      BY <1>1, LiveNone
    <3>2. Used(b)' = Cardinality(here)
      BY <1>3 DEF Used, Entries
    <3>3. Cardinality({}) = 0
      BY FS_EmptySet
    <3> HIDE DEF here
    <3> QED BY <3>1, <3>2, <3>3, Zenon
  <2>3. Same(card_rx', b) = 0 /\ Copied(b)' = 0
    BY Zenon, <1>2, ZeroIsBuf DEF Same, Copied, Idle
  <2> QED BY <2>1, <2>2, <2>3, HoldersAre
<1> QED BY <1>2, <1>6

\* Every step of the driver and of the card leaves a buffer in one pair of hands, or
\* in none when its id was lost, and the frames in order.
LEMMA RxNext ==
    ASSUME NetInv, NetNext
    PROVE  RxRoom' /\ RxFrames' /\ RxSound'
<1> DEFINE InHand == /\ \A b \in RxBufs : Holders(b)' <= 1
                     /\ Cardinality({b \in RxBufs : Holders(b)' = 0}) = bogus'
<1>1. ASSUME nic' = "ok" => InHand, InOrder' PROVE RxSound'
  BY Zenon, <1>1 DEF RxSound, InOrder
<1> HIDE DEF InHand
<1>2. ASSUME nic = "ok", bogus' = bogus, \A b \in RxBufs : Holders(b)' = Holders(b)
      PROVE  InHand
  BY <1>2, HandsKept DEF InHand
<1>3. CASE /\ UNCHANGED <<nic, rx, rx_bufs, card_rx, arrivals, got, bogus>>
           /\ (op.at # "recv" /\ op'.at # "recv") \/ UNCHANGED op
  BY <1>3, RxKept
<1>4. CASE SendCopy
  BY Zenon, <1>3, <1>4 DEF SendCopy, Idle
<1>5. CASE SendPost
  BY Zenon, <1>3, <1>5 DEF SendPost
<1>6. CASE SendSpin
  <2>1. op'.at # "recv" /\ op.at # "recv"
    BY Zenon, <1>6, OpIs DEF SendSpin, NetInv, NetTypes, Ops, Idle
  <2> QED BY <1>3, <1>6, <2>1 DEF SendSpin
<1>7. CASE SendTimeout
  BY Zenon, <1>3, <1>7 DEF SendTimeout, Idle
<1>8. CASE SendDone
  BY Zenon, <1>3, <1>8 DEF SendDone, Idle
<1>9. CASE CardTxRead \/ CardTxDone
  BY Zenon, <1>3, <1>9 DEF CardTxRead, CardTxDone
<1>10. CASE RecvTake
  <2>1. nic = "ok" /\ bogus' = bogus
    BY Zenon, <1>10 DEF RecvTake
  <2> QED BY <1>1, <1>2, <1>10, <2>1, RecvTakeFrames, RecvTakeMoves
<1>11. CASE RecvCopy
  <2>1. bogus' = bogus
    BY Zenon, <1>11 DEF RecvCopy
  <2> QED BY <1>1, <1>2, <1>11, <2>1, RecvCopyFrames, RecvCopyMoves
<1>12. CASE CardRxFill
  <2>1. nic = "ok" /\ bogus' = bogus
    BY <1>12 DEF CardRxFill
  <2> QED BY Zenon, <1>1, <1>2, <1>12, <2>1, CardRxFillFrames, CardRxFillMoves
<1>13. CASE CardRxDone
  <2>1. InHand
    BY <1>13, CardRxDoneMoves DEF InHand
  <2> QED BY <1>1, <1>13, <2>1, CardRxDoneFrames
<1>14. CASE net_init /\ nic' = "failed"
  <2>1. UNCHANGED <<rx, rx_bufs, op, card_rx, arrivals, got, bogus>>
    BY Zenon, <1>14 DEF net_init
  <2>2. RxRoom' /\ RxFrames' /\ InOrder'
    BY Zenon, <2>1, FramesKept
  <2> QED BY <1>1, <1>14, <2>2
<1>15. CASE net_init /\ nic' = "ok"
  <2>1. Cardinality({b \in RxBufs : Holders(b)' = 0}) = bogus'
    <3> DEFINE next == {b \in RxBufs : Holders(b)' = 0}
    <3>1. next = {} /\ bogus' = 0
      BY <1>15, InitHandsOut
    <3>2. Cardinality({}) = 0
      BY FS_EmptySet
    <3> HIDE DEF next
    <3>3. Cardinality(next) = bogus'
      BY <3>1, <3>2, Zenon
    <3> QED BY <3>3 DEF next
  <2>2. \A b \in RxBufs : Holders(b)' <= 1
    BY <1>15, InitHandsOut
  <2>3. InHand
    BY <2>1, <2>2 DEF InHand
  <2> QED BY <1>1, <1>15, <2>3, InitHandsOut
<1>16. net_init => nic' \in {"failed", "ok"}
  BY DEF net_init
<1> QED BY Zenon, <1>4, <1>5, <1>6, <1>7, <1>8, <1>9, <1>10, <1>11, <1>12, <1>13, <1>14, <1>15,
           <1>16 DEF NetNext, NetDriver

-----------------------------------------------------------------------------
(***************************************************************************)
(* The theorems.                                                              *)
(***************************************************************************)
LEMMA NetInvInit == NetInit => NetInv
<1> SUFFICES ASSUME NetInit PROVE NetInv
  OBVIOUS
<1>1. /\ nic \in {"absent", "off"} /\ rx = Virtq /\ tx = Virtq /\ rx_bufs = [b \in RxBufs |-> 0]
      /\ tx_buf = <<0, 0>> /\ op = Idle /\ card_tx = NoFrame /\ card_rx = NoBuf
      /\ sends = 0 /\ sent = {} /\ wire = <<>> /\ timeouts = 0
      /\ arrivals = 0 /\ got = <<>> /\ bogus = 0
  BY DEF NetInit
<1>2. 0 \in Idx /\ 0 \in RxBufs /\ Between(0, 0) = 0 /\ Live(0, 0) = {}
  <2>1. 0 \in Idx /\ 0 \in RxBufs
    BY NetConstants DEF Idx, RxBufs
  <2> QED BY <2>1, Advance, LiveNone
<1>3. /\ Virtq.avail_idx = 0 /\ Virtq.used_idx = 0 /\ Virtq.last_used_idx = 0 /\ Virtq.taken = 0
      /\ Virtq \in Virtqs
  BY Zenon, <1>2 DEF Virtq, Virtqs
<1>4. NetTypes
  BY SMTT(20), <1>1, <1>2, <1>3 DEF NetTypes, Frame, Ops
<1>5. Untouched
  BY <1>1 DEF Untouched
<1>6. TxDistances
  <2>1. Due = 0
    BY SMTT(20), <1>1 DEF Due, Posted, Idle
  <2> QED BY SMTT(20), <1>1, <1>2, <1>3, <2>1, NetConstants DEF TxDistances, Idle
<1>7. TxFrame /\ TxSound
  BY SMTT(20), <1>1 DEF TxFrame, TxSound, Idle
<1>8. Unread = 0 /\ Filled = 0 /\ Copying = 0
  BY Zenon, <1>1, <1>2, <1>3 DEF Unread, Filled, Copying, Idle
<1>9. RxRoom
  BY SMTT(20), <1>1, <1>2, <1>3, <1>8, NetConstants DEF RxRoom
<1>10. Before = 0
  BY <1>1, <1>8 DEF Before
<1>11. RxFrames
  BY SMTT(20), <1>1, <1>2, <1>3, <1>8, <1>10 
     DEF RxFrames, FilledFrame, UsedFrames, CopiedFrame, GotBefore, GotAll, Idle
<1>12. RxSound
  BY <1>1 DEF RxSound
<1> QED BY <1>4, <1>5, <1>6, <1>7, <1>9, <1>11, <1>12 DEF NetInv

\* Every step of the network driver and its card keeps the invariant.
LEMMA NetInvNext == NetInv /\ [NetNext]_netVars => NetInv'
<1>1. ASSUME NetInv, NetNext PROVE NetInv'
  <2>1. NetTypes' /\ Untouched'
    <3>1. HandsOut
      BY HandedOutIs DEF HandsOut
    <3> QED BY <1>1, <3>1, TypesNext DEF NetInv
  <2>2. TxDistances' /\ TxFrame' /\ TxSound'
    BY <1>1, TxNext
  <2>3. RxRoom' /\ RxFrames' /\ RxSound'
    BY <1>1, RxNext
  <2> QED BY <2>1, <2>2, <2>3 DEF NetInv
<1>2. ASSUME NetInv, UNCHANGED netVars PROVE NetInv'
  <2>1. /\ UNCHANGED <<nic, rx, tx, rx_bufs, tx_buf, op, card_tx, card_rx>>
        /\ UNCHANGED <<sends, sent, wire, timeouts, arrivals, got, bogus>>
    BY Zenon, <1>2 DEF netVars
  <2>2. NetTypes' /\ Untouched'
    BY Zenon, <1>2, <2>1 DEF NetInv, NetTypes, Untouched
  <2>3. TxDistances' /\ TxFrame' /\ TxSound'
    BY <1>2, <2>1, TxKept
  <2>4. RxRoom' /\ RxFrames' /\ RxSound'
    BY Zenon, <1>2, <2>1, RxKept
  <2> QED BY <2>2, <2>3, <2>4 DEF NetInv
<1> QED BY <1>1, <1>2

\* The two drivers share nothing, so each keeps its own invariant.
LEMMA VirtioInvariant == VirtioSpec => [](NetInv /\ BlkInv)
<1>1. VirtioInit => NetInv /\ BlkInv
  BY NetInvInit, BlkInvInit DEF VirtioInit
<1>2. NetInv /\ BlkInv /\ [VirtioNext]_virtioVars => (NetInv /\ BlkInv)'
  <2>1. [VirtioNext]_virtioVars => [NetNext]_netVars /\ [BlkNext]_blkVars
    BY DEF VirtioNext, virtioVars
  <2> QED BY <2>1, NetInvNext, BlkInvNext
<1> QED BY <1>1, <1>2, PTL DEF VirtioSpec

(***************************************************************************)
(* A send that returns true has put its frame on the wire, whole, however many   *)
(* sends were given up before it, for every size of ring and width of index.      *)
(***************************************************************************)
THEOREM SentIsOnTheWire == VirtioSpec => []TxSound
<1>1. NetInv => TxSound
  BY DEF NetInv
<1> QED BY <1>1, VirtioInvariant, PTL

(***************************************************************************)
(* A receive buffer is in one pair of hands, frames are received in the order     *)
(* they came, and only an id that is none loses one, with its buffer.             *)
(***************************************************************************)
THEOREM BuffersAreInOneHand == VirtioSpec => []RxSound
<1>1. NetInv => RxSound
  BY DEF NetInv
<1> QED BY <1>1, VirtioInvariant, PTL

(***************************************************************************)
(* Every value of the two drivers stays one the code can hold, and the index a    *)
(* send waits for is the one it made available last.                              *)
(***************************************************************************)
THEOREM VirtioTypesCorrect == VirtioSpec => []VirtioTypeOK
<1>1. ASSUME NetInv, BlkInv PROVE VirtioTypeOK
  <2>1. ASSUME NEW vq \in {rx, tx}
        PROVE  /\ {vq.avail_idx, vq.used_idx, vq.last_used_idx, vq.taken} \subseteq 0 .. MaxIdx
               /\ \A s \in Slots : vq.avail[s] \in RxBufs /\ vq.used[s] \in RxBufs \cup {NoBuf}
    <3>1. vq \in Virtqs
      BY Zenon, <1>1 DEF NetInv, NetTypes
    <3> QED BY Zenon, <3>1 DEF Virtqs, Idx
  <2>2. /\ nic \in {"absent", "off", "failed", "ok"} /\ card_rx \in RxBufs \cup {NoBuf}
        /\ op.at \in {"idle", "copy", "wait", "recv"}
        /\ op.at = "wait" => op.spins \in 0 .. MaxSpins
        /\ op.at = "recv" => op.id \in RxBufs
    BY Zenon, <1>1, OpIs DEF NetInv, NetTypes
  <2>3. op.at = "wait" => op.target = tx.avail_idx
    BY Zenon, <1>1 DEF NetInv, TxFrame
  <2>4. /\ blk \in {"absent", "off", "failed", "ok"} /\ page.status \in {NotWritten, Okay, IOERR}
        /\ {blkq.avail_idx, blkq.used_idx, blkq.last_used_idx, blkq.taken} \subseteq 0 .. MAX_IDX
    BY Zenon, <1>1 DEF BlkInv, BlkTypes, Indices
  <2>5. req.at \in {"idle", "setup", "run", "poll", "finish"}
    BY SMTT(20), <1>1 DEF BlkInv, BlkTypes, Active, NoReq
  <2>6. blkdev.at \in {"idle", "data", "status", "used"}
    BY SMTT(20), <1>1 DEF BlkInv, BlkTypes, Taken, NoReq
  <2> QED BY SMTT(20), <2>1, <2>2, <2>3, <2>4, <2>5, <2>6 DEF VirtioTypeOK
<1> QED BY <1>1, VirtioInvariant, PTL

(***************************************************************************)
(* Beside the network driver too, the disk driver implements Sectors.             *)
(***************************************************************************)
THEOREM VirtioImplementsSectors == VirtioSpec => ImplementsSectors
<1>1. VirtioInit => BlkInit
  BY DEF VirtioInit
<1>2. [VirtioNext]_virtioVars => [BlkNext]_blkVars
  BY DEF VirtioNext, virtioVars
<1>3. VirtioSpec => BlkSpec
  BY <1>1, <1>2, PTL DEF VirtioSpec, BlkSpec
<1> QED BY <1>3, BlkImplementsSectors, PTL
=============================================================================
