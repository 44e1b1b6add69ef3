----------------------------- MODULE VirtioNet -----------------------------
(***************************************************************************)
(* The network card driver (drivers/virtio_net.rs) and the card it shares two   *)
(* rings with.  Sending uses one buffer and one descriptor for every frame, and   *)
(* gives up after a bounded wait while the card may still own them; receiving      *)
(* gives each buffer back to the card once its frame is copied out.  The driver's   *)
(* lock admits one send or recv at a time; the card runs on its own.                *)
(*                                                                           *)
(* A frame is the number of the send that sends it, or the card's count of the     *)
(* frames that came in; the send buffer is kept in two halves, because the card    *)
(* may read it while it is being filled.                                          *)
(***************************************************************************)
EXTENDS Naturals, Sequences, FiniteSets

CONSTANTS
    RX_BUF_COUNT,  \* receive buffers (8 in the code)
    queue_size,    \* slots of a ring, as the card says
    MaxIdx,        \* the largest ring index (65535 in the code)
    MaxSpins,      \* polls before send gives up (100000000 in the code)
    MaxSends,      \* bound on the frames sent
    MaxArrivals,   \* bound on the frames that come in
    MaxTimeouts,   \* bound on the sends given up
    MaxBogus       \* bound on the used entries with an id that is none

\* init hands out all its buffers at once: a smaller ring would not hold them.
ASSUME NetAssumption ==
    /\ {RX_BUF_COUNT, queue_size, MaxIdx} \subseteq Nat \ {0}
    /\ {MaxSpins, MaxSends, MaxArrivals, MaxTimeouts, MaxBogus} \subseteq Nat
    /\ RX_BUF_COUNT <= queue_size /\ queue_size <= MaxIdx
    /\ (MaxIdx + 1) % queue_size = 0
    /\ MaxTimeouts <= MaxIdx

VARIABLES
    nic,       \* the driver's DEVICE and the card's status: "absent" (pci::find),
               \* "off", "failed" or "ok"
    rx, tx,    \* the two queues
    rx_bufs,   \* the receive buffers
    tx_buf,    \* the two halves of the send buffer
    op,        \* the send or recv in progress
    card_tx,   \* the frame the card has read and not yet sent
    card_rx,   \* the receive buffer the card has filled and not yet given back
    \* history
    sends,     \* frames given to send
    sent,      \* those whose send returned true
    wire,      \* the frames the card sent, as it read them
    timeouts,  \* sends given up
    arrivals,  \* frames that came in
    got,       \* frames recv returned
    bogus      \* used entries with an id that is none

netVars == <<nic, rx, tx, rx_bufs, tx_buf, op, card_tx, card_rx,
             sends, sent, wire, timeouts, arrivals, got, bogus>>

RxBufs == 0 .. RX_BUF_COUNT - 1
NoBuf  == RX_BUF_COUNT   \* any id from here on is none
Slots  == 0 .. queue_size - 1

(***************************************************************************)
(* A virtqueue: the two rings with their indices, the driver's last_used_idx,    *)
(* and how far the card has got in the available ring.                           *)
(***************************************************************************)
Virtq == [avail |-> [s \in Slots |-> 0], avail_idx |-> 0, used |-> [s \in Slots |-> 0],
          used_idx |-> 0, last_used_idx |-> 0, taken |-> 0]

Wrap(i) == (i + 1) % (MaxIdx + 1)

\* Entries from index i up to index j.
Between(i, j) == (j + MaxIdx + 1 - i) % (MaxIdx + 1)

push_avail(vq, head) ==
    [vq EXCEPT !.avail[vq.avail_idx % queue_size] = head, !.avail_idx = Wrap(@)]

HasUsed(vq)   == vq.used_idx # vq.last_used_idx
UsedId(vq)    == vq.used[vq.last_used_idx % queue_size]
take_used(vq) == [vq EXCEPT !.last_used_idx = Wrap(@)]

\* The card's side (external).  A ring with more entries than slots stops it.
HasAvail(vq)    == Between(vq.taken, vq.avail_idx) \in 1 .. queue_size
AvailHead(vq)   == vq.avail[vq.taken % queue_size]
TakeAvail(vq)   == [vq EXCEPT !.taken = Wrap(@)]
PushUsed(vq, id) == [vq EXCEPT !.used[vq.used_idx % queue_size] = id, !.used_idx = Wrap(@)]

Idle    == [at |-> "idle"]
NoFrame == <<>>

NetInit ==
    /\ nic \in {"absent", "off"}
    /\ rx = Virtq /\ tx = Virtq
    /\ rx_bufs = [b \in RxBufs |-> 0]
    /\ tx_buf = <<0, 0>>
    /\ op = Idle
    /\ card_tx = NoFrame /\ card_rx = NoBuf
    /\ sends = 0 /\ sent = {} /\ wire = <<>> /\ timeouts = 0
    /\ arrivals = 0 /\ got = <<>> /\ bogus = 0

(***************************************************************************)
(* init: STATUS_FAILED when the card has no MAC or no queues or there is no       *)
(* memory; otherwise every receive buffer is made available.                      *)
(***************************************************************************)
HandedOut ==
    LET after[n \in 0 .. RX_BUF_COUNT] == IF n = 0 THEN rx ELSE push_avail(after[n - 1], n - 1)
    IN after[RX_BUF_COUNT]

net_init ==
    /\ nic = "off"
    /\ \/ nic' = "failed" /\ UNCHANGED rx
       \/ nic' = "ok" /\ rx' = HandedOut
    /\ UNCHANGED <<tx, rx_bufs, tx_buf, op, card_tx, card_rx,
                   sends, sent, wire, timeouts, arrivals, got, bogus>>

(***************************************************************************)
(* send: the frame is copied and descriptor 0 made available; the index reached   *)
(* then is what used.idx has to come up to.                                       *)
(***************************************************************************)
SendCopy ==
    /\ nic = "ok" /\ op = Idle /\ sends < MaxSends /\ timeouts < MaxTimeouts
    /\ sends' = sends + 1
    /\ tx_buf' = <<sends', tx_buf[2]>>
    /\ op' = [at |-> "copy"]
    /\ UNCHANGED <<nic, rx, tx, rx_bufs, card_tx, card_rx,
                   sent, wire, timeouts, arrivals, got, bogus>>

SendPost ==
    /\ op.at = "copy"
    /\ tx_buf' = <<sends, sends>>
    /\ tx' = push_avail(tx, 0)
    /\ op' = [at |-> "wait", target |-> tx'.avail_idx, spins |-> 0]
    /\ UNCHANGED <<nic, rx, rx_bufs, card_tx, card_rx,
                   sends, sent, wire, timeouts, arrivals, got, bogus>>

\* Mutant: the spins are not counted.
SendSpinForever ==
    /\ op.at = "wait" /\ tx.last_used_idx # op.target
    /\ HasUsed(tx) /\ tx' = take_used(tx)
    /\ UNCHANGED <<nic, rx, rx_bufs, tx_buf, op, card_tx, card_rx,
                   sends, sent, wire, timeouts, arrivals, got, bogus>>

\* One turn of the loop: a completion is taken, or a spin is counted.
SendSpin ==
    /\ op.at = "wait" /\ tx.last_used_idx # op.target
    /\ IF HasUsed(tx)
       THEN tx' = take_used(tx) /\ UNCHANGED op
       ELSE op.spins < MaxSpins /\ op' = [op EXCEPT !.spins = @ + 1] /\ UNCHANGED tx
    /\ UNCHANGED <<nic, rx, rx_bufs, tx_buf, card_tx, card_rx,
                   sends, sent, wire, timeouts, arrivals, got, bogus>>

SendTimeout ==
    /\ op.at = "wait" /\ tx.last_used_idx # op.target /\ ~HasUsed(tx)
    /\ op.spins = MaxSpins
    /\ timeouts' = timeouts + 1
    /\ op' = Idle
    /\ UNCHANGED <<nic, rx, tx, rx_bufs, tx_buf, card_tx, card_rx,
                   sends, sent, wire, arrivals, got, bogus>>

\* Mutant: any completion is taken for one's own.
SendDoneAny ==
    /\ op.at = "wait" /\ HasUsed(tx)
    /\ tx' = take_used(tx)
    /\ sent' = sent \cup {sends}
    /\ op' = Idle
    /\ UNCHANGED <<nic, rx, rx_bufs, tx_buf, card_tx, card_rx,
                   sends, wire, timeouts, arrivals, got, bogus>>

SendDone ==
    /\ op.at = "wait" /\ tx.last_used_idx = op.target
    /\ sent' = sent \cup {sends}
    /\ op' = Idle
    /\ UNCHANGED <<nic, rx, tx, rx_bufs, tx_buf, card_tx, card_rx,
                   sends, wire, timeouts, arrivals, got, bogus>>

(***************************************************************************)
(* recv: a completion with an id that is none is dropped; otherwise the frame is   *)
(* copied out and its buffer made available again.                                 *)
(***************************************************************************)
\* Mutant: the id is trusted.
RecvTakeTrusting ==
    /\ nic = "ok" /\ op = Idle /\ HasUsed(rx)
    /\ rx' = take_used(rx)
    /\ op' = [at |-> "recv", id |-> UsedId(rx)]
    /\ UNCHANGED <<nic, tx, rx_bufs, tx_buf, card_tx, card_rx,
                   sends, sent, wire, timeouts, arrivals, got, bogus>>

RecvTake ==
    /\ nic = "ok" /\ op = Idle /\ HasUsed(rx)
    /\ rx' = take_used(rx)
    /\ op' = IF UsedId(rx) \in RxBufs THEN [at |-> "recv", id |-> UsedId(rx)] ELSE Idle
    /\ UNCHANGED <<nic, tx, rx_bufs, tx_buf, card_tx, card_rx,
                   sends, sent, wire, timeouts, arrivals, got, bogus>>

\* Mutant: the buffer is not given back.
RecvCopyKeeps ==
    /\ op.at = "recv"
    /\ got' = Append(got, rx_bufs[op.id])
    /\ op' = Idle
    /\ UNCHANGED <<nic, rx, tx, rx_bufs, tx_buf, card_tx, card_rx,
                   sends, sent, wire, timeouts, arrivals, bogus>>

RecvCopy ==
    /\ op.at = "recv"
    /\ got' = Append(got, rx_bufs[op.id])
    /\ rx' = push_avail(rx, op.id)
    /\ op' = Idle
    /\ UNCHANGED <<nic, tx, rx_bufs, tx_buf, card_tx, card_rx,
                   sends, sent, wire, timeouts, arrivals, bogus>>

(***************************************************************************)
(* The card (external): reads and sends the frames made available, in order, and   *)
(* fills receive buffers in the order they were handed out.                        *)
(***************************************************************************)
CardTxRead ==
    /\ nic = "ok" /\ card_tx = NoFrame /\ HasAvail(tx)
    /\ card_tx' = tx_buf
    /\ tx' = TakeAvail(tx)
    /\ UNCHANGED <<nic, rx, rx_bufs, tx_buf, op, card_rx,
                   sends, sent, wire, timeouts, arrivals, got, bogus>>

CardTxDone ==
    /\ card_tx # NoFrame
    /\ wire' = Append(wire, card_tx)
    /\ tx' = PushUsed(tx, 0)
    /\ card_tx' = NoFrame
    /\ UNCHANGED <<nic, rx, rx_bufs, tx_buf, op, card_rx,
                   sends, sent, timeouts, arrivals, got, bogus>>

CardRxFill ==
    /\ nic = "ok" /\ card_rx = NoBuf /\ HasAvail(rx) /\ arrivals < MaxArrivals
    /\ arrivals' = arrivals + 1
    /\ card_rx' = AvailHead(rx)
    /\ rx_bufs' = [rx_bufs EXCEPT ![AvailHead(rx)] = arrivals']
    /\ rx' = TakeAvail(rx)
    /\ UNCHANGED <<nic, tx, tx_buf, op, card_tx, sends, sent, wire, timeouts, got, bogus>>

CardRxDone ==
    /\ card_rx # NoBuf
    /\ \/ rx' = PushUsed(rx, card_rx) /\ UNCHANGED bogus
       \/ bogus < MaxBogus /\ bogus' = bogus + 1 /\ rx' = PushUsed(rx, NoBuf)
    /\ card_rx' = NoBuf
    /\ UNCHANGED <<nic, tx, rx_bufs, tx_buf, op, card_tx,
                   sends, sent, wire, timeouts, arrivals, got>>

NetDriver == SendPost \/ SendSpin \/ SendTimeout \/ SendDone \/ RecvCopy
NetNext   == \/ net_init \/ SendCopy \/ RecvTake \/ NetDriver
             \/ CardTxRead \/ CardTxDone \/ CardRxFill \/ CardRxDone

(***************************************************************************)
(* A send that returns true has put its frame on the wire, whole: completions of   *)
(* earlier sends that were given up do not count for it, also where the indices     *)
(* wrap.  As long as no send was given up, the frames on the wire are exactly those  *)
(* given to send, each once and in order.                                            *)
(***************************************************************************)
TxSound ==
    /\ \A f \in sent : \E i \in 1 .. Len(wire) : wire[i] = <<f, f>>
    /\ timeouts = 0 => wire = [i \in 1 .. Len(wire) |-> <<i, i>>]

\* How far slot s is from the slot of index i, and the slots of the entries from
\* index i up to index j.
Offset(i, s) == (s + queue_size - (i % queue_size)) % queue_size
Live(i, j)   == {s \in Slots : Offset(i, s) < Between(i, j)}

Holders(b) ==
    Cardinality({s \in Live(rx.taken, rx.avail_idx) : rx.avail[s] = b})
    + Cardinality({s \in Live(rx.last_used_idx, rx.used_idx) : rx.used[s] = b})
    + (IF card_rx = b THEN 1 ELSE 0)
    + (IF op.at = "recv" /\ op.id = b THEN 1 ELSE 0)

(***************************************************************************)
(* A receive buffer is never in two hands, so the card never overwrites a frame     *)
(* that is still to be copied, and recv returns the frames in the order they came,   *)
(* none twice and none lost.  A used entry with an id that is none costs its frame   *)
(* and, for good, one buffer.                                                        *)
(***************************************************************************)
RxSound ==
    /\ nic = "ok" => /\ \A b \in RxBufs : Holders(b) <= 1
                     /\ Cardinality({b \in RxBufs : Holders(b) = 0}) = bogus
    /\ \A i \in 1 .. Len(got) - 1 : got[i] < got[i + 1]
    /\ bogus = 0 => got = [i \in 1 .. Len(got) |-> i]
=============================================================================
