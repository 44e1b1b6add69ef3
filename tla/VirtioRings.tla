---------------------------- MODULE VirtioRings ----------------------------
(***************************************************************************)
(* The rings of the network card driver, for every size of ring, number of      *)
(* buffers and width of the indices: what a step does to the entries of a ring,   *)
(* to the frame being sent and to the frames that came in.  VirtioProofs counts    *)
(* the hands a receive buffer is in and states the theorems.                       *)
(***************************************************************************)
EXTENDS VirtioNet, Integers, TLAPS

Idx    == 0 .. MaxIdx
Frame  == Nat \X Nat
Virtqs == [avail : [Slots -> RxBufs], avail_idx : Idx,
           used : [Slots -> RxBufs \cup {NoBuf}], used_idx : Idx,
           last_used_idx : Idx, taken : Idx]
Ops    == {Idle, [at |-> "copy"]} \cup [at : {"wait"}, target : Idx, spins : 0 .. MaxSpins]
          \cup [at : {"recv"}, id : RxBufs]

NetTypes ==
    /\ nic \in {"absent", "off", "failed", "ok"}
    /\ rx \in Virtqs /\ tx \in Virtqs
    /\ rx_bufs \in [RxBufs -> Nat] /\ tx_buf \in Frame
    /\ op \in Ops /\ card_tx \in Frame \cup {NoFrame} /\ card_rx \in RxBufs \cup {NoBuf}
    /\ sends \in Nat /\ sent \subseteq Nat /\ wire \in Seq(Frame) /\ timeouts \in Nat
    /\ arrivals \in Nat /\ got \in Seq(Nat) /\ bogus \in Nat

\* Before init nothing has happened.
Untouched ==
    nic # "ok" => /\ op = Idle /\ card_tx = NoFrame /\ card_rx = NoBuf
                  /\ rx = Virtq /\ tx = Virtq
                  /\ arrivals = 0 /\ got = <<>> /\ bogus = 0

\* Frames made available, and those of them the card has not sent.
Posted == IF op.at = "copy" THEN sends - 1 ELSE sends
Due    == Posted - Len(wire)

\* The three indices that follow avail_idx: the card's two are behind by what it
\* has not read and has not sent; the driver's own by that and the completions it
\* has not looked at, no more than the sends it gave up and the one in progress.
TxDistances ==
    /\ Due >= 0 /\ (op.at = "copy" => sends >= 1)
    /\ Between(tx.used_idx, tx.avail_idx) = Due
    /\ Between(tx.taken, tx.avail_idx) = IF card_tx = NoFrame THEN Due ELSE Due - 1
    /\ Between(tx.last_used_idx, tx.avail_idx) >= Due
    /\ Between(tx.last_used_idx, tx.avail_idx) <= IF op.at = "wait" THEN timeouts + 1 ELSE timeouts
    /\ timeouts <= MaxTimeouts /\ (op.at \in {"copy", "wait"} => timeouts < MaxTimeouts)

\* The frame of the send in progress, where it is.
TxFrame ==
    op.at = "wait" => /\ tx_buf = <<sends, sends>> /\ op.target = tx.avail_idx
                      /\ Due = 1 /\ card_tx # NoFrame => card_tx = <<sends, sends>>
                      /\ Due = 0 => Len(wire) > 0 /\ wire[Len(wire)] = <<sends, sends>>

Unread  == Between(rx.last_used_idx, rx.used_idx)
Filled  == IF card_rx = NoBuf THEN 0 ELSE 1
Copying == IF op.at = "recv" THEN 1 ELSE 0

\* The number of the last frame to come in before those on the used ring.
Before == arrivals - Filled - Unread

\* Neither ring is ever asked to hold more than there are buffers.
RxRoom == Between(rx.taken, rx.avail_idx) + Unread + Filled + Copying <= RX_BUF_COUNT

\* Each buffer in use holds the frame its place in the line says: the one the card
\* has filled, those on the used ring, and the one recv is copying.
FilledFrame == card_rx # NoBuf => rx_bufs[card_rx] = arrivals
UsedFrames  == \A s \in Live(rx.last_used_idx, rx.used_idx) :
                  rx.used[s] # NoBuf => rx_bufs[rx.used[s]] = Before + Offset(rx.last_used_idx, s) + 1
CopiedFrame == op.at = "recv" => rx_bufs[op.id] = Before

\* What recv returned came in earlier, and unless an id was none, is all that did.
GotBefore == \A i \in 1 .. Len(got) : got[i] <= Before - Copying
GotAll    == bogus = 0 => /\ Len(got) = Before - Copying
                          /\ \A s \in Live(rx.last_used_idx, rx.used_idx) : rx.used[s] # NoBuf

RxFrames == FilledFrame /\ UsedFrames /\ CopiedFrame /\ GotBefore /\ GotAll

\* The inductive invariant.
NetInv == /\ NetTypes /\ Untouched
          /\ TxDistances /\ TxFrame /\ TxSound
          /\ RxRoom /\ RxFrames /\ RxSound

-----------------------------------------------------------------------------
(***************************************************************************)
(* Indices and slots.                                                         *)
(***************************************************************************)
LEMMA NetConstants ==
    /\ RX_BUF_COUNT \in Nat /\ queue_size \in Nat /\ MaxIdx \in Nat /\ RX_BUF_COUNT > 0
    /\ queue_size > 0 /\ RX_BUF_COUNT <= queue_size /\ queue_size <= MaxIdx
    /\ (MaxIdx + 1) % queue_size = 0 /\ MaxSpins \in Nat /\ MaxTimeouts \in Nat
    /\ MaxTimeouts <= MaxIdx
BY NetAssumption

\* A remainder, by its quotient.
LEMMA Remainder ==
    ASSUME NEW q \in Nat, q > 0, NEW x \in Int
    PROVE  x % q \in 0 .. q - 1 /\ x \div q \in Int /\ x = q * (x \div q) + (x % q)
OBVIOUS

\* The remainder is the r of x = q * a + r.
LEMMA RemainderIs ==
    ASSUME NEW q \in Nat, q > 0, NEW x \in Int, NEW a \in Int, NEW r \in 0 .. q - 1, x = q * a + r
    PROVE  x % q = r
<1>1. PICK d \in Int, m \in 0 .. q - 1 : x = q * d + m /\ m = x % q
  BY Remainder
<1>2. q * (d - a) = r - m
  BY <1>1
<1>3. d = a
  <2>1. CASE d > a
    <3>1. q * (d - a) >= q
      BY <2>1
    <3> QED BY <1>1, <1>2, <3>1
  <2>2. CASE d < a
    <3>1. q * (a - d) >= q
      BY <2>2
    <3>2. q * (a - d) = m - r
      BY <1>2
    <3> QED BY <1>1, <3>1, <3>2
  <2> QED BY <2>1, <2>2
<1>4. q * (d - a) = 0
  BY <1>1, <1>3
<1>5. r = m
  BY <1>1, <1>2, <1>4
<1> QED BY <1>1, <1>5, Zenon

\* Below twice the modulus the remainder is one subtraction.
LEMMA SmallRemainder ==
    ASSUME NEW q \in Nat, q > 0, NEW x \in Nat, x < 2 * q
    PROVE  x % q = IF x < q THEN x ELSE x - q
OBVIOUS

\* The remainder of a sum.
LEMMA RemainderPlus ==
    ASSUME NEW q \in Nat, q > 0, NEW x \in Nat, NEW m \in 0 .. q
    PROVE  (x + m) % q = IF (x % q) + m < q THEN (x % q) + m ELSE (x % q) + m - q
<1> DEFINE d == x \div q
           r == x % q
<1>1. r \in 0 .. q - 1 /\ d \in Int /\ x = q * d + r
  BY Remainder
<1> HIDE DEF d, r
<1>2. CASE r + m < q
  <2>1. x + m = q * d + (r + m) /\ r + m \in 0 .. q - 1
    <3> DEFINE p == q * d
    <3>1. p \in Int /\ x = p + r
      BY <1>1
    <3> HIDE DEF p
    <3>2. x + m = p + (r + m) /\ r + m \in 0 .. q - 1
      BY <1>1, <1>2, <3>1
    <3> QED BY <3>2 DEF p
  <2>2. (x + m) % q = r + m
    BY <1>1, <2>1, RemainderIs
  <2> QED BY <1>2, <2>2 DEF r
<1>3. CASE ~ (r + m < q)
  <2>1. x + m = q * (d + 1) + (r + m - q) /\ r + m - q \in 0 .. q - 1 /\ d + 1 \in Int
    BY <1>1, <1>3
  <2> DEFINE a == d + 1
             s == r + m - q
  <2>2. x + m = q * a + s /\ s \in 0 .. q - 1 /\ a \in Int
    BY <2>1
  <2> HIDE DEF a, s
  <2>3. (x + m) % q = s
    BY <2>2, RemainderIs
  <2> QED BY <1>3, <2>3 DEF r, s
<1> QED BY <1>2, <1>3

\* The ring divides the indices: a slot is the same either side of the wrap.
LEMMA RemainderWraps ==
    ASSUME NEW q \in Nat, q > 0, NEW w \in Nat, w % q = 0, NEW x \in Nat, x >= w
    PROVE  (x - w) % q = x % q
<1> DEFINE d == x \div q
           r == x % q
           e == w \div q
<1>1. r \in 0 .. q - 1 /\ d \in Int /\ x = q * d + r
  BY Remainder
<1>2. e \in Int /\ w = q * e
  BY Remainder
<1> HIDE DEF d, r, e
<1> DEFINE a == d - e
<1>3. x - w = q * a + r /\ a \in Int /\ x - w \in Int
  BY <1>1, <1>2
<1> HIDE DEF a
<1>4. (x - w) % q = r
  BY <1>1, <1>3, RemainderIs
<1> QED BY <1>4 DEF r

\* The distance of two indices and the next index, without the modulus.
LEMMA Distance ==
    ASSUME NEW i \in Idx, NEW j \in Idx
    PROVE  /\ Between(i, j) = IF i <= j THEN j - i ELSE j + MaxIdx + 1 - i
           /\ Between(i, j) \in Idx
           /\ Wrap(i) = IF i = MaxIdx THEN 0 ELSE i + 1
           /\ Wrap(i) \in Idx
<1> DEFINE w == MaxIdx + 1
<1>1. MaxIdx \in Nat /\ w \in Nat /\ w > 0
  BY NetConstants
<1>2. i \in Nat /\ j \in Nat /\ i < w /\ j < w /\ j + w - i \in Nat /\ i + 1 \in Nat
  BY <1>1 DEF Idx
<1> HIDE DEF w
<1>3. /\ (j + w - i) % w = IF i <= j THEN j - i ELSE j + w - i
      /\ (i + 1) % w = IF i + 1 = w THEN 0 ELSE i + 1
  BY <1>1, <1>2, SmallRemainder
<1>4. /\ Between(i, j) = IF i <= j THEN j - i ELSE j + w - i
      /\ Wrap(i) = IF i = MaxIdx THEN 0 ELSE i + 1
  <2>1. Between(i, j) = (j + w - i) % w /\ Wrap(i) = (i + 1) % w
    BY <1>1, <1>2 DEF w, Between, Wrap
  <2>2. i + 1 = w <=> i = MaxIdx
    BY <1>1, <1>2 DEF w
  <2> QED BY <1>3, <2>1, <2>2
<1> QED BY <1>1, <1>2, <1>4 DEF w, Idx

\* Distances are natural numbers.
LEMMA DistanceNat ==
    ASSUME NEW i \in Idx, NEW j \in Idx
    PROVE  Between(i, j) \in Nat
<1>1. Between(i, j) \in Idx
  BY Distance
<1> QED BY <1>1, NetConstants DEF Idx

\* What an index that advances does to its distance from another.
LEMMA Advance ==
    ASSUME NEW i \in Idx, NEW j \in Idx
    PROVE  /\ Between(i, j) = 0 <=> i = j
           /\ Between(i, j) < MaxIdx => Between(i, Wrap(j)) = Between(i, j) + 1
           /\ Between(i, j) > 0 => Between(Wrap(i), j) = Between(i, j) - 1
           /\ \A k \in Idx : Between(i, j) = Between(k, j) => i = k
<1>1. MaxIdx \in Nat /\ Wrap(i) \in Idx /\ Wrap(j) \in Idx
  BY NetConstants, Distance
<1>2. /\ Between(i, j) = IF i <= j THEN j - i ELSE j + MaxIdx + 1 - i
      /\ Wrap(i) = IF i = MaxIdx THEN 0 ELSE i + 1
      /\ Wrap(j) = IF j = MaxIdx THEN 0 ELSE j + 1
  BY Distance
<1>3. Between(i, Wrap(j)) = IF i <= Wrap(j) THEN Wrap(j) - i ELSE Wrap(j) + MaxIdx + 1 - i
  BY <1>1, Distance
<1>4. Between(Wrap(i), j) = IF Wrap(i) <= j THEN j - Wrap(i) ELSE j + MaxIdx + 1 - Wrap(i)
  BY <1>1, Distance
<1>5. ASSUME NEW k \in Idx, Between(i, j) = Between(k, j) PROVE i = k
  <2>1. Between(k, j) = IF k <= j THEN j - k ELSE j + MaxIdx + 1 - k
    BY Distance
  <2> QED BY <1>1, <1>2, <1>5, <2>1 DEF Idx
<1>6. Between(i, j) = 0 <=> i = j
  BY <1>1, <1>2 DEF Idx
<1>7. ASSUME Between(i, j) < MaxIdx PROVE Between(i, Wrap(j)) = Between(i, j) + 1
  BY <1>1, <1>2, <1>3, <1>7 DEF Idx
<1>8. ASSUME Between(i, j) > 0 PROVE Between(Wrap(i), j) = Between(i, j) - 1
  BY <1>1, <1>2, <1>4, <1>8 DEF Idx
<1> QED BY <1>5, <1>6, <1>7, <1>8

\* The slot of an index a ring or less ahead.
LEMMA SlotAhead ==
    ASSUME NEW i \in Idx, NEW j \in Idx, Between(i, j) <= queue_size
    PROVE  /\ i % queue_size \in Slots
           /\ j % queue_size = IF (i % queue_size) + Between(i, j) < queue_size
                               THEN (i % queue_size) + Between(i, j)
                               ELSE (i % queue_size) + Between(i, j) - queue_size
<1> DEFINE n == Between(i, j)
           w == MaxIdx + 1
<1>1. /\ queue_size \in Nat /\ queue_size > 0 /\ MaxIdx \in Nat /\ w \in Nat /\ w % queue_size = 0
      /\ i \in Nat /\ j \in Nat /\ n \in Nat /\ n \in 0 .. queue_size
  BY NetConstants, Distance DEF Idx
<1>2. n = IF i <= j THEN j - i ELSE j + w - i
  BY <1>1, Distance
<1> HIDE DEF n, w
<1>3. j % queue_size = (i + n) % queue_size
  <2>1. CASE i <= j
    BY <1>1, <1>2, <2>1
  <2>2. CASE ~ (i <= j)
    <3>1. i + n \in Nat /\ i + n >= w /\ j = (i + n) - w
      BY <1>1, <1>2, <2>2
    <3> QED BY Zenon, <1>1, <3>1, RemainderWraps
  <2> QED BY <2>1, <2>2
<1>4. i % queue_size \in Slots
  BY <1>1, Remainder DEF Slots
<1>5. (i + n) % queue_size = IF (i % queue_size) + n < queue_size
                             THEN (i % queue_size) + n ELSE (i % queue_size) + n - queue_size
  BY Zenon, <1>1, RemainderPlus
<1> QED BY <1>3, <1>4, <1>5 DEF n

\* The place of a slot after the one of index i, without the modulus.
LEMMA OffsetIs ==
    ASSUME NEW i \in Idx, NEW s \in Slots
    PROVE  /\ i % queue_size \in Slots
           /\ Offset(i, s) = IF s >= i % queue_size
                             THEN s - (i % queue_size) ELSE s + queue_size - (i % queue_size)
           /\ Offset(i, s) \in Slots
<1> DEFINE r == i % queue_size
<1>1. queue_size \in Nat /\ queue_size > 0 /\ i \in Nat /\ r \in 0 .. queue_size - 1
  BY NetConstants, Remainder DEF Idx
<1>2. Offset(i, s) = (s + queue_size - r) % queue_size
  BY DEF Offset
<1> HIDE DEF r
<1>3. s \in Nat /\ s < queue_size /\ s + queue_size - r \in Nat /\ s + queue_size - r < 2 * queue_size
  BY <1>1 DEF Slots
<1>4. Offset(i, s) = IF s >= r THEN s - r ELSE s + queue_size - r
  BY <1>1, <1>2, <1>3, SmallRemainder
<1>5. r \in Slots /\ Offset(i, s) \in Slots
  BY <1>1, <1>3, <1>4 DEF Slots
<1> QED BY <1>4, <1>5 DEF r

\* The first entry is taken.
LEMMA LivePop ==
    ASSUME NEW i \in Idx, NEW j \in Idx, Between(i, j) \in 1 .. queue_size,
           NEW f, f = i % queue_size
    PROVE  /\ f \in Live(i, j) /\ Offset(i, f) = 0
           /\ Live(Wrap(i), j) = Live(i, j) \ {f}
           /\ \A s \in Slots : s # f => Offset(Wrap(i), s) = Offset(i, s) - 1
<1>1. /\ queue_size \in Nat /\ queue_size > 0 /\ MaxIdx \in Nat /\ queue_size <= MaxIdx
      /\ Wrap(i) \in Idx /\ Between(i, i) = 0
  BY NetConstants, Distance, Advance
<1>2. Between(i, Wrap(i)) = 1 /\ Between(Wrap(i), j) = Between(i, j) - 1
  BY <1>1, Advance
<1> DEFINE g == Wrap(i) % queue_size
<1>3. f \in Slots /\ g = IF f + 1 < queue_size THEN f + 1 ELSE f + 1 - queue_size
  BY <1>1, <1>2, SlotAhead
<1>4. g \in Slots
  BY <1>1, <1>3 DEF Slots
<1>5. ASSUME NEW s \in Slots
      PROVE  /\ Offset(i, s) = IF s >= f THEN s - f ELSE s + queue_size - f
             /\ Offset(Wrap(i), s) = IF s >= g THEN s - g ELSE s + queue_size - g
  BY <1>1, OffsetIs
<1> HIDE DEF g
<1>6. ASSUME NEW s \in Slots
      PROVE  Offset(Wrap(i), s) = IF s = f THEN queue_size - 1 ELSE Offset(i, s) - 1
  <2>1. s \in 0 .. queue_size - 1 /\ f \in 0 .. queue_size - 1
    BY <1>3 DEF Slots
  <2>2. CASE f + 1 < queue_size
    BY <1>1, <1>3, <1>5, <2>1, <2>2
  <2>3. CASE ~ (f + 1 < queue_size)
    BY <1>1, <1>3, <1>5, <2>1, <2>3
  <2> QED BY <2>2, <2>3
<1>7. Offset(i, f) = 0
  BY <1>1, <1>3, <1>5 DEF Slots
<1>8. f \in Live(i, j)
  BY <1>3, <1>7 DEF Live
<1>9. ASSUME NEW s \in Slots
      PROVE  s \in Live(Wrap(i), j) <=> s \in Live(i, j) /\ s # f
  <2>1. Offset(i, s) \in Nat /\ Between(i, j) \in Nat
    BY <1>1, OffsetIs DEF Slots
  <2> QED BY <1>1, <1>2, <1>6, <2>1 DEF Live
<1>10. Live(Wrap(i), j) = Live(i, j) \ {f}
  BY <1>9 DEF Live
<1> QED BY <1>6, <1>7, <1>8, <1>10

\* An entry is added.
LEMMA LivePush ==
    ASSUME NEW i \in Idx, NEW j \in Idx, Between(i, j) < queue_size,
           NEW e, e = j % queue_size
    PROVE  /\ e \in Slots /\ e \notin Live(i, j) /\ Offset(i, e) = Between(i, j)
           /\ Live(i, Wrap(j)) = Live(i, j) \cup {e}
<1> DEFINE n == Between(i, j)
           f == i % queue_size
<1>1. /\ queue_size \in Nat /\ queue_size > 0 /\ MaxIdx \in Nat /\ queue_size <= MaxIdx
      /\ n \in Nat /\ n < MaxIdx
  BY NetConstants, Distance DEF Idx
<1>2. Between(i, Wrap(j)) = n + 1
  BY <1>1, Advance
<1>3. f \in Slots /\ e = IF f + n < queue_size THEN f + n ELSE f + n - queue_size
  BY <1>1, SlotAhead
<1>4. e \in Slots
  BY <1>1, <1>3 DEF Slots
<1>5. ASSUME NEW s \in Slots
      PROVE  Offset(i, s) = IF s >= f THEN s - f ELSE s + queue_size - f
  BY OffsetIs
<1>d. Live(i, j) = {s \in Slots : Offset(i, s) < n} /\ n < queue_size
  BY DEF Live
<1>l. Live(i, Wrap(j)) = {s \in Slots : Offset(i, s) < n + 1}
  BY <1>2 DEF Live
<1> HIDE DEF n, f
<1>6. ASSUME NEW s \in Slots
      PROVE  Offset(i, s) \in Nat /\ (Offset(i, s) = n <=> s = e)
  BY <1>1, <1>3, <1>4, <1>5, <1>d DEF Slots
<1>7. ASSUME NEW s \in Slots
      PROVE  Offset(i, s) < n + 1 <=> Offset(i, s) < n \/ s = e
  BY <1>1, <1>6
<1>8. Live(i, Wrap(j)) = Live(i, j) \cup {e}
  BY Zenon, <1>4, <1>7, <1>d, <1>l
<1>9. Offset(i, e) = n /\ e \notin Live(i, j)
  BY <1>1, <1>4, <1>6, <1>d
<1> QED BY <1>4, <1>8, <1>9 DEF n

\* Between an index and itself no slot is live.
LEMMA LiveNone ==
    ASSUME NEW i \in Idx
    PROVE  Live(i, i) = {}
<1>1. Between(i, i) = 0
  BY Advance
<1> QED BY <1>1, OffsetIs DEF Live, Slots

-----------------------------------------------------------------------------
(***************************************************************************)
(* The four ways a queue changes.                                             *)
(***************************************************************************)
LEMMA PushFields ==
    ASSUME NEW vq \in Virtqs, NEW head \in RxBufs, NEW new, new = push_avail(vq, head)
    PROVE  /\ new \in Virtqs
           /\ \A s \in Slots :
                 new.avail[s] = IF s = vq.avail_idx % queue_size THEN head ELSE vq.avail[s]
           /\ new.avail_idx = Wrap(vq.avail_idx) /\ new.used = vq.used
           /\ new.used_idx = vq.used_idx /\ new.last_used_idx = vq.last_used_idx
           /\ new.taken = vq.taken
<1>1. Wrap(vq.avail_idx) \in Idx
  BY Distance DEF Virtqs
<1>2. [vq.avail EXCEPT ![vq.avail_idx % queue_size] = head] \in [Slots -> RxBufs]
  BY Zenon DEF Virtqs
<1> QED BY Zenon, <1>1, <1>2 DEF push_avail, Virtqs

\* What take_used changes.
LEMMA TakeUsedFields ==
    ASSUME NEW vq \in Virtqs, NEW new, new = take_used(vq)
    PROVE  /\ new \in Virtqs
           /\ new.avail = vq.avail /\ new.avail_idx = vq.avail_idx /\ new.used = vq.used
           /\ new.used_idx = vq.used_idx /\ new.last_used_idx = Wrap(vq.last_used_idx)
           /\ new.taken = vq.taken
<1>1. Wrap(vq.last_used_idx) \in Idx
  BY Distance DEF Virtqs
<1> QED BY <1>1 DEF take_used, Virtqs

\* What the device changes when it takes an entry of the available ring.
LEMMA TakeAvailFields ==
    ASSUME NEW vq \in Virtqs, NEW new, new = TakeAvail(vq)
    PROVE  /\ new \in Virtqs
           /\ new.avail = vq.avail /\ new.avail_idx = vq.avail_idx /\ new.used = vq.used
           /\ new.used_idx = vq.used_idx /\ new.last_used_idx = vq.last_used_idx
           /\ new.taken = Wrap(vq.taken)
<1>1. Wrap(vq.taken) \in Idx
  BY Distance DEF Virtqs
<1> QED BY <1>1 DEF TakeAvail, Virtqs

\* What the device changes when it hands an entry back.
LEMMA PushUsedFields ==
    ASSUME NEW vq \in Virtqs, NEW id \in RxBufs \cup {NoBuf}, NEW new, new = PushUsed(vq, id)
    PROVE  /\ new \in Virtqs
           /\ new.avail = vq.avail /\ new.avail_idx = vq.avail_idx
           /\ \A s \in Slots :
                 new.used[s] = IF s = vq.used_idx % queue_size THEN id ELSE vq.used[s]
           /\ new.used_idx = Wrap(vq.used_idx) /\ new.last_used_idx = vq.last_used_idx
           /\ new.taken = vq.taken
<1>1. Wrap(vq.used_idx) \in Idx
  BY Distance DEF Virtqs
<1>2. [vq.used EXCEPT ![vq.used_idx % queue_size] = id] \in [Slots -> RxBufs \cup {NoBuf}]
  BY Zenon DEF Virtqs
<1> QED BY Zenon, <1>1, <1>2 DEF PushUsed, Virtqs

\* init: the queue with the first n buffers made available, one after another.
Handed(n) ==
    [avail |-> [s \in Slots |-> IF s < n THEN s ELSE 0], avail_idx |-> n,
     used |-> [s \in Slots |-> 0], used_idx |-> 0, last_used_idx |-> 0, taken |-> 0]

\* Queues with the same fields are the same.
LEMMA SameQueue ==
    ASSUME NEW a \in Virtqs, NEW b \in Virtqs,
           a.avail = b.avail, a.avail_idx = b.avail_idx, a.used = b.used,
           a.used_idx = b.used_idx, a.last_used_idx = b.last_used_idx, a.taken = b.taken
    PROVE  a = b
BY DEF Virtqs

\* The queue after n buffers were handed out is a queue.
LEMMA HandedTyped ==
    ASSUME NEW n \in 0 .. RX_BUF_COUNT
    PROVE  Handed(n) \in Virtqs
<1>1. n \in Nat /\ RX_BUF_COUNT \in Nat /\ RX_BUF_COUNT > 0 /\ 0 \in Idx /\ n \in Idx
  BY NetConstants DEF Idx
<1>2. [s \in Slots |-> IF s < n THEN s ELSE 0] \in [Slots -> RxBufs]
  BY <1>1 DEF Slots, RxBufs
<1>3. [s \in Slots |-> 0] \in [Slots -> RxBufs \cup {NoBuf}]
  BY <1>1 DEF RxBufs
<1> QED BY <1>1, <1>2, <1>3 DEF Handed, Virtqs

\* The next buffer handed out is buffer n, as in the loop of init.
LEMMA HandedNext ==
    ASSUME NEW n \in Nat, n < RX_BUF_COUNT
    PROVE  push_avail(Handed(n), n) = Handed(n + 1)
<1>1. /\ n \in Idx /\ n \in Slots /\ n # MaxIdx /\ queue_size \in Nat /\ queue_size > 0
      /\ n < queue_size
  BY NetConstants DEF Idx, Slots
<1>2. n % queue_size = n /\ Wrap(n) = n + 1
  BY <1>1, SmallRemainder, Distance
<1> DEFINE low == [s \in Slots |-> IF s < n THEN s ELSE 0]
           all == [s \in Slots |-> IF s < n + 1 THEN s ELSE 0]
<1>3. \A s \in Slots : all[s] = IF s = n THEN n ELSE low[s]
  BY <1>1 DEF Slots
<1>4. Handed(n) \in Virtqs /\ Handed(n + 1) \in Virtqs /\ n \in RxBufs
  <2>1. n \in 0 .. RX_BUF_COUNT /\ n + 1 \in 0 .. RX_BUF_COUNT /\ n \in RxBufs
    BY NetConstants DEF RxBufs
  <2> QED BY <2>1, HandedTyped
<1>5. Handed(n).avail = low /\ Handed(n).avail_idx = n /\ Handed(n + 1).avail = all
  BY DEF Handed
<1> HIDE DEF low, all
<1> DEFINE new == push_avail(Handed(n), n)
<1>6. /\ new \in Virtqs
      /\ \A s \in Slots : new.avail[s] = IF s = Handed(n).avail_idx % queue_size
                                          THEN n ELSE Handed(n).avail[s]
      /\ new.avail_idx = Wrap(Handed(n).avail_idx) /\ new.used = Handed(n).used
      /\ new.used_idx = Handed(n).used_idx /\ new.last_used_idx = Handed(n).last_used_idx
      /\ new.taken = Handed(n).taken
  BY <1>4, PushFields
<1> HIDE DEF new
<1>7. new.avail = all /\ new.avail_idx = n + 1
  <2>1. \A s \in Slots : new.avail[s] = all[s]
    BY <1>2, <1>3, <1>5, <1>6
  <2>2. new.avail \in [Slots -> RxBufs] /\ all \in [Slots -> RxBufs]
    BY <1>4, <1>5, <1>6 DEF Virtqs
  <2> QED BY <1>2, <1>5, <1>6, <2>1, <2>2
<1>8. /\ Handed(n + 1).avail_idx = n + 1 /\ Handed(n + 1).used = Handed(n).used
      /\ Handed(n + 1).used_idx = Handed(n).used_idx
      /\ Handed(n + 1).last_used_idx = Handed(n).last_used_idx
      /\ Handed(n + 1).taken = Handed(n).taken
  BY DEF Handed
<1>9. new = Handed(n + 1)
  BY <1>4, <1>5, <1>6, <1>7, <1>8, SameQueue
<1> QED BY <1>9 DEF new

\* What init's loop comes to; VirtioProofs derives it.
HandsOut == rx = Virtq => HandedOut = Handed(RX_BUF_COUNT)

-----------------------------------------------------------------------------
(***************************************************************************)
(* Types.                                                                     *)
(***************************************************************************)
LEMMA OpIs ==
    ASSUME NEW o \in Ops
    PROVE  /\ o.at \in {"idle", "copy", "wait", "recv"}
           /\ o.at = "idle" <=> o = Idle
           /\ o.at = "wait" => o.target \in Idx /\ o.spins \in 0 .. MaxSpins
           /\ o.at = "recv" => o.id \in RxBufs
BY DEF Ops, Idle

\* The first receive buffer is one, and NoBuf is none.
LEMMA ZeroIsBuf == 0 \in RxBufs /\ NoBuf \notin RxBufs
BY NetConstants DEF RxBufs, NoBuf

\* Every step keeps the types, and that nothing has happened before init.
LEMMA TypesNext ==
    ASSUME NetTypes, Untouched, NetNext, HandsOut
    PROVE  NetTypes' /\ Untouched'
<1>t. /\ rx \in Virtqs /\ tx \in Virtqs /\ rx_bufs \in [RxBufs -> Nat] /\ tx_buf \in Frame
      /\ op \in Ops /\ card_tx \in Frame \cup {NoFrame} /\ card_rx \in RxBufs \cup {NoBuf}
      /\ sends \in Nat /\ sent \subseteq Nat /\ wire \in Seq(Frame) /\ timeouts \in Nat
      /\ arrivals \in Nat /\ got \in Seq(Nat) /\ bogus \in Nat
  BY DEF NetTypes
<1>i. Idle \in Ops /\ [at |-> "copy"] \in Ops
  BY DEF Ops
<1>1. CASE net_init
  <2>1. nic = "off" /\ rx = Virtq
    BY <1>1 DEF net_init, Untouched
  <2>2. Handed(RX_BUF_COUNT) \in Virtqs
    BY NetConstants, HandedTyped
  <2>3. rx' \in Virtqs /\ nic' \in {"failed", "ok"} /\ (nic' = "failed" => UNCHANGED rx)
    BY <1>1, <1>t, <2>1, <2>2 DEF net_init, HandsOut
  <2> QED BY <1>1, <1>t, <2>1, <2>3 DEF net_init, NetTypes, Untouched
<1>2. CASE SendCopy
  <2>1. tx_buf' \in Frame
    BY <1>2, <1>t DEF SendCopy, Frame
  <2> QED BY <1>2, <1>t, <1>i, <2>1 DEF SendCopy, NetTypes, Untouched
<1>3. CASE SendPost
  <2>1. tx' \in Virtqs
    BY <1>3, <1>t, ZeroIsBuf, PushFields DEF SendPost
  <2>2. tx'.avail_idx \in Idx /\ 0 \in 0 .. MaxSpins
    BY <2>1, NetConstants DEF Virtqs
  <2>3. op' \in Ops /\ tx_buf' \in Frame
    BY <1>3, <1>t, <2>2 DEF SendPost, Ops, Frame
  <2>4. nic = "ok"
    BY <1>3 DEF SendPost, Untouched, Idle
  <2> QED BY <1>3, <1>t, <2>1, <2>3, <2>4 DEF SendPost, NetTypes, Untouched
<1>4. CASE SendSpin
  <2>1. tx' \in Virtqs
    BY <1>4, <1>t, TakeUsedFields DEF SendSpin
  <2>2. op' \in Ops
    <3>1. CASE UNCHANGED op
      BY <1>t, <3>1
    <3>2. CASE op.spins < MaxSpins /\ op' = [op EXCEPT !.spins = @ + 1]
      <4>1. op \in [at : {"wait"}, target : Idx, spins : 0 .. MaxSpins]
        BY <1>4, <1>t DEF SendSpin, Ops, Idle
      <4>2. op.spins + 1 \in 0 .. MaxSpins
        BY <3>2, <4>1, NetConstants
      <4>3. op' \in [at : {"wait"}, target : Idx, spins : 0 .. MaxSpins]
        BY <3>2, <4>1, <4>2
      <4> QED BY <4>3 DEF Ops
    <3> QED BY <1>4, <3>1, <3>2 DEF SendSpin
  <2>3. nic = "ok"
    BY <1>4 DEF SendSpin, Untouched, Idle
  <2> QED BY <1>4, <1>t, <2>1, <2>2, <2>3 DEF SendSpin, NetTypes, Untouched
<1>5. CASE SendTimeout \/ SendDone
  <2>1. nic = "ok"
    BY <1>5 DEF SendTimeout, SendDone, Untouched, Idle
  <2>2. CASE SendTimeout
    BY <2>1, <2>2, <1>t, <1>i DEF SendTimeout, NetTypes, Untouched
  <2>3. CASE SendDone
    BY <2>1, <2>3, <1>t, <1>i DEF SendDone, NetTypes, Untouched
  <2> QED BY <1>5, <2>2, <2>3
<1>6. CASE RecvTake
  <2>1. rx' \in Virtqs
    BY <1>6, <1>t, TakeUsedFields DEF RecvTake
  <2>2. op' \in Ops
    BY <1>6, <1>i DEF RecvTake, Ops
  <2> QED BY <1>6, <1>t, <2>1, <2>2 DEF RecvTake, NetTypes, Untouched
<1>7. CASE RecvCopy
  <2>1. op.id \in RxBufs
    BY <1>7, <1>t, OpIs DEF RecvCopy
  <2>2. rx' \in Virtqs
    BY <1>7, <1>t, <2>1, PushFields DEF RecvCopy
  <2>3. nic = "ok"
    BY <1>7 DEF RecvCopy, Untouched, Idle
  <2> QED BY <1>7, <1>t, <1>i, <2>1, <2>2, <2>3 DEF RecvCopy, NetTypes, Untouched
<1>8. CASE CardTxRead
  <2>1. tx' \in Virtqs
    BY <1>8, <1>t, TakeAvailFields DEF CardTxRead
  <2> QED BY <1>8, <1>t, <2>1 DEF CardTxRead, NetTypes, Untouched
<1>9. CASE CardTxDone
  <2>1. tx' \in Virtqs
    BY <1>9, <1>t, ZeroIsBuf, PushUsedFields DEF CardTxDone
  <2>2. nic = "ok" /\ card_tx \in Frame
    BY <1>9, <1>t DEF CardTxDone, Untouched
  <2> QED BY <1>9, <1>t, <2>1, <2>2 DEF CardTxDone, NetTypes, Untouched
<1>10. CASE CardRxFill
  <2>1. rx' \in Virtqs
    BY <1>10, <1>t, TakeAvailFields DEF CardRxFill
  <2>2. AvailHead(rx) \in RxBufs
    <3>1. rx.avail \in [Slots -> RxBufs] /\ rx.taken \in Idx
      BY <1>t DEF Virtqs
    <3>2. rx.taken % queue_size \in Slots
      BY <3>1, NetConstants, Remainder DEF Idx, Slots
    <3> QED BY <3>1, <3>2 DEF AvailHead
  <2> QED BY <1>10, <1>t, <2>1, <2>2 DEF CardRxFill, NetTypes, Untouched
<1>11. CASE CardRxDone
  <2>1. rx' \in Virtqs
    BY <1>11, <1>t, PushUsedFields DEF CardRxDone
  <2>2. nic = "ok"
    BY <1>11 DEF CardRxDone, Untouched
  <2> QED BY <1>11, <1>t, <2>1, <2>2 DEF CardRxDone, NetTypes, Untouched
<1> QED BY <1>1, <1>2, <1>3, <1>4, <1>5, <1>6, <1>7, <1>8, <1>9, <1>10, <1>11 DEF NetNext, NetDriver
-----------------------------------------------------------------------------
(***************************************************************************)
(* Sending.                                                                   *)
(***************************************************************************)
\* The distances of the send ring, as numbers.
LEMMA TxFacts ==
    ASSUME NetTypes, TxDistances
    PROVE  /\ Due \in Nat /\ Len(wire) \in Nat /\ timeouts \in Nat /\ sends \in Nat
           /\ tx.avail_idx \in Idx /\ tx.used_idx \in Idx /\ tx.taken \in Idx
           /\ tx.last_used_idx \in Idx
           /\ Between(tx.last_used_idx, tx.avail_idx) \in Nat
           /\ card_tx # NoFrame => Due >= 1
<1>1. /\ Len(wire) \in Nat /\ timeouts \in Nat /\ sends \in Nat
      /\ tx.avail_idx \in Idx /\ tx.used_idx \in Idx /\ tx.taken \in Idx
      /\ tx.last_used_idx \in Idx
  BY DEF NetTypes, Virtqs
<1>2. /\ Between(tx.last_used_idx, tx.avail_idx) \in Nat /\ Between(tx.taken, tx.avail_idx) \in Nat
      /\ Between(tx.used_idx, tx.avail_idx) \in Nat
  BY Zenon, <1>1, DistanceNat
<1>3. Due \in Nat
  BY <1>2 DEF TxDistances
<1>4. card_tx # NoFrame => Due >= 1
  BY <1>2, <1>3 DEF TxDistances
<1> QED BY <1>1, <1>2, <1>3, <1>4

\* NoFrame is no frame.
LEMMA FramesAreSome == NoFrame \notin Frame
BY DEF NoFrame, Frame

\* Steps that leave the send side alone.
LEMMA TxKept ==
    ASSUME NetInv, UNCHANGED <<tx, tx_buf, card_tx, sends, sent, wire, timeouts>>,
           \/ UNCHANGED op
           \/ op.at \in {"idle", "recv"} /\ op'.at \in {"idle", "recv"}
    PROVE  TxDistances' /\ TxFrame' /\ TxSound'
<1>1. TxSound'
  BY Zenon DEF NetInv, TxSound
<1>2. Posted' = Posted
  BY DEF Posted
<1>3. Due' = Due
  BY <1>2 DEF Due
<1>4. TxDistances'
  BY <1>3 DEF NetInv, TxDistances
<1>5. TxFrame'
  BY <1>3 DEF NetInv, TxFrame
<1> QED BY <1>1, <1>4, <1>5

\* Posting a frame keeps what is known of the transmit queue.
LEMMA SendPostKeeps ==
    ASSUME NetInv, SendPost
    PROVE  TxDistances' /\ TxFrame' /\ TxSound'
<1>t. /\ Due \in Nat /\ Len(wire) \in Nat /\ timeouts \in Nat /\ sends \in Nat
      /\ tx.avail_idx \in Idx /\ tx.used_idx \in Idx /\ tx.taken \in Idx
      /\ tx.last_used_idx \in Idx /\ tx \in Virtqs
      /\ Between(tx.last_used_idx, tx.avail_idx) \in Nat
      /\ card_tx # NoFrame => Due >= 1
  BY TxFacts DEF NetInv, NetTypes
<1>1. TxSound'
  BY Zenon DEF SendPost, NetInv, TxSound
<1>2. op.at = "copy" /\ op'.at = "wait" /\ sends >= 1 /\ op'.target = tx'.avail_idx
  BY DEF SendPost, NetInv, TxDistances
<1>3. Due' = Due + 1
  BY <1>t, <1>2 DEF SendPost, Due, Posted
<1>4. /\ tx'.avail_idx = Wrap(tx.avail_idx) /\ tx'.used_idx = tx.used_idx
      /\ tx'.taken = tx.taken /\ tx'.last_used_idx = tx.last_used_idx
  <2>1. tx' = push_avail(tx, 0)
    BY DEF SendPost
  <2> QED BY <1>t, <2>1, ZeroIsBuf, PushFields
<1>5. /\ timeouts < MaxTimeouts /\ timeouts < MaxIdx
      /\ Between(tx.last_used_idx, tx.avail_idx) <= timeouts
      /\ Between(tx.last_used_idx, tx.avail_idx) >= Due
      /\ Between(tx.used_idx, tx.avail_idx) = Due
      /\ Between(tx.taken, tx.avail_idx) = IF card_tx = NoFrame THEN Due ELSE Due - 1
  BY <1>t, <1>2, NetConstants DEF NetInv, TxDistances
<1>6. /\ Between(tx.last_used_idx, tx.avail_idx) < MaxIdx
      /\ Between(tx.used_idx, tx.avail_idx) < MaxIdx
      /\ Between(tx.taken, tx.avail_idx) < MaxIdx
  BY <1>t, <1>5, NetConstants
<1>7. /\ Between(tx.last_used_idx, tx'.avail_idx) = Between(tx.last_used_idx, tx.avail_idx) + 1
      /\ Between(tx.used_idx, tx'.avail_idx) = Between(tx.used_idx, tx.avail_idx) + 1
      /\ Between(tx.taken, tx'.avail_idx) = Between(tx.taken, tx.avail_idx) + 1
  BY <1>t, <1>4, <1>6, Advance
<1>8. TxDistances'
  <2>1. timeouts' = timeouts /\ card_tx' = card_tx /\ sends' = sends
    BY DEF SendPost
  <2> QED BY <1>t, <1>2, <1>3, <1>4, <1>5, <1>7, <2>1, NetConstants DEF TxDistances
<1>9. TxFrame'
  <2>1. tx_buf' = <<sends', sends'>> /\ card_tx' = card_tx
    BY DEF SendPost
  <2>2. Due' # 0 /\ (Due' = 1 => card_tx' = NoFrame)
    BY <1>t, <1>3, <2>1
  <2> QED BY <1>2, <2>1, <2>2 DEF TxFrame
<1> QED BY <1>1, <1>8, <1>9

\* So does every turn of the loop that waits for the card.
LEMMA SendSpinKeeps ==
    ASSUME NetInv, SendSpin
    PROVE  TxDistances' /\ TxFrame' /\ TxSound'
<1>t. /\ Due \in Nat /\ tx.avail_idx \in Idx /\ tx.used_idx \in Idx
      /\ tx.last_used_idx \in Idx /\ tx \in Virtqs
      /\ Between(tx.last_used_idx, tx.avail_idx) \in Nat
  BY TxFacts DEF NetInv, NetTypes
<1>o. op.at = "wait" /\ op'.at = "wait" /\ op'.target = op.target
  <2>1. op \in Ops /\ op.at = "wait"
    BY DEF SendSpin, NetInv, NetTypes
  <2>2. op \in [at : {"wait"}, target : Idx, spins : 0 .. MaxSpins]
    BY <2>1 DEF Ops, Idle
  <2> QED BY <2>1, <2>2 DEF SendSpin
<1>1. Due' = Due
  BY <1>o DEF SendSpin, Due, Posted
<1>2. /\ tx'.avail_idx = tx.avail_idx /\ tx'.used_idx = tx.used_idx /\ tx'.taken = tx.taken
      /\ \/ tx'.last_used_idx = tx.last_used_idx
         \/ tx.used_idx # tx.last_used_idx /\ tx'.last_used_idx = Wrap(tx.last_used_idx)
  <2>1. tx' = tx \/ (tx.used_idx # tx.last_used_idx /\ tx' = take_used(tx))
    BY DEF SendSpin, HasUsed
  <2> QED BY <1>t, <2>1, TakeUsedFields
<1>3. /\ Between(tx.last_used_idx, tx.avail_idx) <= timeouts + 1
      /\ Between(tx.last_used_idx, tx.avail_idx) >= Due
      /\ Between(tx.used_idx, tx.avail_idx) = Due
  BY <1>o DEF NetInv, TxDistances
<1>4. /\ Between(tx'.last_used_idx, tx.avail_idx) <= Between(tx.last_used_idx, tx.avail_idx)
      /\ Between(tx'.last_used_idx, tx.avail_idx) >= Due
  <2>1. CASE tx'.last_used_idx = tx.last_used_idx
    BY <1>t, <1>3, <2>1
  <2>2. CASE tx.used_idx # tx.last_used_idx /\ tx'.last_used_idx = Wrap(tx.last_used_idx)
    <3>1. Between(tx.last_used_idx, tx.avail_idx) # Due
      BY <1>t, <1>3, <2>2, Advance
    <3>2. Between(tx.last_used_idx, tx.avail_idx) > 0
      BY <1>t, <1>3, <3>1
    <3>3. Between(tx'.last_used_idx, tx.avail_idx) = Between(tx.last_used_idx, tx.avail_idx) - 1
      BY <1>t, <2>2, <3>2, Advance
    <3> QED BY <1>t, <1>3, <3>1, <3>3
  <2> QED BY <1>2, <2>1, <2>2
<1>5. UNCHANGED <<tx_buf, card_tx, sends, sent, wire, timeouts>>
  BY DEF SendSpin
<1>6. TxDistances'
  <2>1. Between(tx'.last_used_idx, tx.avail_idx) <= timeouts + 1
    <3>1. Between(tx'.last_used_idx, tx.avail_idx) \in Nat /\ timeouts \in Nat
      <4>1. tx'.last_used_idx \in Idx
        BY <1>t, <1>2, Distance
      <4>2. timeouts \in Nat
        BY DEF NetInv, NetTypes
      <4> QED BY <1>t, <4>1, <4>2, DistanceNat
    <3> QED BY <1>t, <1>3, <1>4, <3>1
  <2> QED BY SMTT(20), <1>o, <1>1, <1>2, <1>4, <1>5, <2>1 DEF NetInv, TxDistances
<1>7. TxFrame' /\ TxSound'
  BY Zenon, <1>o, <1>1, <1>2, <1>5 DEF NetInv, TxFrame, TxSound
<1> QED BY <1>6, <1>7

\* A send that returns true: every completion before its own is accounted for, so
\* the one it found is its own.
LEMMA SendDoneKeeps ==
    ASSUME NetInv, SendDone
    PROVE  TxDistances' /\ TxFrame' /\ TxSound'
<1>t. /\ Due \in Nat /\ Len(wire) \in Nat /\ timeouts \in Nat
      /\ tx.avail_idx \in Idx /\ tx.last_used_idx \in Idx
  BY TxFacts DEF NetInv
<1>1. op.at = "wait" /\ op'.at = "idle" /\ UNCHANGED <<tx, tx_buf, card_tx, sends, wire, timeouts>>
  BY DEF SendDone, Idle
<1>2. Due' = Due
  BY <1>1 DEF Due, Posted
<1>3. Between(tx.last_used_idx, tx.avail_idx) = 0
  <2>1. tx.last_used_idx = tx.avail_idx
    BY SMTT(20), <1>1 DEF SendDone, NetInv, TxFrame
  <2> QED BY <1>t, <2>1, Advance
<1>4. Due = 0
  BY <1>t, <1>3 DEF NetInv, TxDistances
<1>5. TxDistances'
  BY <1>t, <1>1, <1>2, <1>3 DEF NetInv, TxDistances
<1>6. TxFrame'
  BY <1>1 DEF TxFrame
<1>7. Len(wire) \in 1 .. Len(wire) /\ wire[Len(wire)] = <<sends, sends>>
  BY <1>t, <1>1, <1>4 DEF NetInv, TxFrame
<1>8. TxSound'
  <2>1. sent' = sent \cup {sends}
    BY DEF SendDone
  <2> QED BY Zenon, <1>1, <1>7, <2>1 DEF NetInv, TxSound
<1> QED BY <1>5, <1>6, <1>8

\* So does the card reading a posted frame.
LEMMA CardTxReadKeeps ==
    ASSUME NetInv, CardTxRead
    PROVE  TxDistances' /\ TxFrame' /\ TxSound'
<1>t. /\ Due \in Nat /\ tx.avail_idx \in Idx /\ tx.taken \in Idx /\ tx \in Virtqs
  BY TxFacts DEF NetInv, NetTypes
<1>1. /\ card_tx = NoFrame /\ card_tx' = tx_buf
      /\ UNCHANGED <<op, tx_buf, sends, sent, wire, timeouts>>
  BY DEF CardTxRead
<1>2. card_tx' # NoFrame
  BY <1>1, FramesAreSome DEF NetInv, NetTypes
<1>3. Due' = Due
  BY <1>1 DEF Due, Posted
<1>4. /\ tx'.avail_idx = tx.avail_idx /\ tx'.used_idx = tx.used_idx
      /\ tx'.taken = Wrap(tx.taken) /\ tx'.last_used_idx = tx.last_used_idx
  BY <1>t, TakeAvailFields DEF CardTxRead
<1>5. Between(tx'.taken, tx'.avail_idx) = Due - 1
  <2>1. Between(tx.taken, tx.avail_idx) = Due /\ Between(tx.taken, tx.avail_idx) > 0
    BY <1>1 DEF CardTxRead, HasAvail, NetInv, TxDistances
  <2> QED BY <1>t, <1>4, <2>1, Advance
<1>6. TxDistances'
  BY <1>1, <1>2, <1>3, <1>4, <1>5 DEF NetInv, TxDistances
<1>7. TxFrame' /\ TxSound'
  BY Zenon, <1>1, <1>3, <1>4 DEF NetInv, TxFrame, TxSound
<1> QED BY <1>6, <1>7

\* And the card handing it back.
LEMMA CardTxDoneKeeps ==
    ASSUME NetInv, CardTxDone
    PROVE  TxDistances' /\ TxFrame' /\ TxSound'
<1>t. /\ Due \in Nat /\ Due >= 1 /\ tx.avail_idx \in Idx /\ tx.used_idx \in Idx /\ tx \in Virtqs
      /\ Len(wire) \in Nat /\ sends \in Nat /\ timeouts \in Nat
      /\ Between(tx.last_used_idx, tx.avail_idx) \in Nat
      /\ wire \in Seq(Frame) /\ card_tx \in Frame
  BY TxFacts DEF CardTxDone, NetInv, NetTypes
<1>1. /\ card_tx # NoFrame /\ card_tx' = NoFrame
      /\ UNCHANGED <<op, tx_buf, sends, sent, timeouts>>
  BY DEF CardTxDone
<1>2. /\ Len(wire') = Len(wire) + 1 /\ wire'[Len(wire')] = card_tx
      /\ \A i \in 1 .. Len(wire) : wire'[i] = wire[i]
      /\ wire' = [i \in 1 .. Len(wire') |-> wire'[i]]
  <2>1. wire' = Append(wire, card_tx)
    BY DEF CardTxDone
  <2>2. /\ Len(wire') = Len(wire) + 1 /\ wire'[Len(wire')] = card_tx /\ wire' \in Seq(Frame)
        /\ \A i \in 1 .. Len(wire) : wire'[i] = wire[i]
    BY <1>t, <2>1
  <2> QED BY <2>2
<1>3. Posted' = Posted /\ Due' = Due - 1
  BY <1>t, <1>1, <1>2 DEF Due, Posted
<1>4. /\ tx'.avail_idx = tx.avail_idx /\ tx'.used_idx = Wrap(tx.used_idx)
      /\ tx'.taken = tx.taken /\ tx'.last_used_idx = tx.last_used_idx
  BY <1>t, ZeroIsBuf, PushUsedFields DEF CardTxDone
<1>5. Between(tx'.used_idx, tx'.avail_idx) = Due - 1
  <2>1. Between(tx.used_idx, tx.avail_idx) = Due
    BY DEF NetInv, TxDistances
  <2> QED BY <1>t, <1>4, <2>1, Advance
<1>6. TxDistances'
  BY <1>t, <1>1, <1>3, <1>4, <1>5 DEF NetInv, TxDistances
<1>7. TxFrame'
  BY <1>t, <1>1, <1>2, <1>3, <1>4 DEF NetInv, TxFrame
<1>8. ASSUME NEW f \in sent' PROVE \E i \in 1 .. Len(wire') : wire'[i] = <<f, f>>
  <2>1. PICK i \in 1 .. Len(wire) : wire[i] = <<f, f>>
    BY Zenon, <1>1 DEF NetInv, TxSound
  <2> QED BY SMTT(20), <1>t, <1>2, <2>1
<1>9. ASSUME timeouts' = 0 PROVE wire' = [i \in 1 .. Len(wire') |-> <<i, i>>]
  <2>1. op.at = "wait" /\ Due = 1
    BY <1>t, <1>1, <1>9 DEF NetInv, TxDistances
  <2>2. card_tx = <<sends, sends>> /\ sends = Len(wire) + 1
    BY <1>t, <1>1, <2>1 DEF NetInv, TxFrame, Due, Posted
  <2>3. wire = [i \in 1 .. Len(wire) |-> <<i, i>>]
    BY <1>1, <1>9 DEF NetInv, TxSound
  <2>4. ASSUME NEW i \in 1 .. Len(wire') PROVE wire'[i] = <<i, i>>
    <3>1. CASE i = Len(wire) + 1
      BY <1>2, <2>2, <3>1
    <3>2. CASE i # Len(wire) + 1
      <4>1. i \in 1 .. Len(wire)
        BY <1>t, <1>2, <3>2
      <4>2. wire[i] = <<i, i>>
        BY <2>3, <4>1
      <4> QED BY <1>2, <4>1, <4>2
    <3> QED BY <3>1, <3>2
  <2> QED BY Zenon, <1>2, <2>4
<1> QED BY Zenon, <1>6, <1>7, <1>8, <1>9 DEF TxSound

\* So every step keeps what is known of the transmit queue, TxSound included.
LEMMA TxNext ==
    ASSUME NetInv, NetNext
    PROVE  TxDistances' /\ TxFrame' /\ TxSound'
<1>1. CASE net_init \/ CardRxFill \/ CardRxDone
  BY <1>1, TxKept DEF net_init, CardRxFill, CardRxDone
<1>2. CASE RecvTake
  <2>1. op.at \in {"idle", "recv"} /\ op'.at \in {"idle", "recv"}
    BY <1>2 DEF RecvTake, Idle
  <2> QED BY <1>2, <2>1, TxKept DEF RecvTake
<1>3. CASE RecvCopy
  <2>1. op.at \in {"idle", "recv"} /\ op'.at \in {"idle", "recv"}
    BY <1>3 DEF RecvCopy, Idle
  <2> QED BY <1>3, <2>1, TxKept DEF RecvCopy
<1>4. CASE SendCopy
  <2>1. /\ op.at = "idle" /\ op'.at = "copy" /\ sends' = sends + 1 /\ sends \in Nat
        /\ timeouts < MaxTimeouts /\ UNCHANGED <<tx, card_tx, sent, wire, timeouts>>
    BY <1>4 DEF SendCopy, Idle, NetInv, NetTypes
  <2>2. Due' = Due
    BY <2>1 DEF Due, Posted
  <2>3. TxDistances'
    BY <2>1, <2>2 DEF NetInv, TxDistances
  <2> QED BY Zenon, <2>1, <2>3 DEF NetInv, TxFrame, TxSound
<1>5. CASE SendTimeout
  <2>1. /\ op.at = "wait" /\ op'.at = "idle" /\ timeouts' = timeouts + 1 /\ timeouts \in Nat
        /\ UNCHANGED <<tx, card_tx, sends, sent, wire>>
    BY <1>5 DEF SendTimeout, Idle, NetInv, NetTypes
  <2>2. Due' = Due
    BY <2>1 DEF Due, Posted
  <2>3. TxDistances'
    BY <2>1, <2>2, NetConstants DEF NetInv, TxDistances
  <2>4. TxFrame'
    BY <2>1 DEF TxFrame
  <2>5. timeouts' # 0
    BY <2>1
  <2>6. TxSound'
    BY Zenon, <2>1, <2>5 DEF NetInv, TxSound
  <2> QED BY <2>3, <2>4, <2>6
<1> QED BY <1>1, <1>2, <1>3, <1>4, <1>5, SendPostKeeps, SendSpinKeeps, SendDoneKeeps,
           CardTxReadKeeps, CardTxDoneKeeps DEF NetNext, NetDriver

-----------------------------------------------------------------------------
(***************************************************************************)
(* Receiving: room on the rings, and the frame each buffer holds.             *)
(***************************************************************************)
LEMMA RxIndices ==
    ASSUME NetInv
    PROVE  /\ rx \in Virtqs /\ rx.avail_idx \in Idx /\ rx.used_idx \in Idx
           /\ rx.last_used_idx \in Idx /\ rx.taken \in Idx
BY DEF NetInv, NetTypes, Virtqs

\* The numbers of buffers in each hand are natural, and not more than there are buffers.
LEMMA RxNumbers ==
    ASSUME NetInv
    PROVE  /\ Unread \in Nat /\ Between(rx.taken, rx.avail_idx) \in Nat
           /\ Filled \in {0, 1} /\ Copying \in {0, 1} /\ arrivals \in Nat /\ Before \in Int
           /\ Between(rx.taken, rx.avail_idx) + Unread + Filled + Copying <= RX_BUF_COUNT
<1>1. Unread \in Nat /\ Between(rx.taken, rx.avail_idx) \in Nat
  BY RxIndices, DistanceNat DEF Unread
<1>2. Filled \in {0, 1} /\ Copying \in {0, 1}
  BY DEF Filled, Copying
<1>3. arrivals \in Nat
  BY DEF NetInv, NetTypes
<1>4. Before \in Int
  BY <1>1, <1>2, <1>3 DEF Before
<1>5. Between(rx.taken, rx.avail_idx) + Unread + Filled + Copying <= RX_BUF_COUNT
  BY DEF NetInv, RxRoom
<1> QED BY <1>1, <1>2, <1>3, <1>4, <1>5

\* The order of the frames recv returned.
InOrder ==
    /\ \A i \in 1 .. Len(got) - 1 : got[i] < got[i + 1]
    /\ bogus = 0 => got = [i \in 1 .. Len(got) |-> i]

\* Steps that leave the receive side alone.
LEMMA FramesKept ==
    ASSUME NetInv, UNCHANGED <<rx, rx_bufs, card_rx, arrivals, got, bogus>>,
           (op.at # "recv" /\ op'.at # "recv") \/ UNCHANGED op
    PROVE  RxRoom' /\ RxFrames' /\ InOrder'
<1>1. Unread' = Unread /\ Filled' = Filled /\ Copying' = Copying
  BY DEF Unread, Filled, Copying
<1>2. Before' = Before
  BY <1>1 DEF Before
<1>3. RxRoom'
  BY <1>1 DEF NetInv, RxRoom
<1>4. RxFrames'
  BY SMTT(20), <1>1, <1>2 DEF NetInv, RxFrames, FilledFrame, UsedFrames, CopiedFrame, GotBefore, GotAll
<1>5. InOrder'
  BY DEF NetInv, RxSound, InOrder
<1> QED BY <1>3, <1>4, <1>5

\* init: there are no frames yet.
LEMMA InitFrames ==
    ASSUME NetInv, net_init, nic' = "ok", HandsOut
    PROVE  /\ rx' = Handed(RX_BUF_COUNT) /\ op' = Idle /\ card_rx' = NoBuf /\ bogus' = 0
           /\ RxRoom' /\ RxFrames' /\ InOrder'
<1> DEFINE N == RX_BUF_COUNT
<1>1. /\ rx' = Handed(N) /\ op' = Idle /\ card_rx' = NoBuf
      /\ arrivals' = 0 /\ got' = <<>> /\ bogus' = 0
  <2>1. /\ nic = "off" /\ rx = Virtq /\ op = Idle /\ card_rx = NoBuf
        /\ arrivals = 0 /\ got = <<>> /\ bogus = 0
    BY DEF net_init, NetInv, Untouched
  <2> QED BY <2>1 DEF net_init, HandsOut
<1>2. /\ rx'.last_used_idx = 0 /\ rx'.used_idx = 0 /\ rx'.taken = 0 /\ rx'.avail_idx = N
      /\ 0 \in Idx /\ N \in Idx /\ N \in Nat
  BY <1>1, NetConstants DEF Handed, Idx
<1>3. Between(0, N) = N /\ Between(0, 0) = 0 /\ Live(0, 0) = {}
  BY <1>2, Distance, LiveNone
<1>4. Unread' = 0 /\ Filled' = 0 /\ Copying' = 0
  BY <1>1, <1>2, <1>3 DEF Unread, Filled, Copying, Idle
<1>5. RxRoom'
  BY <1>2, <1>3, <1>4 DEF RxRoom
<1>6. Before' = 0
  BY <1>1, <1>4 DEF Before
<1>7. RxFrames'
  BY <1>1, <1>2, <1>3, <1>4, <1>6
     DEF RxFrames, FilledFrame, UsedFrames, CopiedFrame, GotBefore, GotAll, Idle
<1>8. InOrder'
  BY <1>1 DEF InOrder
<1> QED BY <1>1, <1>5, <1>7, <1>8

\* recv takes a used entry: its frame is the next in line.
LEMMA RecvTakeFrames ==
    ASSUME NetInv, RecvTake
    PROVE  /\ Unread \in 1 .. queue_size /\ UsedId(rx) \in RxBufs \cup {NoBuf}
           /\ RxRoom' /\ RxFrames' /\ InOrder'
<1> DEFINE f == rx.last_used_idx % queue_size
           u == rx.used[f]
<1>i. /\ rx \in Virtqs /\ rx.avail_idx \in Idx /\ rx.used_idx \in Idx
      /\ rx.last_used_idx \in Idx /\ rx.taken \in Idx
  BY RxIndices
<1>n. /\ Unread \in Nat /\ Between(rx.taken, rx.avail_idx) \in Nat
      /\ Filled \in {0, 1} /\ Copying \in {0, 1} /\ arrivals \in Nat /\ Before \in Int
      /\ Between(rx.taken, rx.avail_idx) + Unread + Filled + Copying <= RX_BUF_COUNT
      /\ {RX_BUF_COUNT, queue_size, MaxIdx} \subseteq Nat
      /\ RX_BUF_COUNT <= queue_size /\ queue_size <= MaxIdx
  BY RxNumbers, NetConstants
<1>1. /\ op = Idle /\ HasUsed(rx) /\ rx' = take_used(rx)
      /\ UNCHANGED <<nic, rx_bufs, card_rx, arrivals, got, bogus>> /\ nic = "ok"
      /\ op' = IF u \in RxBufs THEN [at |-> "recv", id |-> u] ELSE Idle
  BY DEF RecvTake, UsedId
<1>2. /\ rx'.avail_idx = rx.avail_idx /\ rx'.used = rx.used /\ rx'.used_idx = rx.used_idx
      /\ rx'.last_used_idx = Wrap(rx.last_used_idx) /\ rx'.taken = rx.taken
  BY <1>1, <1>i, TakeUsedFields
<1>3. Unread \in 1 .. queue_size /\ Unread' = Unread - 1
  <2>1. Unread # 0
    BY SMTT(20), <1>1, <1>i, Advance DEF HasUsed, Unread
  <2>2. Unread' = Unread - 1
    BY <1>2, <2>1, <1>i, <1>n, Advance DEF Unread
  <2> QED BY <2>1, <2>2, <1>n
<1>4. /\ f \in Live(rx.last_used_idx, rx.used_idx) /\ Offset(rx.last_used_idx, f) = 0
      /\ Live(Wrap(rx.last_used_idx), rx.used_idx) = Live(rx.last_used_idx, rx.used_idx) \ {f}
      /\ \A s \in Slots : s # f => Offset(Wrap(rx.last_used_idx), s) = Offset(rx.last_used_idx, s) - 1
  BY <1>3, <1>i, LivePop DEF Unread
<1>5. f \in Slots /\ u \in RxBufs \cup {NoBuf}
  BY <1>4, <1>i DEF Live, Virtqs
<1>6. Copying = 0 /\ Copying' = (IF u \in RxBufs THEN 1 ELSE 0) /\ Filled' = Filled
  BY <1>1 DEF Copying, Filled, Idle
<1>7. Before' = Before + 1 /\ Before \in Int
  BY <1>1, <1>3, <1>6, <1>n DEF Before
<1>8. UsedId(rx) = u
  BY DEF UsedId
<1> HIDE DEF f
<1>9. RxRoom'
  <2>1. Between(rx.taken, rx.avail_idx)' = Between(rx.taken, rx.avail_idx)
    BY <1>2
  <2> QED BY <1>3, <1>6, <2>1, <1>n DEF RxRoom
<1>10. RxFrames'
  <2>0. FilledFrame /\ UsedFrames /\ GotBefore /\ GotAll
    BY DEF NetInv, RxFrames
  <2>1. FilledFrame'
    BY <1>1, <2>0 DEF FilledFrame
  <2>2. UsedFrames'
    <3>1. ASSUME NEW s \in Live(rx'.last_used_idx, rx'.used_idx), rx.used[s] # NoBuf
          PROVE  rx_bufs[rx.used[s]] = Before' + Offset(rx'.last_used_idx, s) + 1
      <4>1. s \in Live(rx.last_used_idx, rx.used_idx) /\ s # f /\ s \in Slots
        BY <1>2, <1>4, <3>1 DEF Live
      <4>2. Offset(rx.last_used_idx, s) \in Int
        BY <4>1, <1>i, OffsetIs DEF Slots
      <4>3. rx_bufs[rx.used[s]] = Before + Offset(rx.last_used_idx, s) + 1
        BY <2>0, <3>1, <4>1 DEF UsedFrames
      <4> QED BY <1>2, <1>4, <1>7, <4>1, <4>2, <4>3
    <3> QED BY <1>1, <1>2, <3>1 DEF UsedFrames
  <2>3. CopiedFrame'
    <3>1. u # NoBuf => rx_bufs[u] = Before + 1
      BY <1>4, <1>7, <2>0 DEF UsedFrames
    <3> QED BY <1>1, <1>7, <3>1, ZeroIsBuf DEF CopiedFrame, Idle
  <2>4. GotBefore'
    <3>1. got \in Seq(Nat) /\ \A k \in 1 .. Len(got) : got[k] <= Before
      BY <1>6, <1>7, <2>0 DEF NetInv, NetTypes, GotBefore
    <3> QED BY <1>1, <1>6, <1>7, <3>1 DEF GotBefore
  <2>5. GotAll'
    <3>1. ASSUME bogus = 0
          PROVE  /\ Len(got) = Before' - Copying'
                 /\ \A s \in Live(rx'.last_used_idx, rx'.used_idx) : rx.used[s] # NoBuf
      <4>1. /\ Len(got) = Before /\ u # NoBuf
            /\ \A s \in Live(rx.last_used_idx, rx.used_idx) : rx.used[s] # NoBuf
        BY <1>4, <1>6, <1>7, <2>0, <3>1 DEF GotAll
      <4> QED BY SMTT(20), <1>2, <1>4, <1>5, <1>6, <1>7, <4>1
    <3> QED BY SMTT(20), <1>1, <1>2, <3>1 DEF GotAll
  <2> QED BY <2>1, <2>2, <2>3, <2>4, <2>5 DEF RxFrames
<1>11. InOrder'
  BY <1>1 DEF NetInv, RxSound, InOrder
<1> QED BY <1>3, <1>5, <1>8, <1>9, <1>10, <1>11

\* recv copies the frame out and makes its buffer available again: there is room.
LEMMA RecvCopyFrames ==
    ASSUME NetInv, RecvCopy
    PROVE  /\ op.id \in RxBufs /\ nic = "ok" /\ Between(rx.taken, rx.avail_idx) < queue_size
           /\ RxRoom' /\ RxFrames' /\ InOrder'
<1>i. /\ rx \in Virtqs /\ rx.avail_idx \in Idx /\ rx.used_idx \in Idx
      /\ rx.last_used_idx \in Idx /\ rx.taken \in Idx
  BY RxIndices
<1>n. /\ Unread \in Nat /\ Between(rx.taken, rx.avail_idx) \in Nat
      /\ Filled \in {0, 1} /\ Copying \in {0, 1} /\ arrivals \in Nat /\ Before \in Int
      /\ Between(rx.taken, rx.avail_idx) + Unread + Filled + Copying <= RX_BUF_COUNT
      /\ {RX_BUF_COUNT, queue_size, MaxIdx} \subseteq Nat
      /\ RX_BUF_COUNT <= queue_size /\ queue_size <= MaxIdx
  BY RxNumbers, NetConstants
<1>1. /\ op.at = "recv" /\ op' = Idle /\ got' = Append(got, rx_bufs[op.id])
      /\ rx' = push_avail(rx, op.id) /\ UNCHANGED <<nic, rx_bufs, card_rx, arrivals, bogus>>
  BY DEF RecvCopy
<1>2. op.id \in RxBufs /\ nic = "ok"
  BY <1>1, OpIs DEF NetInv, NetTypes, Untouched, Idle
<1>3. /\ \A s \in Slots :
            rx'.avail[s] = IF s = rx.avail_idx % queue_size THEN op.id ELSE rx.avail[s]
      /\ rx'.avail_idx = Wrap(rx.avail_idx) /\ rx'.used = rx.used
      /\ rx'.used_idx = rx.used_idx /\ rx'.last_used_idx = rx.last_used_idx
      /\ rx'.taken = rx.taken
  BY SMTT(20), <1>1, <1>2, <1>i, PushFields
<1>4. Copying = 1 /\ Copying' = 0 /\ Filled' = Filled /\ Unread' = Unread
  BY SMTT(20), <1>1, <1>3 DEF Copying, Filled, Unread, Idle
<1>5. Before' = Before /\ Before \in Int
  BY <1>1, <1>4, <1>n DEF Before
<1>6. /\ Between(rx.taken, rx.avail_idx) < queue_size
      /\ Between(rx.taken, rx.avail_idx)' = Between(rx.taken, rx.avail_idx) + 1
  <2>1. Between(rx.taken, rx.avail_idx) < queue_size /\ Between(rx.taken, rx.avail_idx) < MaxIdx
    BY <1>4, <1>n
  <2> QED BY SMTT(20), <1>3, <2>1, <1>i, Advance
<1>7. RxRoom'
  BY <1>4, <1>6, <1>n DEF RxRoom
<1>8. /\ rx_bufs[op.id] = Before /\ Before \in Nat /\ got \in Seq(Nat) /\ Len(got) \in Nat
      /\ \A k \in 1 .. Len(got) : got[k] \in Nat /\ got[k] <= Before - 1
      /\ bogus = 0 => Len(got) = Before - 1
  <2>1. /\ rx_bufs[op.id] = Before /\ \A k \in 1 .. Len(got) : got[k] <= Before - 1
        /\ bogus = 0 => Len(got) = Before - 1
    BY <1>1, <1>4 DEF NetInv, RxFrames, CopiedFrame, GotBefore, GotAll
  <2>2. rx_bufs[op.id] \in Nat /\ got \in Seq(Nat)
    BY <1>2 DEF NetInv, NetTypes
  <2> QED BY <2>1, <2>2
<1>9. /\ Len(got') = Len(got) + 1 /\ got'[Len(got) + 1] = Before
      /\ \A k \in 1 .. Len(got) : got'[k] = got[k]
      /\ DOMAIN got' = 1 .. Len(got) + 1 /\ got' \in Seq(Nat)
  BY <1>1, <1>8
<1>10. RxFrames'
  <2>0. FilledFrame /\ UsedFrames /\ GotAll
    BY DEF NetInv, RxFrames
  <2>1. FilledFrame'
    BY <1>1, <2>0 DEF FilledFrame
  <2>2. UsedFrames'
    BY SMTT(20), <1>1, <1>3, <1>5, <2>0 DEF UsedFrames
  <2>3. CopiedFrame'
    BY <1>1 DEF CopiedFrame, Idle
  <2>4. GotBefore'
    <3>1. ASSUME NEW k \in 1 .. Len(got') PROVE got'[k] <= Before' - Copying'
      <4>1. k \in 1 .. Len(got) \/ k = Len(got) + 1
        BY <1>8, <1>9
      <4>2. got'[k] = Before \/ (got'[k] <= Before - 1 /\ got'[k] \in Nat)
        BY <1>8, <1>9, <4>1
      <4> QED BY <1>4, <1>5, <4>2
    <3> QED BY <3>1 DEF GotBefore
  <2>5. GotAll'
    <3>1. bogus' = 0 => Len(got') = Before' - Copying'
      BY <1>1, <1>4, <1>5, <1>8, <1>9
    <3> QED BY <1>1, <1>3, <2>0, <3>1 DEF GotAll
  <2> QED BY <2>1, <2>2, <2>3, <2>4, <2>5 DEF RxFrames
<1>11. InOrder'
  <2>1. \A k \in 1 .. Len(got') - 1 : got'[k] < got'[k + 1]
    <3>1. \A k \in 1 .. Len(got) - 1 : got[k] < got[k + 1]
      BY DEF NetInv, RxSound
    <3>2. ASSUME NEW k \in 1 .. Len(got') - 1 PROVE got'[k] < got'[k + 1]
      <4>1. k \in 1 .. Len(got) /\ k \in Nat
        BY <1>8, <1>9
      <4>2. CASE k = Len(got)
        BY <1>8, <1>9, <4>1, <4>2
      <4>3. CASE k # Len(got)
        <5>1. k \in 1 .. Len(got) - 1 /\ k + 1 \in 1 .. Len(got)
          BY <1>8, <4>1, <4>3
        <5> QED BY <1>9, <3>1, <4>1, <5>1
      <4> QED BY <4>2, <4>3
    <3> QED BY <3>2
  <2>2. bogus' = 0 => got' = [k \in 1 .. Len(got') |-> k]
    <3>1. SUFFICES ASSUME bogus = 0
                   PROVE  got' = [k \in 1 .. Len(got) + 1 |-> k]
      BY Zenon, <1>1, <1>9
    <3>2. got = [k \in 1 .. Len(got) |-> k]
      BY <3>1 DEF NetInv, RxSound
    <3>3. \A k \in 1 .. Len(got) : got[k] = k
      BY <3>2
    <3>4. ASSUME NEW k \in 1 .. Len(got) + 1 PROVE got'[k] = k
      <4>1. k \in 1 .. Len(got) \/ k = Len(got) + 1
        BY <1>8
      <4>2. Before = Len(got) + 1
        BY <1>8, <3>1
      <4> QED BY <1>9, <3>3, <4>1, <4>2
    <3> QED BY <1>9, <3>4
  <2> QED BY <2>1, <2>2 DEF InOrder
<1> QED BY <1>2, <1>6, <1>7, <1>10, <1>11

\* A frame arrives: the card takes the first buffer made available and fills it.
\* No frame still to be read is in it.
HeadIsFree ==
    /\ \A s \in Live(rx.last_used_idx, rx.used_idx) : rx.used[s] # AvailHead(rx)
    /\ op.at = "recv" => op.id # AvailHead(rx)

\* Filling a buffer keeps the frames in their order.
LEMMA CardRxFillFrames ==
    ASSUME NetInv, CardRxFill, HeadIsFree
    PROVE  RxRoom' /\ RxFrames' /\ InOrder'
<1> DEFINE f == rx.taken % queue_size
           c == rx.avail[f]
<1>i. /\ rx \in Virtqs /\ rx.avail_idx \in Idx /\ rx.used_idx \in Idx
      /\ rx.last_used_idx \in Idx /\ rx.taken \in Idx
  BY RxIndices
<1>n. /\ Unread \in Nat /\ Between(rx.taken, rx.avail_idx) \in Nat
      /\ Filled \in {0, 1} /\ Copying \in {0, 1} /\ arrivals \in Nat /\ Before \in Int
      /\ Between(rx.taken, rx.avail_idx) + Unread + Filled + Copying <= RX_BUF_COUNT
      /\ {RX_BUF_COUNT, queue_size, MaxIdx} \subseteq Nat
      /\ RX_BUF_COUNT <= queue_size /\ queue_size <= MaxIdx
  BY RxNumbers, NetConstants
<1>1. /\ nic = "ok" /\ card_rx = NoBuf /\ arrivals' = arrivals + 1 /\ card_rx' = c
      /\ Between(rx.taken, rx.avail_idx) \in 1 .. queue_size
      /\ rx_bufs' = [rx_bufs EXCEPT ![c] = arrivals + 1] /\ rx' = TakeAvail(rx)
      /\ UNCHANGED <<nic, op, got, bogus>>
  BY DEF CardRxFill, HasAvail, AvailHead
<1>2. /\ rx'.avail = rx.avail /\ rx'.avail_idx = rx.avail_idx /\ rx'.used = rx.used
      /\ rx'.used_idx = rx.used_idx /\ rx'.last_used_idx = rx.last_used_idx
      /\ rx'.taken = Wrap(rx.taken)
  BY <1>1, <1>i, TakeAvailFields
<1>3. f \in Live(rx.taken, rx.avail_idx)
  BY SMTT(20), <1>1, <1>i, LivePop
<1>4. c \in RxBufs /\ c # NoBuf
  BY <1>3, <1>i, ZeroIsBuf DEF Live, Virtqs
<1>5. c = AvailHead(rx)
  BY DEF AvailHead
<1>6. \A s \in Live(rx.last_used_idx, rx.used_idx) : rx.used[s] # c
  BY <1>5 DEF HeadIsFree
<1>7. op.at = "recv" => op.id # c /\ op.id \in RxBufs
  BY SMTT(20), <1>5, OpIs DEF HeadIsFree, NetInv, NetTypes
<1> HIDE DEF f, c
<1>8. /\ Filled = 0 /\ Filled' = 1 /\ Copying' = Copying /\ Unread' = Unread
      /\ Between(rx.taken, rx.avail_idx)' = Between(rx.taken, rx.avail_idx) - 1
  <2>1. Between(rx.taken, rx.avail_idx) > 0
    BY <1>1
  <2>2. Between(Wrap(rx.taken), rx.avail_idx) = Between(rx.taken, rx.avail_idx) - 1
    BY <1>i, <2>1, Advance
  <2>3. Filled = 0 /\ Filled' = 1 /\ Copying' = Copying
    BY <1>1, <1>4 DEF Filled, Copying
  <2> QED BY <1>2, <2>2, <2>3 DEF Unread
<1>9. Before' = Before
  BY <1>1, <1>8, <1>n DEF Before
<1>10. RxRoom'
  BY <1>8, <1>n DEF RxRoom
<1>11. /\ rx_bufs'[c] = arrivals' /\ rx_bufs \in [RxBufs -> Nat]
       /\ \A b \in RxBufs : b # c => rx_bufs'[b] = rx_bufs[b]
  BY <1>1, <1>4 DEF NetInv, NetTypes
<1>12. RxFrames'
  <2>0. UsedFrames /\ CopiedFrame /\ GotBefore /\ GotAll
    BY DEF NetInv, RxFrames
  <2>1. FilledFrame'
    BY <1>1, <1>11 DEF FilledFrame
  <2>2. UsedFrames'
    <3>1. ASSUME NEW s \in Live(rx.last_used_idx, rx.used_idx), rx.used[s] # NoBuf
          PROVE  rx_bufs'[rx.used[s]] = Before + Offset(rx.last_used_idx, s) + 1
      <4>1. rx.used[s] \in RxBufs /\ rx.used[s] # c
        BY <1>6, <3>1, <1>i DEF Live, Virtqs
      <4>2. rx_bufs[rx.used[s]] = Before + Offset(rx.last_used_idx, s) + 1
        BY <2>0, <3>1 DEF UsedFrames
      <4> QED BY <1>11, <4>1, <4>2
    <3> QED BY <1>2, <1>9, <3>1 DEF UsedFrames
  <2>3. CopiedFrame'
    BY <1>1, <1>7, <1>9, <1>11, <2>0 DEF CopiedFrame
  <2>4. GotBefore' /\ GotAll'
    BY <1>1, <1>2, <1>8, <1>9, <2>0 DEF GotBefore, GotAll
  <2> QED BY <2>1, <2>2, <2>3, <2>4 DEF RxFrames
<1>13. InOrder'
  BY <1>1 DEF NetInv, RxSound, InOrder
<1> QED BY <1>10, <1>12, <1>13

\* The card puts the buffer it filled on the used ring, or an id that is none.
LEMMA CardRxDoneFrames ==
    ASSUME NetInv, CardRxDone
    PROVE  Unread < queue_size /\ RxRoom' /\ RxFrames' /\ InOrder'
<1> DEFINE e == rx.used_idx % queue_size
           id == IF bogus' = bogus THEN card_rx ELSE NoBuf
<1>i. /\ rx \in Virtqs /\ rx.avail_idx \in Idx /\ rx.used_idx \in Idx
      /\ rx.last_used_idx \in Idx /\ rx.taken \in Idx
  BY RxIndices
<1>n. /\ Unread \in Nat /\ Between(rx.taken, rx.avail_idx) \in Nat
      /\ Filled \in {0, 1} /\ Copying \in {0, 1} /\ arrivals \in Nat /\ Before \in Int
      /\ Between(rx.taken, rx.avail_idx) + Unread + Filled + Copying <= RX_BUF_COUNT
      /\ {RX_BUF_COUNT, queue_size, MaxIdx} \subseteq Nat
      /\ RX_BUF_COUNT <= queue_size /\ queue_size <= MaxIdx
  BY RxNumbers, NetConstants
<1>1. /\ card_rx # NoBuf /\ card_rx' = NoBuf /\ rx' = PushUsed(rx, id)
      /\ bogus' = bogus \/ (bogus' = bogus + 1 /\ id = NoBuf)
      /\ UNCHANGED <<nic, rx_bufs, op, arrivals, got>> /\ bogus \in Nat
  BY DEF CardRxDone, NetInv, NetTypes
<1>2. card_rx \in RxBufs /\ id \in RxBufs \cup {NoBuf} /\ nic = "ok"
  BY <1>1 DEF NetInv, NetTypes, Untouched
<1>b. /\ bogus' = bogus => id = card_rx
      /\ bogus' # bogus => bogus' = bogus + 1 /\ id = NoBuf
  BY <1>1
<1> HIDE DEF id
<1>3. /\ rx'.avail = rx.avail /\ rx'.avail_idx = rx.avail_idx
      /\ \A s \in Slots : rx'.used[s] = IF s = e THEN id ELSE rx.used[s]
      /\ rx'.used_idx = Wrap(rx.used_idx) /\ rx'.last_used_idx = rx.last_used_idx
      /\ rx'.taken = rx.taken
  <2>1. rx \in Virtqs /\ id \in RxBufs \cup {NoBuf} /\ rx' = PushUsed(rx, id)
    BY <1>1, <1>2, <1>i
  <2> QED BY <2>1, PushUsedFields
<1>4. Filled = 1 /\ Filled' = 0 /\ Copying' = Copying
  BY <1>1 DEF Filled, Copying
<1>5. Unread < queue_size /\ Unread' = Unread + 1
  <2>1. Unread < queue_size /\ Unread < MaxIdx
    BY <1>4, <1>n
  <2> QED BY SMTT(20), <1>3, <2>1, <1>i, Advance DEF Unread
<1>6. Before' = Before /\ Before + Unread + 1 = arrivals
  BY <1>1, <1>4, <1>5, <1>n DEF Before
<1>7. /\ e \in Slots /\ e \notin Live(rx.last_used_idx, rx.used_idx)
      /\ Offset(rx.last_used_idx, e) = Unread
      /\ Live(rx.last_used_idx, Wrap(rx.used_idx)) = Live(rx.last_used_idx, rx.used_idx) \cup {e}
  BY <1>5, <1>i, LivePush DEF Unread
<1> HIDE DEF e
<1>8. RxRoom'
  <2>1. Between(rx.taken, rx.avail_idx)' = Between(rx.taken, rx.avail_idx)
    BY <1>3
  <2> QED BY <1>4, <1>5, <2>1, <1>n DEF RxRoom
<1>9. RxFrames'
  <2>0. FilledFrame /\ UsedFrames /\ CopiedFrame /\ GotBefore /\ GotAll
    BY DEF NetInv, RxFrames
  <2>z. bogus' = 0 => bogus = 0 /\ id = card_rx
    BY <1>1, <1>b
  <2>1. FilledFrame'
    BY <1>1 DEF FilledFrame
  <2>2. ASSUME NEW s \in Live(rx'.last_used_idx, rx'.used_idx)
        PROVE  \/ s \in Live(rx.last_used_idx, rx.used_idx) /\ rx'.used[s] = rx.used[s]
               \/ rx'.used[s] = id /\ Offset(rx.last_used_idx, s) = Unread
    <3>1. CASE s = e
      BY SMTT(20), <1>3, <1>7, <3>1
    <3>2. CASE s # e
      BY SMTT(20), <1>3, <1>7, <3>2 DEF Live
    <3> QED BY SMTT(20), <3>1, <3>2
  <2>3. UsedFrames'
    <3>1. id # NoBuf => rx_bufs[id] = Before + Unread + 1
      BY <1>1, <1>6, <1>b, <2>0 DEF FilledFrame
    <3>2. ASSUME NEW s \in Live(rx'.last_used_idx, rx'.used_idx), rx'.used[s] # NoBuf
          PROVE  rx_bufs[rx'.used[s]] = Before + Offset(rx.last_used_idx, s) + 1
      BY SMTT(20), <2>0, <2>2, <3>1, <3>2 DEF UsedFrames
    <3> QED BY <1>1, <1>3, <1>6, <3>2 DEF UsedFrames
  <2>4. CopiedFrame' /\ GotBefore'
    BY <1>1, <1>4, <1>6, <2>0 DEF CopiedFrame, GotBefore
  <2>5. GotAll'
    <3>1. ASSUME bogus' = 0
          PROVE  \A s \in Live(rx'.last_used_idx, rx'.used_idx) : rx'.used[s] # NoBuf
      BY <1>1, <2>0, <2>z, <2>2, <3>1 DEF GotAll
    <3> QED BY <1>1, <1>4, <1>6, <2>0, <2>z, <3>1 DEF GotAll
  <2> QED BY <2>1, <2>3, <2>4, <2>5 DEF RxFrames
<1>10. InOrder'
  <2>1. bogus' = 0 => bogus = 0
    BY <1>1, <1>b
  <2> QED BY <1>1, <2>1 DEF NetInv, RxSound, InOrder
<1> QED BY <1>5, <1>8, <1>9, <1>10
=============================================================================
