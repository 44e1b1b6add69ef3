---------------------------- MODULE InputProofs ----------------------------
(***************************************************************************)
(* Theorems about Input, for every queue capacity, every set of keys and      *)
(* every table size: what is typed is what is read, and neither the executor   *)
(* nor a reader of standard input sleeps through its wake-up, wherever the      *)
(* keyboard interrupt falls.                                                     *)
(*                                                                              *)
(* Every step of Input is a step of Thread or leaves the scheduler alone, so    *)
(* the scheduler's inductive invariant IInv holds here too.                      *)
(***************************************************************************)
EXTENDS Input, ThreadProofs, SequenceTheorems, WellFoundedInduction

\* What the handshake between the interrupt, the waker and the executor keeps:
\* a registered waker means an empty queue, except where the task is about to
\* look a second time; outside the task there is a waker or an entry for it.
WakerKept ==
    /\ waker /\ pc # "poll_again" => scancodes = <<>>
    /\ pc \in {"run", "reap", "idle", "halted", "poll_again"} => waker \/ task_queue > 0
    /\ pc = "halted" => task_queue = 0

\* A key that is being handled came from the queue.
KeyPolled == pc = "process_input" => key \in Keys

\* The console hands over whole lines: what was read and what is ready to be
\* read ends in a Newline.
Chars == Keys \ {Newline, Backspace, Other}
Bytes == Keys \ {Backspace, Other}

WholeLines(bytes) == bytes \in Seq(Bytes) /\ (bytes # <<>> => bytes[Len(bytes)] = Newline)
LinesEnd          == got \in Seq(Bytes) /\ WholeLines(ready) /\ WholeLines(got \o ready)

\* TypedIsRead with the keys the console has been fed named.
Fed == \E done \in Seq(Keys) : /\ typed = done \o Pending
                              /\ (got \o ready) \o line = Typed(done)

InputInv == IInv /\ InputTypeOK /\ WakerKept /\ KeyPolled /\ LinesEnd /\ StdinSound /\ Fed

-----------------------------------------------------------------------------
(***************************************************************************)
(* Least elements.  Where a proof needs induction it takes the least          *)
(* counterexample, which LeastNatural provides.                                *)
(***************************************************************************)
Below == {p \in Nat \X Nat : p[1] < p[2]}

\* Every non-empty set of naturals has a least element.
LEMMA LeastNatural ==
    ASSUME NEW T, T \subseteq Nat, T # {}
    PROVE  \E n \in T : \A m \in T : n <= m
<1>1. IsWellFoundedOn(Below, Nat)
  BY NatLessThanWellFounded, Zenon DEF OpToRel, Below
<1>2. PICK n \in T : \A m \in T : ~ (<<m, n>> \in Below)
  BY Zenon, <1>1, WFMin
<1>3. n \in Nat /\ \A m \in T : m \in Nat /\ ~ (m < n)
  BY Zenon, <1>2 DEF Below
<1>4. \A m \in T : n <= m
  BY <1>3
<1>. QED BY <1>2, <1>4

\* Min of a non-empty set of naturals is its least element.
LEMMA MinIsLeast ==
    ASSUME NEW T, T \subseteq Nat, T # {}
    PROVE  Min(T) \in T /\ \A m \in T : Min(T) <= m
BY Zenon, LeastNatural DEF Min

\* Min of two naturals.
LEMMA MinOfTwo ==
    ASSUME NEW a \in Nat, NEW b \in Nat
    PROVE  /\ Min({a, b}) \in {a, b}
           /\ Min({a, b}) <= a /\ Min({a, b}) <= b
BY MinIsLeast

-----------------------------------------------------------------------------
(***************************************************************************)
(* The scheduler below.                                                       *)
(***************************************************************************)
\* Every step of Input is a step of Thread, or none of it.
LEMMA StepsOfThread == InputNext => [Next]_vars
<1> SUFFICES ASSUME InputNext, ~ UNCHANGED vars PROVE Next
  OBVIOUS
<1>1. CASE wake_stdin_readers
  BY <1>1 DEF wake_stdin_readers, Next
<1>2. CASE reap
  BY <1>2 DEF reap, Next
<1>3. CASE read_stdin \/ ReadResume
  BY <1>3 DEF read_stdin, ReadResume, ReadTurn, Next
<1>4. CASE Processes
  BY Zenon, <1>4 DEF Processes, Next
<1>5. CASE Tick
  BY <1>5 DEF Tick, Next
<1>6. CASE \/ \E k \in Keys : add_scancode(k)
           \/ run_ready_tasks \/ poll_next \/ register \/ poll_again \/ feed_char \/ sleep_if_idle
  BY <1>6 DEF add_scancode, run_ready_tasks, poll_next, register, poll_again, feed_char, sleep_if_idle
<1> QED BY <1>1, <1>2, <1>3, <1>4, <1>5, <1>6 DEF InputNext

-----------------------------------------------------------------------------
(***************************************************************************)
(* The line discipline and its specification.                                 *)
(***************************************************************************)
\* A sequence cut in two.
LEMMA SplitSeq ==
    ASSUME NEW S, NEW seq \in Seq(S), NEW n \in 0 .. Len(seq)
    PROVE  LET a == SubSeq(seq, 1, n)
               b == SubSeq(seq, n + 1, Len(seq))
           IN
           /\ a \in Seq(S) /\ b \in Seq(S)
           /\ Len(a) = n /\ Len(b) = Len(seq) - n
           /\ \A i \in 1 .. n : a[i] = seq[i]
           /\ \A i \in 1 .. Len(seq) - n : b[i] = seq[n + i]
           /\ a \o b = seq
<1> DEFINE a == SubSeq(seq, 1, n)
           b == SubSeq(seq, n + 1, Len(seq))
<1>1. Len(seq) \in Nat /\ \A i \in 1 .. Len(seq) : seq[i] \in S
  OBVIOUS
<1>2. /\ a \in Seq(S) /\ Len(a) = n /\ \A i \in 1 .. n : a[i] = seq[i]
  BY <1>1
<1>3. b \in Seq(S) /\ Len(b) = Len(seq) - n
  BY <1>1
<1>4. \A i \in 1 .. Len(seq) - n : b[i] = seq[n + i]
  BY <1>1
<1>5. a \o b = seq
  <2>0. 1 \in 1 .. Len(seq) + 1 /\ n \in 1 - 1 .. Len(seq) /\ Len(seq) \in n .. Len(seq)
    BY <1>1
  <2>1. SubSeq(seq, 1, n) \o SubSeq(seq, n + 1, Len(seq)) = SubSeq(seq, 1, Len(seq))
    BY Zenon, <2>0, ConcatAdjacentSubSeq
  <2> QED BY Zenon, <2>1, SubSeqFull
<1> QED BY Zenon, <1>2, <1>3, <1>4, <1>5

\* take_ready cuts the finished input in two at a place inside it, and putting
\* the two together again gives it back.
LEMMA TakeReady ==
    ASSUME InputTypeOK, LinesEnd, ready # <<>>, NEW count \in Nat,
           NEW bytes, bytes = take_ready(count),
           NEW rest, rest = SubSeq(ready, Len(bytes) + 1, Len(ready))
    PROVE  /\ bytes \in Seq(Bytes) /\ rest \in Seq(Bytes)
           /\ bytes \o rest = ready
           /\ WholeLines(rest)
<1>1. ready \in Seq(Bytes) /\ Len(ready) \in Nat /\ Len(ready) > 0
  BY DEF InputTypeOK, Bytes
<1>2. LineLen \in 1 .. Len(ready)
  <2> DEFINE ends == {i \in DOMAIN ready : ready[i] = Newline}
  <2>1. ends \subseteq 1 .. Len(ready) /\ Len(ready) \in ends
    BY <1>1 DEF LinesEnd, WholeLines
  <2>2. Min(ends) \in ends
    <3>1. ends \subseteq Nat /\ ends # {}
      BY <2>1, <1>1
    <3> HIDE DEF ends
    <3> QED BY Zenon, <3>1, MinIsLeast
  <2> QED BY <2>1, <2>2 DEF LineLen
<1> DEFINE n == Min({count, LineLen})
<1>3. n \in 0 .. Len(ready)
  <2>1. LineLen \in Nat
    BY <1>1, <1>2
  <2>2. n \in {count, LineLen} /\ n <= LineLen
    BY <2>1, MinOfTwo
  <2> HIDE DEF n
  <2> QED BY <1>1, <1>2, <2>2
<1>4. bytes = SubSeq(ready, 1, n)
  BY DEF take_ready
<1> HIDE DEF n
<1>5. Len(bytes) = n
  BY <1>1, <1>3, <1>4
<1>6. rest = SubSeq(ready, n + 1, Len(ready))
  BY <1>5
<1>7. /\ bytes \in Seq(Bytes) /\ rest \in Seq(Bytes)
      /\ Len(rest) = Len(ready) - n
      /\ \A i \in 1 .. Len(ready) - n : rest[i] = ready[n + i]
      /\ bytes \o rest = ready
  <2>1. LET a == SubSeq(ready, 1, n)
            b == SubSeq(ready, n + 1, Len(ready))
        IN /\ a \in Seq(Bytes) /\ b \in Seq(Bytes) /\ Len(b) = Len(ready) - n
           /\ \A i \in 1 .. Len(ready) - n : b[i] = ready[n + i]
           /\ a \o b = ready
    BY Zenon, <1>1, <1>3, SplitSeq
  <2> QED BY Zenon, <1>4, <1>6, <2>1
<1>8. ASSUME rest # <<>> PROVE rest[Len(rest)] = Newline
  <2>1. Len(rest) \in 1 .. Len(ready) - n /\ n + Len(rest) = Len(ready)
    BY <1>1, <1>3, <1>7, <1>8
  <2> QED BY Zenon, <2>1, <1>7 DEF LinesEnd, WholeLines
<1> QED BY Zenon, <1>7, <1>8 DEF WholeLines

\* The recursive function of Typed exists: it satisfies its equation.
LEMMA TextsDef ==
    ASSUME NEW keys \in Seq(Keys)
    PROVE  Texts(keys) = [n \in 0 .. Len(keys) |->
                            IF n = 0 THEN <<>> ELSE Edited(Texts(keys)[n - 1], keys[n])]
<1> DEFINE Eqn(f, m) == f = [n \in 0 .. m |-> IF n = 0 THEN <<>> ELSE Edited(f[n - 1], keys[n])]
           T == {m \in Nat : ~ \E f : Eqn(f, m)}
<1>1. T = {}
  <2> SUFFICES ASSUME T # {} PROVE FALSE
    OBVIOUS
  <2>1. PICK m \in T : \A i \in T : m <= i
    <3> HIDE DEF T
    <3>1. T \subseteq Nat
      BY DEF T
    <3> QED BY Zenon, <3>1, LeastNatural
  <2>2. m \in Nat /\ ~ \E f : Eqn(f, m)
    OBVIOUS
  <2>3. CASE m = 0
    <3>1. Eqn([n \in 0 .. 0 |-> <<>>], 0)
      OBVIOUS
    <3> QED BY Zenon, <2>2, <2>3, <3>1
  <2>4. CASE m # 0
    <3>1. m - 1 \in Nat /\ m - 1 \notin T
      <4> HIDE DEF T
      <4> QED BY <2>1, <2>2, <2>4
    <3>2. PICK f : Eqn(f, m - 1)
      BY <3>1
    <3> DEFINE g == [n \in 0 .. m |-> IF n = m THEN Edited(f[m - 1], keys[m]) ELSE f[n]]
    <3>3. \A n \in 0 .. m - 1 : g[n] = f[n]
      BY <2>2
    <3>4. ASSUME NEW n \in 0 .. m
          PROVE  g[n] = IF n = 0 THEN <<>> ELSE Edited(g[n - 1], keys[n])
      <4>1. CASE n = m
        BY <2>2, <2>4, <3>3, <4>1
      <4>2. CASE n # m
        <5>1. n \in 0 .. m - 1 /\ (n # 0 => n - 1 \in 0 .. m - 1)
          BY <2>2, <4>2
        <5> QED BY Zenon, <3>2, <3>3, <5>1
      <4> QED BY <4>1, <4>2
    <3>5. g = [n \in 0 .. m |-> g[n]]
      OBVIOUS
    <3> HIDE DEF g
    <3>6. Eqn(g, m)
      BY Zenon, <3>4, <3>5
    <3> QED BY Zenon, <2>2, <3>6
  <2> QED BY <2>3, <2>4
<1>2. \E f : Eqn(f, Len(keys))
  <2>1. Len(keys) \in Nat
    OBVIOUS
  <2> QED BY <1>1, <2>1
<1>3. Texts(keys) = CHOOSE f : Eqn(f, Len(keys))
  BY DEF Texts
<1> HIDE DEF Eqn
<1>4. Eqn(Texts(keys), Len(keys))
  BY <1>2, <1>3
<1> QED BY Zenon, <1>4 DEF Eqn

\* Typing one more key edits the text.
LEMMA TypedStep ==
    ASSUME NEW keys \in Seq(Keys), NEW k \in Keys
    PROVE  Typed(Append(keys, k)) = Edited(Typed(keys), k)
<1> DEFINE more == Append(keys, k)
           t == Texts(keys)
           u == Texts(more)
           N == Len(keys)
           T == {n \in 0 .. N : u[n] # t[n]}
<1>1. /\ N \in Nat /\ more \in Seq(Keys) /\ Len(more) = N + 1
      /\ more[N + 1] = k /\ \A i \in 1 .. N : more[i] = keys[i]
  OBVIOUS
<1> HIDE DEF more
<1>2. /\ t[0] = <<>> /\ \A n \in 1 .. N : t[n] = Edited(t[n - 1], keys[n])
  BY <1>1, TextsDef
<1>3. /\ u[0] = <<>> /\ \A n \in 1 .. N + 1 : u[n] = Edited(u[n - 1], more[n])
  BY <1>1, TextsDef
<1> HIDE DEF t, u, N
<1>4. T = {}
  <2> SUFFICES ASSUME T # {} PROVE FALSE
    OBVIOUS
  <2>1. T \subseteq Nat
    BY <1>1
  <2>2. PICK n \in T : \A i \in T : n <= i
    <3> HIDE DEF T
    <3> QED BY Zenon, <2>1, LeastNatural
  <2>3. n \in 0 .. N /\ u[n] # t[n]
    OBVIOUS
  <2>4. n \in 1 .. N /\ n - 1 \in 0 .. N
    BY <1>1, <1>2, <1>3, <2>3
  <2>5. n - 1 \notin T
    <3> HIDE DEF T
    <3> QED BY <1>1, <2>1, <2>2, <2>4
  <2>6. u[n - 1] = t[n - 1]
    BY <2>4, <2>5
  <2> QED BY <1>1, <1>2, <1>3, <2>3, <2>4, <2>6
<1>5. u[N] = t[N]
  BY <1>1, <1>4
<1>6. u[N + 1] = Edited(t[N], k)
  BY <1>1, <1>3, <1>5
<1> QED BY <1>1, <1>6 DEF Typed, t, u, N, more

\* Nothing typed, nothing there.
LEMMA TypedNothing == Typed(<<>>) = <<>>
<1>1. ASSUME NEW keys \in Seq(Keys) PROVE Texts(keys)[0] = <<>>
  <2>1. 0 \in 0 .. Len(keys)
    OBVIOUS
  <2> QED BY <2>1, TextsDef
<1>2. <<>> \in Seq(Keys) /\ Len(<<>>) = 0
  OBVIOUS
<1> QED BY Zenon, <1>1, <1>2 DEF Typed

\* What feed_char does to the line is what typing the key means.
LEMMA FeedEdits ==
    ASSUME NEW fin, WholeLines(fin), NEW ln \in Seq(Chars), NEW k \in Keys
    PROVE  Edited(fin \o ln, k) =
             IF k = Other THEN fin \o ln
             ELSE IF k # Backspace THEN fin \o Append(ln, k)
             ELSE IF ln = <<>> THEN fin \o ln ELSE fin \o SubSeq(ln, 1, Len(ln) - 1)
<1> DEFINE text == fin \o ln
<1>1. fin \in Seq(Keys) /\ ln \in Seq(Keys) /\ Len(fin) \in Nat /\ Len(ln) \in Nat
  BY SeqMonotonic DEF WholeLines, Bytes, Chars
<1>2. /\ text \in Seq(Keys) /\ Len(text) = Len(fin) + Len(ln)
      /\ \A i \in 1 .. Len(fin) : text[i] = fin[i]
      /\ \A i \in 1 .. Len(ln) : text[Len(fin) + i] = ln[i]
  BY <1>1
<1> HIDE DEF text
<1>3. Append(text, k) = fin \o Append(ln, k)
  BY <1>1 DEF text
<1>4. CASE ln = <<>>
  <2>1. text = fin
    BY <1>1, <1>4 DEF text
  <2>2. text = <<>> \/ text[Len(text)] = Newline
    BY <2>1 DEF WholeLines
  <2> QED BY <1>3, <1>4, <2>2 DEF Edited, text
<1>5. CASE ln # <<>>
  <2>1. Len(ln) > 0 /\ text # <<>>
    BY <1>1, <1>2, <1>5
  <2>2. text[Len(text)] = ln[Len(ln)] /\ ln[Len(ln)] \in Chars
    BY <1>1, <1>2, <2>1
  <2>3. text[Len(text)] # Newline
    BY <2>2 DEF Chars
  <2>4. SubSeq(text, 1, Len(text) - 1) = fin \o SubSeq(ln, 1, Len(ln) - 1)
    BY <1>1, <2>1 DEF text
  <2> QED BY Zenon, <1>3, <1>5, <2>1, <2>3, <2>4 DEF Edited, text
<1> QED BY Zenon, <1>4, <1>5

-----------------------------------------------------------------------------
(***************************************************************************)
(* The invariant, part by part.                                               *)
(***************************************************************************)
\* One turn of the loop of read_stdin takes bytes, or puts them back, or sleeps.
LEMMA ReadTurnDoes ==
    ASSUME InputTypeOK, LinesEnd, NEW count \in Counts, ReadTurn(count)
    PROVE  /\ got' \in Seq(Bytes) /\ WholeLines(ready') /\ got' \o ready' = got \o ready
           /\ \/ /\ ready # <<>> /\ UNCHANGED vars
                 /\ reading' = [reading EXCEPT ![current] = FALSE]
              \/ /\ ready = <<>> /\ Block("Stdin") /\ UNCHANGED <<ready, got>>
                 /\ reading' = [reading EXCEPT ![current] = TRUE]
<1>1. count \in Nat
  BY InputAssumption DEF Counts
<1>2. got \in Seq(Bytes) /\ ready \in Seq(Bytes) /\ WholeLines(ready)
  BY DEF LinesEnd, WholeLines
<1>3. CASE ready # <<>>
  <2> DEFINE bytes == take_ready(count)
             rest  == SubSeq(ready, Len(bytes) + 1, Len(ready))
  <2>1. /\ bytes \in Seq(Bytes) /\ rest \in Seq(Bytes) /\ bytes \o rest = ready /\ WholeLines(rest)
    BY Zenon, <1>1, <1>3, TakeReady
  <2>2. /\ \/ ready' = rest /\ got' = got \o bytes
           \/ ready' = bytes \o rest /\ got' = got
        /\ UNCHANGED vars /\ reading' = [reading EXCEPT ![current] = FALSE]
    BY Zenon, <1>3 DEF ReadTurn, unread
  <2> HIDE DEF bytes, rest
  <2>3. got \o bytes \in Seq(Bytes)
    BY <1>2, <2>1
  <2>t. got \in Seq(Bytes) /\ bytes \in Seq(Bytes) /\ rest \in Seq(Bytes)
    BY <1>2, <2>1
  <2>4. (got \o bytes) \o rest = got \o (bytes \o rest)
    BY SMTT(20), <2>t, ConcatAssociative
  <2> QED BY Zenon, <1>2, <1>3, <2>1, <2>2, <2>3, <2>4
<1>4. CASE ready = <<>>
  BY <1>2, <1>4 DEF ReadTurn
<1> QED BY Zenon, <1>3, <1>4

\* Queues stay within their capacities, and the rest within its types.
LEMMA TypesNext == ASSUME InputInv, InputNext PROVE InputTypeOK'
<1> USE InputAssumption DEF InputInv, InputTypeOK
<1>1. ASSUME NEW k \in Keys, add_scancode(k) PROVE InputTypeOK'
  <2>1. CASE Len(scancodes) = QUEUE_SIZE
    BY <1>1, <2>1 DEF add_scancode, Unhalted
  <2>2. CASE Len(scancodes) # QUEUE_SIZE
    <3>1. scancodes' \in Seq(Keys) /\ Len(scancodes') <= QUEUE_SIZE /\ typed' \in Seq(Keys)
      <4>1. scancodes' = Append(scancodes, k) /\ typed' = Append(typed, k)
        BY Zenon, <1>1, <2>2 DEF add_scancode
      <4>2. Len(scancodes) \in Nat /\ Len(scancodes) < QUEUE_SIZE
        BY <2>2
      <4> QED BY <4>1, <4>2
    <3>2. task_queue' \in 0 .. TASK_QUEUE
      BY SMTT(20), <1>1, <2>2 DEF add_scancode, wake_task
    <3>3. waker' \in BOOLEAN /\ panicked' \in BOOLEAN
      BY Zenon, <1>1, <2>2 DEF add_scancode, wake_task
    <3> QED BY <1>1, <3>1, <3>2, <3>3 DEF add_scancode, Unhalted
  <2> QED BY <2>1, <2>2
<1>2. CASE run_ready_tasks
  BY <1>2 DEF run_ready_tasks
<1>p. ASSUME scancodes # <<>>
      PROVE  /\ Head(scancodes) \in Keys /\ Tail(scancodes) \in Seq(Keys)
             /\ Len(Tail(scancodes)) <= QUEUE_SIZE
  BY <1>p
<1>3. CASE poll_next
  BY Zenon, <1>3, <1>p DEF poll_next
<1>4. CASE register
  BY <1>4 DEF register
<1>5. CASE poll_again
  BY Zenon, <1>5, <1>p DEF poll_again
<1>6. CASE feed_char
  <2>1. key \in Keys
    BY Zenon, <1>6 DEF feed_char, At, KeyPolled
  <2>2. line' \in Seq(Keys \ {Newline, Backspace, Other})
    BY <1>6, <2>1 DEF feed_char, EditedLine
  <2>3. ready' \in Seq(Keys \ {Backspace, Other})
    <3>1. line \in Seq(Keys \ {Backspace, Other})
      BY SeqMonotonic
    <3>2. key = Newline => Newline \in Keys \ {Backspace, Other}
      BY <2>1 DEF Newline, Backspace, Other
    <3> QED BY <1>6, <3>1, <3>2 DEF feed_char, ReadyAfter
  <2> QED BY <1>6, <2>2, <2>3 DEF feed_char
<1>7. CASE wake_stdin_readers \/ reap \/ sleep_if_idle
  BY Zenon, <1>7 DEF wake_stdin_readers, reap, sleep_if_idle
<1>8. CASE read_stdin \/ ReadResume
  <2>1. PICK count \in Counts : ReadTurn(count)
    BY <1>8 DEF read_stdin, ReadResume
  <2>2. got' \in Seq(Keys) /\ ready' \in Seq(Keys \ {Backspace, Other})
    <3>1. got' \in Seq(Bytes) /\ ready' \in Seq(Bytes)
      BY Zenon, <2>1, ReadTurnDoes DEF WholeLines
    <3> QED BY <3>1, SeqMonotonic DEF Bytes
  <2>3. reading' \in [Slots -> BOOLEAN]
    BY Zenon, <2>1 DEF ReadTurn
  <2> QED BY Zenon, <1>8, <2>2, <2>3 DEF read_stdin, ReadResume
<1>9. CASE Processes
  BY Zenon, <1>9 DEF Processes
<1>10. CASE Tick
  BY <1>10 DEF Tick, Unhalted
<1> QED BY Zenon, <1>1, <1>2, <1>3, <1>4, <1>5, <1>6, <1>7, <1>8, <1>9, <1>10 DEF InputNext

\* The handshake of the waker.
LEMMA WakerNext == ASSUME InputInv, InputNext PROVE WakerKept' /\ KeyPolled'
<1> USE InputAssumption DEF InputInv, InputTypeOK, WakerKept, KeyPolled
<1>1. ASSUME NEW k \in Keys, add_scancode(k) PROVE WakerKept' /\ KeyPolled'
  BY SMTT(20), <1>1 DEF add_scancode, wake_task, Unhalted
<1>2. CASE run_ready_tasks
  BY Zenon, <1>2 DEF run_ready_tasks, At
<1>3. CASE poll_next
  BY <1>3 DEF poll_next, At
<1>4. CASE register
  BY Zenon, <1>4 DEF register, At
<1>5. CASE poll_again
  BY <1>5 DEF poll_again, At
<1>6. CASE feed_char
  BY Zenon, <1>6 DEF feed_char, At
<1>7. CASE wake_stdin_readers \/ reap \/ sleep_if_idle
  BY SMTT(20), <1>7 DEF wake_stdin_readers, reap, sleep_if_idle, At
<1>8. CASE read_stdin \/ ReadResume
  BY SMTT(20), <1>8 DEF read_stdin, ReadResume
<1>9. CASE Processes
  BY Zenon, <1>9 DEF Processes
<1>10. CASE Tick
  BY <1>10 DEF Tick, Unhalted
<1> QED BY Zenon, <1>1, <1>2, <1>3, <1>4, <1>5, <1>6, <1>7, <1>8, <1>9, <1>10 DEF InputNext

\* A finished line after whole lines.
LEMMA OneMoreLine ==
    ASSUME NEW before \in Seq(Bytes), NEW ln \in Seq(Chars), Newline \in Keys
    PROVE  Append(ln, Newline) \in Seq(Bytes) /\ WholeLines(before \o Append(ln, Newline))
<1>1. ln \in Seq(Bytes)
  BY SeqMonotonic DEF Chars, Bytes
<1>2. Newline \in Bytes
  BY DEF Bytes, Newline, Backspace, Other
<1> DEFINE add == Append(ln, Newline)
<1>3. add \in Seq(Bytes) /\ Len(add) \in Nat /\ Len(add) > 0 /\ add[Len(add)] = Newline
  BY <1>1, <1>2
<1> HIDE DEF add
<1>4. /\ before \o add \in Seq(Bytes) /\ Len(before \o add) = Len(before) + Len(add)
      /\ (before \o add)[Len(before) + Len(add)] = add[Len(add)]
  BY <1>3
<1> QED BY <1>3, <1>4 DEF WholeLines, add

\* feed_char adds a key to the line, takes one off it or hands the line over.
LEMMA FeedDoes ==
    ASSUME InputInv, feed_char
    PROVE  /\ key \in Keys /\ line \in Seq(Chars) /\ got' = got
           /\ \/ /\ key = Newline /\ line' = <<>>
                 /\ ready' = ready \o Append(line, Newline)
                 /\ got \o ready' = (got \o ready) \o Append(line, Newline)
              \/ /\ key # Newline /\ ready' = ready
                 /\ line' = IF key = Other THEN line
                            ELSE IF key # Backspace THEN Append(line, key)
                            ELSE IF line = <<>> THEN line ELSE SubSeq(line, 1, Len(line) - 1)
<1>1. key \in Keys /\ line \in Seq(Chars)
  BY DEF InputInv, InputTypeOK, feed_char, At, KeyPolled, Chars
<1>2. got \in Seq(Bytes) /\ ready \in Seq(Bytes)
  BY DEF InputInv, LinesEnd, WholeLines
<1>3. CASE key = Newline
  <2> DEFINE add == Append(line, Newline)
  <2>1. add \in Seq(Bytes)
    BY <1>1, <1>2, <1>3, OneMoreLine
  <2> HIDE DEF add
  <2>2. (got \o ready) \o add = got \o (ready \o add)
    BY SMTT(30), <1>2, <2>1, ConcatAssociative
  <2> USE DEF add
  <2> QED BY Zenon, <1>1, <1>3, <2>2 DEF feed_char, EditedLine, ReadyAfter, Newline, Other
<1>4. CASE key # Newline
  BY Zenon, <1>1, <1>4 DEF feed_char, EditedLine, ReadyAfter
<1> QED BY Zenon, <1>3, <1>4

\* Lines are handed over whole, and reading keeps them so.
LEMMA LinesNext == ASSUME InputInv, InputNext PROVE LinesEnd'
<1>1. CASE UNCHANGED <<got, ready>>
  BY <1>1 DEF InputInv, LinesEnd, WholeLines
<1>2. CASE feed_char
  <2>1. got \in Seq(Bytes) /\ ready \in Seq(Bytes) /\ got \o ready \in Seq(Bytes)
    BY DEF InputInv, LinesEnd, WholeLines
  <2>2. CASE /\ key = Newline /\ ready' = ready \o Append(line, Newline)
             /\ got' = got /\ got \o ready' = (got \o ready) \o Append(line, Newline)
    <3>1. key \in Keys /\ line \in Seq(Chars)
      BY <1>2, FeedDoes
    <3>2. WholeLines(ready') /\ WholeLines(got' \o ready')
      BY Zenon, <2>1, <2>2, <3>1, OneMoreLine
    <3> QED BY Zenon, <2>1, <2>2, <3>2 DEF LinesEnd, WholeLines
  <2> QED BY Zenon, <1>1, <1>2, <2>2, FeedDoes
<1>3. CASE read_stdin \/ ReadResume
  <2>1. PICK count \in Counts : ReadTurn(count)
    BY <1>3 DEF read_stdin, ReadResume
  <2>2. got' \in Seq(Bytes) /\ WholeLines(ready') /\ got' \o ready' = got \o ready
    BY Zenon, <2>1, ReadTurnDoes DEF InputInv
  <2> QED BY <2>2 DEF InputInv, LinesEnd, WholeLines
<1> QED BY Zenon, <1>1, <1>2, <1>3
        DEF InputNext, add_scancode, run_ready_tasks, poll_next, register, poll_again,
            wake_stdin_readers, reap, sleep_if_idle, Processes, Tick

\* What is fed is what was typed, in its order, and reads as it was meant.
LEMMA FedNext == ASSUME InputInv, InputNext PROVE Fed'
<1>0. PICK done \in Seq(Keys) : typed = done \o Pending /\ (got \o ready) \o line = Typed(done)
  BY Zenon DEF InputInv, Fed
<1>t. /\ scancodes \in Seq(Keys) /\ WholeLines(got \o ready)
      /\ pc = "process_input" => key \in Keys
  BY DEF InputInv, InputTypeOK, LinesEnd, KeyPolled
<1>p. Pending \in Seq(Keys)
  BY <1>t DEF Pending
<1>1. CASE UNCHANGED <<Pending, typed, got, ready, line>>
  BY Zenon, <1>0, <1>1 DEF Fed
<1>2. ASSUME NEW k \in Keys, add_scancode(k) PROVE Fed'
  <2>1. CASE Len(scancodes) = QUEUE_SIZE
    BY Zenon, <1>1, <1>2, <2>1 DEF add_scancode, Pending, Unhalted
  <2>2. CASE Len(scancodes) # QUEUE_SIZE
    <3>1. /\ scancodes' = Append(scancodes, k) /\ typed' = Append(typed, k)
          /\ UNCHANGED <<key, got, ready, line>>
          /\ pc' = "process_input" <=> pc = "process_input"
      BY <1>2, <2>2 DEF add_scancode, Unhalted
    <3>2. Pending' = Append(Pending, k)
      <4> DEFINE first == IF pc = "process_input" THEN <<key>> ELSE <<>>
      <4>1. first \in Seq(Keys) /\ first' = first
        BY <1>t, <3>1
      <4>2. Pending = first \o scancodes /\ Pending' = first' \o scancodes'
        BY DEF Pending
      <4> HIDE DEF first
      <4>3. Append(first \o scancodes, k) = first \o Append(scancodes, k)
        <5>1. first \in Seq(Keys) /\ scancodes \in Seq(Keys) /\ k \in Keys
          BY <1>t, <4>1
        <5> QED BY <5>1
      <4> QED BY <3>1, <4>1, <4>2, <4>3
    <3>3. typed' = done \o Pending'
      <4>1. Append(done \o Pending, k) = done \o Append(Pending, k)
        BY SMTT(20), <1>p
      <4> QED BY <1>0, <3>1, <3>2, <4>1
    <3> QED BY Zenon, <1>0, <3>1, <3>3 DEF Fed
  <2> QED BY <2>1, <2>2
<1>3. CASE poll_next \/ poll_again
  <2>1. CASE scancodes = <<>>
    BY Zenon, <1>1, <1>3, <2>1 DEF poll_next, poll_again, At, Pending
  <2>2. CASE scancodes # <<>>
    <3>1. /\ pc # "process_input" /\ pc' = "process_input"
          /\ key' = Head(scancodes) /\ scancodes' = Tail(scancodes)
          /\ UNCHANGED <<typed, got, ready, line>>
      BY Zenon, <1>3, <2>2 DEF poll_next, poll_again, At
    <3>2. <<Head(scancodes)>> \o Tail(scancodes) = scancodes /\ <<>> \o scancodes = scancodes
      BY <1>t, <2>2
    <3> QED BY <1>1, <3>1, <3>2 DEF Pending
  <2> QED BY <2>1, <2>2
<1>4. CASE feed_char
  <2>1. /\ key \in Keys /\ line \in Seq(Chars)
        /\ pc = "process_input" /\ pc' # "process_input"
        /\ UNCHANGED <<scancodes, key, typed, got>>
    BY Zenon, <1>4, FeedDoes DEF feed_char, At
  <2>2. Pending = <<key>> \o scancodes /\ Pending' = scancodes
    BY <1>t, <2>1 DEF Pending
  <2>3. typed' = Append(done, key) \o Pending'
    <3>1. done \o (<<key>> \o scancodes) = Append(done, key) \o scancodes
      BY SMTT(20), <1>t, <2>1
    <3> QED BY Zenon, <1>0, <2>1, <2>2, <3>1
  <2>4. Typed(Append(done, key)) = Edited((got \o ready) \o line, key)
    BY <1>0, <2>1, TypedStep
  <2>5. (got' \o ready') \o line' = Edited((got \o ready) \o line, key)
    <3>1. Edited((got \o ready) \o line, key) =
             IF key = Other THEN (got \o ready) \o line
             ELSE IF key # Backspace THEN (got \o ready) \o Append(line, key)
             ELSE IF line = <<>> THEN (got \o ready) \o line
             ELSE (got \o ready) \o SubSeq(line, 1, Len(line) - 1)
      BY Zenon, <1>t, <2>1, FeedEdits
    <3>2. CASE key = Newline
      <4>1. /\ line' = <<>> /\ got' = got
            /\ got \o ready' = (got \o ready) \o Append(line, Newline)
        BY Zenon, <1>4, <3>2, FeedDoes
      <4>2. (got' \o ready') \in Seq(Bytes)
        <5>1. LinesEnd'
          BY <1>4, LinesNext DEF InputNext
        <5> QED BY <5>1 DEF LinesEnd, WholeLines
      <4>3. (got' \o ready') \o line' = got' \o ready'
        BY <4>1, <4>2
      <4> QED BY Zenon, <3>1, <3>2, <4>1, <4>3 DEF Newline, Backspace, Other
    <3>3. CASE key # Newline
      BY Zenon, <1>4, <3>1, <3>3, FeedDoes
    <3> QED BY <3>2, <3>3
  <2>6. Append(done, key) \in Seq(Keys)
    BY <1>0, <2>1
  <2> QED BY Zenon, <2>3, <2>4, <2>5, <2>6 DEF Fed
<1>5. CASE read_stdin \/ ReadResume
  <2>1. PICK count \in Counts : ReadTurn(count)
    BY <1>5 DEF read_stdin, ReadResume
  <2>2. got' \o ready' = got \o ready
    BY Zenon, <2>1, ReadTurnDoes DEF InputInv
  <2>3. UNCHANGED <<Pending, typed, line>>
    BY Zenon, <1>5 DEF read_stdin, ReadResume, Pending
  <2> QED BY Zenon, <1>0, <2>2, <2>3 DEF Fed
<1>6. CASE run_ready_tasks \/ register \/ wake_stdin_readers \/ reap \/ sleep_if_idle
  BY Zenon, <1>1, <1>6 DEF run_ready_tasks, register, wake_stdin_readers, reap, sleep_if_idle, At, Pending
<1>7. CASE Processes \/ Tick
  BY Zenon, <1>1, <1>7 DEF Processes, Tick, Unhalted, Pending
<1> QED BY <1>2, <1>3, <1>4, <1>5, <1>6, <1>7 DEF InputNext

\* A sleeping reader is woken by the step after the one that hands a line over.
LEMMA StdinNext == ASSUME InputInv, InputNext PROVE StdinSound'
<1>t. threads \in [Slots -> Row] /\ current \in Slots
  BY TableAssumption DEF InputInv, IInv, Good, TableTyped, Frame, Slots
<1>r. reading \in [Slots -> BOOLEAN]
  BY DEF InputInv, InputTypeOK
<1>s. ASSUME NEW s \in Slots, reading[s], threads[s].state = "Blocked"
      PROVE  threads[s].blocked_on = "Stdin" /\ (ready = <<>> \/ pc = "wake")
  BY Zenon, <1>s DEF InputInv, StdinSound
<1>1. CASE UNCHANGED <<threads, reading>> /\ (UNCHANGED ready \/ pc' = "wake")
                                        /\ (pc = "wake" => pc' = "wake")
  BY <1>1, <1>s DEF StdinSound
<1>2. CASE wake_stdin_readers
  <2>1. threads' = Woken(threads, "Stdin") /\ UNCHANGED <<reading, ready>>
    BY <1>2 DEF wake_stdin_readers, Wake
  <2>2. \A s \in Slots : threads'[s].state = "Blocked" =>
             threads[s].state = "Blocked" /\ threads[s].blocked_on # "Stdin"
    BY SMTT(20), <1>t, <2>1, WokenFields
  <2> QED BY Zenon, <1>s, <2>1, <2>2 DEF StdinSound
<1>3. CASE reap
  <2>1. threads' = Reaped(threads, current) /\ pc # "wake" /\ UNCHANGED <<reading, ready>>
    BY <1>3 DEF reap, Reap, At
  <2>2. \A s \in Slots : /\ threads'[s].blocked_on = threads[s].blocked_on
                         /\ threads'[s].state = "Blocked" => threads[s].state = "Blocked"
    BY SMTT(20), <1>t, <2>1, ReapedFields
  <2> QED BY Zenon, <1>s, <2>1, <2>2 DEF StdinSound
<1>4. CASE read_stdin \/ ReadResume
  <2>1. PICK count \in Counts : ReadTurn(count)
    BY <1>4 DEF read_stdin, ReadResume
  <2>2. pc' = pc
    BY <1>4 DEF read_stdin, ReadResume
  <2>3. CASE /\ ready # <<>> /\ UNCHANGED vars
             /\ reading' = [reading EXCEPT ![current] = FALSE]
    BY Zenon, <1>r, <1>s, <1>t, <2>2, <2>3 DEF StdinSound, vars
  <2>4. CASE /\ ready = <<>> /\ Block("Stdin") /\ UNCHANGED <<ready, got>>
             /\ reading' = [reading EXCEPT ![current] = TRUE]
    <3>1. threads' = BlockedOn(threads, current, "Stdin")
      BY <2>4 DEF Block
    <3>2. threads[current] # FreeSlot /\ "Stdin" \in BlockReason
      BY SMTT(20) DEF InputInv, IInv, FreeSlot, BlockReason
    <3>3. /\ threads'[current].blocked_on = "Stdin"
          /\ \A s \in Slots : s # current => threads'[s] = threads[s]
      BY SMTT(20), <1>t, <3>1, <3>2, BlockedFields
    <3> QED BY Zenon, <1>r, <1>s, <1>t, <2>4, <3>3 DEF StdinSound
  <2> QED BY <2>1, <2>3, <2>4, ReadTurnDoes DEF InputInv
<1>5. CASE Processes
  <2>1. UNCHANGED <<ready, pc>> /\ \A s \in Slots : reading'[s] => reading[s]
    BY Zenon, <1>5 DEF Processes
  <2>2. \A s \in Slots : threads'[s].state = "Blocked" =>
             threads[s].state = "Blocked" /\ threads'[s].blocked_on = threads[s].blocked_on
    <3>1. CASE Fork
      <4>1. threads' = [threads EXCEPT ![len] = NewThread(next_pid, threads[current].pid, TRUE)]
        BY <3>1 DEF Fork, push_thread
      <4> QED BY Zenon, <1>t, <4>1 DEF NewThread
    <3>2. ASSUME NEW idx \in Slots, threads[idx] # FreeSlot,
                 NEW status \in Statuses, NEW signal \in Signals \cup {NoSignal},
                 threads' = Terminated(threads, idx, status, signal)
          PROVE  \A s \in Slots : threads'[s].state = "Blocked" =>
                    threads[s].state = "Blocked" /\ threads'[s].blocked_on = threads[s].blocked_on
      BY SMTT(20), <1>t, <3>2, TerminatedFields
    <3>3. ASSUME NEW code \in Codes, Exit(code, FALSE)
          PROVE  \A s \in Slots : threads'[s].state = "Blocked" =>
                    threads[s].state = "Blocked" /\ threads'[s].blocked_on = threads[s].blocked_on
      <4>1. threads' = Terminated(threads, current, code, NoSignal)
        BY <3>3 DEF Exit
      <4>2. threads[current] # FreeSlot
        BY SMTT(20) DEF InputInv, IInv, FreeSlot
      <4>3. code \in Statuses
        BY DEF Statuses
      <4> QED BY Zenon, <1>t, <3>2, <4>1, <4>2, <4>3
    <3>4. ASSUME NEW pid \in Pids, NEW sig \in Sent, Kill(pid, sig)
          PROVE  \A s \in Slots : threads'[s].state = "Blocked" =>
                    threads[s].state = "Blocked" /\ threads'[s].blocked_on = threads[s].blocked_on
      <4>1. PICK idx \in Slots : /\ is_alive(threads[idx].state)
                                 /\ threads' = Terminated(threads, idx, 128 + sig, sig)
        BY Zenon, <3>4 DEF Kill, KillTargets
      <4>2. threads[idx] # FreeSlot
        BY SMTT(20), <4>1 DEF is_alive, FreeSlot
      <4>3. sig \in Signals /\ 128 + sig \in Statuses
        BY SMTT(20), <3>4, TableAssumption DEF Kill, Signals, Statuses
      <4> QED BY Zenon, <3>2, <4>1, <4>2, <4>3
    <3> QED BY Zenon, <1>5, <3>1, <3>3, <3>4 DEF Processes
  <2> QED BY Zenon, <1>s, <2>1, <2>2 DEF StdinSound
<1>6. CASE Tick
  BY <1>1, <1>6 DEF Tick, TimerTick, Unhalted
<1>7. ASSUME NEW k \in Keys, add_scancode(k) PROVE StdinSound'
  BY <1>1, <1>7 DEF add_scancode, Unhalted, vars
<1>8. CASE feed_char
  BY Zenon, <1>1, <1>8 DEF feed_char, At, ReadyAfter, vars
<1>9. CASE run_ready_tasks \/ poll_next \/ register \/ poll_again \/ sleep_if_idle
  BY Zenon, <1>1, <1>9 DEF run_ready_tasks, poll_next, register, poll_again, sleep_if_idle, At, vars
<1> QED BY <1>2, <1>3, <1>4, <1>5, <1>6, <1>7, <1>8, <1>9 DEF InputNext

-----------------------------------------------------------------------------
(***************************************************************************)
(* The theorems.                                                              *)
(***************************************************************************)
LEMMA InputInvInit == InputInit => InputInv
<1> SUFFICES ASSUME InputInit PROVE InputInv
  OBVIOUS
<1>1. IInv
  BY InitIInv DEF InputInit
<1>2. InputTypeOK
  <2>1. <<>> \in Seq(Keys) /\ <<>> \in Seq(Keys \ {Newline, Backspace, Other})
                         /\ <<>> \in Seq(Keys \ {Backspace, Other})
    OBVIOUS
  <2>2. 0 \in 0 .. TASK_QUEUE /\ 1 \in 0 .. TASK_QUEUE /\ 0 <= QUEUE_SIZE /\ Len(<<>>) = 0
    BY InputAssumption
  <2>3. reading \in [Slots -> BOOLEAN] /\ waker \in BOOLEAN /\ panicked \in BOOLEAN
    BY Zenon DEF InputInit
  <2> QED BY <2>1, <2>2, <2>3 DEF InputInit, InputTypeOK
<1>3. WakerKept /\ KeyPolled /\ StdinSound
  BY DEF InputInit, WakerKept, KeyPolled, StdinSound
<1>4. LinesEnd
  BY DEF InputInit, LinesEnd, WholeLines
<1>5. Fed
  <2>1. typed = <<>> /\ Pending = <<>> /\ (got \o ready) \o line = <<>>
    BY DEF InputInit, Pending
  <2>2. typed = <<>> \o Pending /\ <<>> \in Seq(Keys)
    BY <2>1
  <2> QED BY Zenon, <2>1, <2>2, TypedNothing DEF Fed
<1> QED BY <1>1, <1>2, <1>3, <1>4, <1>5 DEF InputInv

\* Every step of Input keeps its invariant.
LEMMA InputInvNext == InputInv /\ [InputNext]_allVars => InputInv'
<1> SUFFICES ASSUME InputInv, [InputNext]_allVars PROVE InputInv'
  OBVIOUS
<1>1. CASE InputNext
  <2>1. IInv'
    BY <1>1, StepsOfThread, NextIInv DEF InputInv
  <2> QED BY <1>1, <2>1, TypesNext, WakerNext, LinesNext, FedNext, StdinNext DEF InputInv
<1>2. CASE UNCHANGED allVars
  <2>1. UNCHANGED vars /\ UNCHANGED inputVars
    BY <1>2 DEF allVars
  <2>2. IInv'
    BY <2>1, NextIInv DEF InputInv
  <2>3. InputTypeOK' /\ WakerKept' /\ KeyPolled'
    BY Zenon, <2>1 DEF InputInv, inputVars, InputTypeOK, WakerKept, KeyPolled
  <2>4. LinesEnd' /\ Fed'
    BY Zenon, <2>1 DEF InputInv, inputVars, LinesEnd, Fed, Pending
  <2>5. StdinSound'
    BY Zenon, <2>1 DEF InputInv, inputVars, vars, StdinSound
  <2> QED BY <2>2, <2>3, <2>4, <2>5 DEF InputInv
<1> QED BY <1>1, <1>2

\* The invariant implies the properties.
LEMMA InputInvImplies == InputInv => InputTypeOK /\ HaltSound /\ StdinSound /\ TypedIsRead
<1> SUFFICES ASSUME InputInv PROVE HaltSound /\ TypedIsRead
  BY DEF InputInv
<1>1. HaltSound
  BY DEF InputInv, InputTypeOK, WakerKept, HaltSound
<1>2. TypedIsRead
  <2>1. PICK done \in Seq(Keys) : /\ typed = done \o Pending
                                 /\ (got \o ready) \o line = Typed(done)
    BY Zenon DEF InputInv, Fed
  <2>2. Pending \in Seq(Keys)
    BY DEF InputInv, InputTypeOK, KeyPolled, Pending
  <2>3. /\ Len(done) = Len(typed) - Len(Pending) /\ Len(done) >= 0
        /\ SubSeq(typed, 1, Len(done)) = done
        /\ SubSeq(typed, Len(done) + 1, Len(typed)) = Pending
    BY <2>1, <2>2
  <2> QED BY Zenon, <2>1, <2>3 DEF TypedIsRead
<1> QED BY <1>1, <1>2

\* The invariant of Input holds.
LEMMA AlwaysInputInv == InputSpec => []InputInv
BY InputInvInit, InputInvNext, PTL DEF InputSpec

\* The queues keep within their capacities for every capacity, number of keys
\* and table of threads.
THEOREM InputTypesCorrect == InputSpec => []InputTypeOK
BY AlwaysInputInv, InputInvImplies, PTL

\* No lost wake-up of the executor: the second look of poll_next after the
\* registration of the waker and the interrupt-free check of sleep_if_idle let
\* it halt only with an empty queue and a waker that the next key will find.
THEOREM ExecutorHaltsSafely == InputSpec => []HaltSound
BY AlwaysInputInv, InputInvImplies, PTL

\* No lost wake-up of a reader of standard input, whoever reads and whoever is
\* killed between feed_char's unlock and its wake_stdin_readers.
THEOREM ReadersAreWoken == InputSpec => []StdinSound
BY AlwaysInputInv, InputInvImplies, PTL

\* From the scan-code queue through the line discipline, take_ready and unread,
\* read(0) returns exactly what was typed, in order, for every capacity of the
\* queue, every text and every interleaving.
THEOREM InputArrivesAsTyped == InputSpec => []TypedIsRead
BY AlwaysInputInv, InputInvImplies, PTL

=============================================================================
