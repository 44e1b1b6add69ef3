------------------------------ MODULE Sockets ------------------------------
(***************************************************************************)
(* Sockets of user programs (net/socket.rs and the socket calls of           *)
(* syscall/files.rs) over one shared network stack.  A socket lives in the   *)
(* stack's set under a handle, which is used again once it is removed;       *)
(* descriptors are counted references to it.  A blocking call looks the      *)
(* handle up once and then polls the stack in turns, each with the stack's   *)
(* lock held and interrupts off; between turns it yields with nothing held,  *)
(* and other processes run.  Time passes only then, in thread 0, which runs  *)
(* with interrupts on.                                                       *)
(*                                                                           *)
(* The stack (smoltcp) and the network are external: poll takes in what came *)
(* and sends what is queued once the neighbour's address is known; datagrams *)
(* are lost, delayed and repeated, a connection's segments come in order.    *)
(* Data are datagrams and chunks of a stream; the program's address that a   *)
(* result is copied to may turn out to be bad.                               *)
(***************************************************************************)
EXTENDS Naturals, Sequences, FiniteSets, FiniteSetsExt

CONSTANTS
    Procs,           \* process slots
    First,           \* the process that is there from the start
    MAX_FDS,         \* descriptors per process
    EPHEMERAL_SPAN,  \* ports handed out in turn (16384 in the code)
    BindPorts,       \* ports that programs bind to
    Capacity,        \* datagrams or chunks that a socket's buffer holds
    TIMEOUT,         \* ticks until a blocking call gives up
    Kinds,           \* the kinds of sockets programs make
    MaxSockets,      \* bound on the sockets made
    MaxPorts,        \* bound on the ports handed out
    MaxSteps         \* bound on sockets made, descriptors copied, calls, and frames but for ARP and SYN

ASSUME SocketsAssumption ==
    /\ First \in Procs /\ IsFiniteSet(Procs)
    /\ {MAX_FDS, EPHEMERAL_SPAN, Capacity, TIMEOUT, MaxSockets} \subseteq Nat \ {0}
    /\ {MaxPorts, MaxSteps} \subseteq Nat
    /\ Kinds \subseteq {"Udp", "Tcp"}
    /\ BindPorts \subseteq Nat

VARIABLES
    alive,     \* the processes there are
    up,        \* is the shared stack up (is STACK Some)?
    sockets,   \* the stack's sockets by handle
    fds,       \* per process: its descriptors
    call,      \* per process: the blocking call it is in
    ctr,       \* EPHEMERAL_CTR: ports handed out
    arp,       \* is the neighbour's address known?
    incoming,  \* frames that came and are not polled yet
    asked,     \* datagrams sent, which the network may answer
    peers,     \* per connection: the peer's side and the chunks it sent
    steps,     \* calls made and frames received, for the bound
    \* history
    made,      \* sockets made: numbers them
    untold,    \* per process: chunks put into a stream less chunks send returned
    read,      \* per connection: chunks that recv returned, in order
    spoilt,    \* connections with a chunk that recv took and could not copy out
    ended,     \* connections on which recv returned 0 after the peer closed
    answers    \* datagrams recv returned: who asked, who got the answer

network == <<arp, incoming, asked, peers>>
history == <<untold, read, spoilt, ended, answers>>
socketVars == <<alive, up, sockets, fds, call, ctr, network, steps, made, history>>

Handles == 1 .. MaxSockets
FdNums  == 0 .. MAX_FDS - 1
\* A port handed out, by its place in the order; 0 when the program chose the port.
Turns   == 1 .. MaxPorts

NoSocket == [kind |-> "None"]
NoFd     == [kind |-> "None"]
NoCall   == [op |-> "None"]

Counted == steps < MaxSteps /\ steps' = steps + 1

Socket(kind) ==
    [kind |-> kind, id |-> made + 1, port |-> 0, turn |-> 0, state |-> "Closed",
     rx |-> <<>>, tx |-> 0]

Call(op, s, want) ==
    [op |-> op, handle |-> s.handle, id |-> s.id, want |-> want, sent |-> 0, left |-> TIMEOUT]

SocketsInit ==
    /\ alive = {First}
    /\ up = FALSE
    /\ sockets = [h \in Handles |-> NoSocket]
    /\ fds = [p \in Procs |-> [f \in FdNums |-> NoFd]]
    /\ call = [p \in Procs |-> NoCall]
    /\ ctr = 0 /\ made = 0 /\ steps = 0
    /\ arp = FALSE /\ incoming = <<>> /\ asked = {}
    /\ peers = [t \in Turns |-> [state |-> "none", sent |-> 0]]
    /\ untold = [p \in Procs |-> 0]
    /\ read = [t \in Turns |-> <<>>]
    /\ spoilt = {} /\ ended = {} /\ answers = {}

(***************************************************************************)
(* The stack (external), as a function of its state.                         *)
(***************************************************************************)
Stack == [sockets |-> sockets, arp |-> arp, incoming |-> incoming, asked |-> asked, peers |-> peers]

Becomes(st) ==
    /\ sockets' = st.sockets
    /\ arp' = st.arp
    /\ incoming' = st.incoming
    /\ asked' = st.asked
    /\ peers' = st.peers

may_send(s)  == s.state \in {"Established", "CloseWait"}
can_send(s)  == may_send(s) /\ s.tx < Capacity
can_recv(s)  == s.rx # <<>>
may_recv(s)  == s.state = "Established" \/ s.rx # <<>>
is_active(s) == s.state # "Closed"

\* num: a datagram's port, a chunk's number.
Frame(proto, what, num, turn) == [proto |-> proto, what |-> what, num |-> num, turn |-> turn]

\* The elements of a sequence at the places in keep, in order.
Picked(seq, keep) ==
    LET upto[i \in 0 .. Len(seq)] ==
            IF i = 0 THEN <<>> ELSE IF i \in keep THEN Append(upto[i - 1], seq[i]) ELSE upto[i - 1]
    IN  upto[Len(seq)]

\* A datagram is for the first socket with its port.
DatagramsFor(st, h) ==
    LET s == st.sockets[h]
    IN  IF s.port = 0 \/ \E g \in 1 .. h - 1 : st.sockets[g].kind = "Udp" /\ st.sockets[g].port = s.port
        THEN <<>>
        ELSE Picked(st.incoming, {i \in DOMAIN st.incoming :
                                    st.incoming[i].what = "answer" /\ st.incoming[i].num = s.port})

InputDatagrams(s, came) ==
    LET queue == s.rx \o [i \in DOMAIN came |-> came[i].turn]
    IN  [s EXCEPT !.rx = SubSeq(queue, 1, Min({Len(queue), Capacity}))]

\* A segment is for its connection, in whose order they come; RST and FIN come last.
InputSegments(s, frames) ==
    LET mine  == {i \in DOMAIN frames : frames[i].proto = "Tcp" /\ frames[i].turn = s.turn}
        whats == {frames[i].what : i \in mine}
        data  == Picked(frames, {i \in mine : frames[i].what = "data"})
    IN  [s EXCEPT !.rx = @ \o [i \in DOMAIN data |-> data[i].num],
                  !.tx = IF "ACK" \in whats THEN 0 ELSE @,
                  !.state = CASE "RST" \in whats -> "Closed"
                              [] "FIN" \in whats -> "CloseWait"
                              [] "SYN" \in whats -> "Established"
                              [] OTHER -> @]

Ingress(st) ==
    [st EXCEPT
        !.incoming = <<>>,
        !.arp = @ \/ \E i \in DOMAIN st.incoming : st.incoming[i].what = "ARP",
        !.sockets = [h \in Handles |->
            CASE @[h].kind = "Udp" -> InputDatagrams(@[h], DatagramsFor(st, h))
              [] @[h].kind = "Tcp" /\ is_active(@[h]) -> InputSegments(@[h], st.incoming)
              [] OTHER -> @[h]]]

\* Queued datagrams leave; a stream's chunks stay in its ring until acknowledged.
Egress(st) ==
    IF ~st.arp THEN st
    ELSE LET udp == {h \in Handles : st.sockets[h].kind = "Udp" /\ st.sockets[h].tx > 0}
             syn == {st.sockets[h].turn : h \in {g \in Handles :
                        st.sockets[g].kind = "Tcp" /\ st.sockets[g].state = "SynSent"}}
         IN  [st EXCEPT
                !.sockets = [h \in Handles |-> IF h \in udp THEN [@[h] EXCEPT !.tx = 0] ELSE @[h]],
                !.asked = @ \cup {[port |-> st.sockets[h].port, turn |-> st.sockets[h].turn] : h \in udp},
                !.peers = [t \in Turns |-> IF t \in syn /\ @[t].state = "none"
                                           THEN [@[t] EXCEPT !.state = "asked"] ELSE @[t]]]

\* The state after a poll, as a set of one.
poll(st) == {Egress(in) : in \in {Ingress(st)}}

(***************************************************************************)
(* Descriptors.  The count of an Arc is the number of descriptors that share *)
(* it; the Drop of the last one removes the socket from the stack.           *)
(***************************************************************************)
Entries(tab) == {<<p, f>> \in Procs \X FdNums : tab[p][f] # NoFd}
strong_count(tab, id) == Cardinality({e \in Entries(tab) : tab[e[1]][e[2]].id = id})

\* Mutant: the first descriptor to be dropped takes the socket with it.
DropSocketsFirst(after) ==
    LET gone == {fds[e[1]][e[2]].handle : e \in {d \in Entries(fds) : after[d[1]][d[2]] # fds[d[1]][d[2]]}}
    IN  [h \in Handles |-> IF h \in gone THEN NoSocket ELSE sockets[h]]

\* What the stack holds once the descriptors are as in after.
DropSockets(after) ==
    [h \in Handles |->
        IF sockets[h] # NoSocket /\ strong_count(after, sockets[h].id) = 0 THEN NoSocket
        ELSE sockets[h]]

BecomeFds(after) ==
    /\ fds' = after
    /\ sockets' = DropSockets(after)
    /\ UNCHANGED <<up, ctr, network, made, history>>

Ready(p) == p \in alive /\ call[p] = NoCall

sys_close(p, f) ==
    /\ Ready(p)
    /\ fds[p][f] # NoFd
    /\ BecomeFds([fds EXCEPT ![p][f] = NoFd])
    /\ UNCHANGED <<alive, call, steps>>

sys_dup2(p, old, new) ==
    /\ Ready(p)
    /\ fds[p][old] # NoFd /\ old # new
    /\ Counted
    /\ BecomeFds([fds EXCEPT ![p][new] = fds[p][old]])
    /\ UNCHANGED <<alive, call>>

fork_fds(p, child) ==
    /\ Ready(p)
    /\ child \notin alive /\ \A f \in FdNums : fds[child][f] = NoFd
    /\ Counted
    /\ alive' = alive \cup {child}
    /\ BecomeFds([fds EXCEPT ![child] = fds[p]])
    /\ UNCHANGED call

release_current_process_fds(p) ==
    /\ Ready(p)
    /\ alive' = alive \ {p}
    /\ BecomeFds([fds EXCEPT ![p] = [f \in FdNums |-> NoFd]])
    /\ UNCHANGED <<call, steps>>

\* A killed process never returns from its call; its descriptors stay until it is reaped.
\* (One that is killed outside a call differs in nothing from one that waits and exits.)
Kill(p) ==
    /\ p \in alive /\ call[p] # NoCall
    /\ alive' = alive \ {p}
    /\ call' = [call EXCEPT ![p] = NoCall]
    /\ untold' = [untold EXCEPT ![p] = 0]
    /\ UNCHANGED <<up, sockets, fds, ctr, network, steps, made, read, spoilt, ended, answers>>

forget_process(p) ==
    /\ p \notin alive
    /\ \E f \in FdNums : fds[p][f] # NoFd
    /\ BecomeFds([fds EXCEPT ![p] = [f \in FdNums |-> NoFd]])
    /\ UNCHANGED <<alive, call, steps>>

(***************************************************************************)
(* socket(): brings the stack up on first use.  That fails without a card or *)
(* a lease and leaves it down for the next call to try again.                *)
(***************************************************************************)
\* Mutant: the stack that was brought up is not kept.
ensure_up_forgets == UNCHANGED up

ensure_up == up' = TRUE

sys_socket_ENETDOWN(p) ==
    /\ Ready(p) /\ ~up
    /\ UNCHANGED socketVars

FreeHandles == {h \in Handles : sockets[h] = NoSocket}
FreeFds(p)  == {f \in FdNums : fds[p][f] = NoFd}

\* A new socket takes the first free handle.
AddSocket(kind) == [sockets EXCEPT ![Min(FreeHandles)] = Socket(kind)]

udp_socket == ensure_up /\ sockets' = AddSocket("Udp")
tcp_socket == ensure_up /\ sockets' = AddSocket("Tcp")

alloc_fd(p, entry) == fds' = [fds EXCEPT ![p][Min(FreeFds(p))] = entry]

sys_socket(p, kind) ==
    /\ Ready(p)
    /\ FreeFds(p) # {}
    /\ Counted
    /\ made < MaxSockets /\ made' = made + 1      \* bound
    /\ \/ kind = "Udp" /\ udp_socket
       \/ kind = "Tcp" /\ tcp_socket
    /\ alloc_fd(p, [kind |-> kind, handle |-> Min(FreeHandles), id |-> made + 1])
    /\ UNCHANGED <<alive, call, ctr, network, history>>

\* alloc_fd finds no room: the entry is dropped, and the new socket with it.
sys_socket_EMFILE(p) ==
    /\ Ready(p)
    /\ FreeFds(p) = {}
    /\ ensure_up
    /\ UNCHANGED <<alive, sockets, fds, call, ctr, network, steps, made, history>>

\* socket_handle: the descriptor's socket, for a call that its kind allows.
UseSocket(p, f, kind) ==
    /\ Ready(p)
    /\ fds[p][f] # NoFd /\ fds[p][f].kind = kind
    /\ Counted

\* Mutant: every program gets the same port.
next_ephemeral_port_fixed(n) == 1

next_ephemeral_port(n) == 1 + (n % EPHEMERAL_SPAN)

(***************************************************************************)
(* Datagrams.                                                                *)
(***************************************************************************)
\* EINVAL, and nothing bound, on a socket that has a port.
udp_bind(h, port) ==
    sockets' = IF sockets[h].port = 0 THEN [sockets EXCEPT ![h].port = port] ELSE sockets

sys_bind(p, f, port) ==
    /\ UseSocket(p, f, "Udp")
    /\ udp_bind(fds[p][f].handle, port)
    /\ UNCHANGED <<alive, up, fds, call, ctr, network, made, history>>

\* addressable: does the stack take the destination?
udp_sendto(p, f, addressable) ==
    /\ UseSocket(p, f, "Udp")
    /\ LET h == fds[p][f].handle
           bind == sockets[h].port = 0
           s == IF bind THEN [sockets[h] EXCEPT !.port = next_ephemeral_port(ctr), !.turn = ctr + 1]
                ELSE sockets[h]
           queued == addressable /\ s.tx < Capacity
           st == [Stack EXCEPT !.sockets[h] = IF queued THEN [s EXCEPT !.tx = @ + 1] ELSE s]
       IN  /\ bind => ctr < MaxPorts
           /\ ctr' = IF bind THEN ctr + 1 ELSE ctr
           /\ \E next \in IF queued THEN poll(st) ELSE {st} : Becomes(next)
    /\ UNCHANGED <<alive, up, fds, call, made, history>>

(***************************************************************************)
(* One turn of a blocking call: the stack polled, the socket looked at, and  *)
(* the call over, out of time or waiting for its next turn.                  *)
(***************************************************************************)
Return(p) == call' = [call EXCEPT ![p] = NoCall]
yield_now(p, c) == call' = [call EXCEPT ![p] = c]

\* Mutant: the deadline is not looked at.
WaitForever(p, c) == yield_now(p, c)

Wait(p, c) == IF c.left = 0 THEN Return(p) ELSE yield_now(p, c)

\* Mutant: recv leaves in the ring what it returned.
TakenNot(st, h, n) == st

Taken(st, h, n) == [st EXCEPT !.sockets[h].rx = SubSeq(@, n + 1, Len(@))]

\* The program's buffer may not be there to copy the datagram to (EFAULT).
udp_recvfrom(p, c) ==
    \E st \in poll(Stack) :
        LET s == st.sockets[c.handle] IN
        /\ IF can_recv(s)
           THEN /\ Becomes(Taken(st, c.handle, 1))
                /\ Return(p)
                /\ \/ answers' = answers \cup {[asked |-> Head(s.rx), got |-> s.turn]}
                   \/ UNCHANGED answers
           ELSE /\ Becomes(st)
                /\ Wait(p, c)
                /\ UNCHANGED answers
        /\ UNCHANGED <<alive, up, fds, ctr, made, untold, read, spoilt, ended>>

(***************************************************************************)
(* Streams.                                                                  *)
(***************************************************************************)
ConnectTurn(p, c, st0) ==
    \E st \in poll(st0) :
        LET s == st.sockets[c.handle] IN
        /\ Becomes(st)
        /\ IF may_send(s) \/ ~is_active(s) THEN Return(p) ELSE Wait(p, c)
        /\ UNCHANGED <<alive, up, fds, made, history>>

\* A port is drawn whether or not the stack takes the connection (EINVAL); the
\* first turn follows at once on the SYN being queued.
tcp_connect(p, end, addressable) ==
    /\ ctr < MaxPorts                              \* bound
    /\ ctr' = ctr + 1
    /\ LET h == end.handle
           s == [sockets[h] EXCEPT !.port = next_ephemeral_port(ctr), !.turn = ctr + 1,
                                   !.state = "SynSent", !.rx = <<>>, !.tx = 0]
       IN  IF addressable /\ ~is_active(sockets[h])
           THEN ConnectTurn(p, Call("connect", end, 0), [Stack EXCEPT !.sockets[h] = s])
           ELSE UNCHANGED <<alive, up, sockets, fds, call, network, made, history>>

sys_connect(p, f, addressable) ==
    /\ UseSocket(p, f, "Tcp")
    /\ tcp_connect(p, fds[p][f], addressable)

\* What send returns: an error (nothing) only when nothing was sent.
SendResult(c) == c.sent

tcp_send(p, c) ==
    LET h == c.handle
        s == sockets[h]
        n == IF can_send(s) THEN Min({c.want - c.sent, Capacity - s.tx}) ELSE 0
        d == [c EXCEPT !.sent = @ + n]
    IN  /\ IF may_send(s) THEN \E st \in poll([Stack EXCEPT !.sockets[h].tx = @ + n]) : Becomes(st)
                          ELSE UNCHANGED <<sockets, network>>
        /\ IF ~may_send(s) \/ d.sent >= d.want \/ d.left = 0
           THEN Return(p) /\ untold' = [untold EXCEPT ![p] = @ + n - SendResult(d)]
           ELSE yield_now(p, d) /\ untold' = [untold EXCEPT ![p] = @ + n]
        /\ UNCHANGED <<alive, up, fds, ctr, made, read, spoilt, ended, answers>>

tcp_recv(p, c) ==
    \E st \in poll(Stack) :
        LET s == st.sockets[c.handle]
            n == Min({c.want, Len(s.rx)}) IN
        /\ IF can_recv(s)
           THEN /\ Becomes(Taken(st, c.handle, n))
                /\ Return(p)
                /\ \/ read' = [read EXCEPT ![s.turn] = @ \o SubSeq(s.rx, 1, n)] /\ UNCHANGED spoilt
                   \/ spoilt' = spoilt \cup {s.turn} /\ UNCHANGED read
           ELSE /\ Becomes(st)
                /\ IF may_recv(s) THEN Wait(p, c) ELSE Return(p)
                /\ UNCHANGED <<read, spoilt>>
        /\ ended' = IF s.state = "CloseWait" /\ ~can_recv(s) THEN ended \cup {s.turn} ELSE ended
        /\ UNCHANGED <<alive, up, fds, ctr, made, untold, answers>>

(***************************************************************************)
(* The system calls take the first turn themselves; the others come when the *)
(* scheduler lets the process run again.                                     *)
(***************************************************************************)
Turn(p, c) ==
    \/ c.op = "recvfrom" /\ udp_recvfrom(p, c)
    \/ c.op = "connect" /\ UNCHANGED ctr /\ ConnectTurn(p, c, Stack)
    \/ c.op = "send" /\ tcp_send(p, c)
    \/ c.op = "recv" /\ tcp_recv(p, c)

Resume(p) ==
    /\ call[p] # NoCall
    /\ Turn(p, call[p])
    /\ UNCHANGED steps

sys_recvfrom(p, f) ==
    \/ UseSocket(p, f, "Udp") /\ udp_recvfrom(p, Call("recvfrom", fds[p][f], 1))
    \/ UseSocket(p, f, "Tcp") /\ tcp_recv(p, Call("recv", fds[p][f], 1))

sys_sendto(p, f, chunks) ==
    UseSocket(p, f, "Tcp") /\ tcp_send(p, Call("send", fds[p][f], chunks))

\* Thread 0 runs with interrupts on, and the clock with it.
Tick ==
    /\ \E p \in Procs : call[p] # NoCall /\ call[p].left > 0
    /\ call' = [p \in Procs |-> IF call[p] # NoCall /\ call[p].left > 0
                                THEN [call[p] EXCEPT !.left = @ - 1] ELSE call[p]]
    /\ UNCHANGED <<alive, up, sockets, fds, ctr, network, steps, made, history>>

(***************************************************************************)
(* The network (external): it may answer what it was asked, more than once   *)
(* and late, or not at all.                                                  *)
(***************************************************************************)
Arrives(frame) ==
    /\ alive # {}
    /\ incoming' = Append(incoming, frame)
    /\ UNCHANGED <<alive, up, sockets, fds, call, ctr, arp, asked, made, history>>

Neighbour ==
    /\ up /\ ~arp
    /\ \A i \in DOMAIN incoming : incoming[i].what # "ARP"
    /\ \E h \in Handles : sockets[h] # NoSocket /\ (sockets[h].tx > 0 \/ sockets[h].state = "SynSent")
    /\ Arrives(Frame("Arp", "ARP", 0, 0))
    /\ UNCHANGED <<peers, steps>>

Answer(a) ==
    /\ Counted
    /\ Arrives(Frame("Udp", "answer", a.port, a.turn))
    /\ UNCHANGED peers

PeerSends(t, from, to, what) ==
    /\ peers[t].state = from
    /\ peers' = [peers EXCEPT ![t].state = to, ![t].sent = IF what = "data" THEN @ + 1 ELSE @]
    /\ Arrives(Frame("Tcp", what, peers[t].sent + 1, t))

\* The peer keeps to the window it was given.
Unread(t) == peers[t].sent - Len(read[t])

\* A segment for a connection that is gone changes nothing.
Connection(t) == {h \in Handles : sockets[h].kind = "Tcp" /\ sockets[h].turn = t}

Peer(t) ==
    /\ Connection(t) # {}
    /\ \/ PeerSends(t, "asked", "open", "SYN") /\ UNCHANGED steps
       \/ /\ Counted
          /\ \/ PeerSends(t, "asked", "gone", "RST")
             \/ Unread(t) < Capacity /\ PeerSends(t, "open", "open", "data")
             \/ (\E h \in Connection(t) : sockets[h].tx > 0) /\ PeerSends(t, "open", "open", "ACK")
             \/ PeerSends(t, "open", "gone", "FIN")
             \/ PeerSends(t, "open", "gone", "RST")

SocketsNext ==
    \/ \E p \in Procs :
        \/ sys_socket_ENETDOWN(p)
        \/ \E kind \in Kinds : sys_socket(p, kind)
        \/ sys_socket_EMFILE(p)
        \/ \E child \in Procs : fork_fds(p, child)
        \/ release_current_process_fds(p)
        \/ Kill(p)
        \/ forget_process(p)
        \/ Resume(p)
        \/ \E f \in FdNums :
            \/ sys_close(p, f)
            \/ \E new \in FdNums : sys_dup2(p, f, new)
            \/ \E port \in BindPorts : sys_bind(p, f, port)
            \/ \E ok \in BOOLEAN : udp_sendto(p, f, ok)
            \/ \E ok \in BOOLEAN : sys_connect(p, f, ok)
            \/ sys_recvfrom(p, f)
            \/ \E chunks \in 1 .. Capacity + 1 : sys_sendto(p, f, chunks)
    \/ Tick
    \/ Neighbour
    \/ \E a \in asked : Answer(a)
    \/ \E t \in Turns : Peer(t)

\* A runnable process gets its turn, and thread 0 too: the scheduler goes round.
\* Of the turns of a call, it is enough that one comes after its time is up.
LastTurn(p) == call[p] # NoCall /\ call[p].left = 0 /\ Resume(p)

SocketsSpec ==
    /\ SocketsInit /\ [][SocketsNext]_socketVars
    /\ WF_socketVars(Tick)
    /\ \A p \in Procs : WF_socketVars(LastTurn(p))

(***************************************************************************)
(* Properties.                                                               *)
(***************************************************************************)
\* Types, and the limits of the buffers: smoltcp's rings are never overfilled.
SocketsTypeOK ==
    /\ alive \subseteq Procs /\ up \in BOOLEAN /\ arp \in BOOLEAN
    /\ ctr \in 0 .. MaxPorts /\ steps \in 0 .. MaxSteps
    /\ \A h \in Handles : sockets[h] # NoSocket =>
        /\ up
        /\ sockets[h].kind \in Kinds /\ sockets[h].id \in 1 .. made
        /\ sockets[h].state \in {"Closed", "SynSent", "Established", "CloseWait"}
        /\ Len(sockets[h].rx) <= Capacity /\ sockets[h].tx \in 0 .. Capacity
    /\ \A p \in Procs : call[p] # NoCall =>
        /\ p \in alive
        /\ call[p].op \in {"recvfrom", "connect", "send", "recv"}
        /\ call[p].left \in 0 .. TIMEOUT /\ call[p].sent \in 0 .. call[p].want

\* The stack holds a socket as long as some descriptor of some process refers
\* to it and no longer (nothing leaks, also after EMFILE, kill and reap), and
\* the handle that a call keeps across its yields is still that socket, of the
\* type that get_mut::<T> asks for, whatever others closed or made meanwhile:
\* otherwise get_mut panics or the call reads another program's socket.
HandlesSound ==
    /\ \A h \in Handles : sockets[h] # NoSocket <=>
        \E e \in Entries(fds) : fds[e[1]][e[2]].handle = h
    /\ \A e \in Entries(fds) :
        LET fd == fds[e[1]][e[2]]
        IN  sockets[fd.handle].kind = fd.kind /\ sockets[fd.handle].id = fd.id
    /\ \A p \in Procs : call[p] # NoCall =>
        LET s == sockets[call[p].handle]
        IN  /\ s # NoSocket /\ s.id = call[p].id
            /\ s.kind = IF call[p].op = "recvfrom" THEN "Udp" ELSE "Tcp"

\* A socket that was given its port never reads an answer to another one that
\* was given its port, however late the answer and whatever was closed between:
\* unless the ports went once round between the two (EPHEMERAL_SPAN).
OwnAnswers ==
    \A a \in answers :
        a.asked # 0 /\ a.got # 0 /\ a.asked # a.got =>
            \/ a.got >= a.asked + EPHEMERAL_SPAN
            \/ a.asked >= a.got + EPHEMERAL_SPAN

\* What recv returned on a connection, to all the processes that share it, is
\* what the peer sent, in order and once, unless a result could not be copied
\* out; 0 after the peer closed means that all of it was read; and send
\* accounts for every chunk that it put into the stream, also when the
\* connection ends or time runs out halfway.
StreamSound ==
    /\ \A t \in Turns \ spoilt :
        /\ \A i \in DOMAIN read[t] : read[t][i] = i
        /\ Len(read[t]) <= peers[t].sent
        /\ t \in ended => Len(read[t]) = peers[t].sent
    /\ \A p \in Procs :
        untold[p] = IF call[p] = NoCall THEN 0 ELSE call[p].sent

\* No blocking call waits for ever: each returns, or its process is killed,
\* whatever the network does (the deadline is looked at in every turn, and
\* the clock runs while the call has yielded).
SocketCallsReturn ==
    \A p \in Procs : (call[p] # NoCall) ~> (call[p] = NoCall)
=============================================================================
