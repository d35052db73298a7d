-------------------------------- MODULE Tcp --------------------------------
(***************************************************************************)
(* The TCP of GLM OS (src/src/net/tcp.rs), run by the hosts of a network    *)
(* that may lose, duplicate and reorder segments.                          *)
(*                                                                         *)
(* What the code does under TCP_LOCK is one action.  Every segment is sent  *)
(* after the lock is dropped (ARP may sleep): it waits in `out' of the task *)
(* that sends it, an application or the netd of a host, until Transmit.     *)
(* The tick of netd decides under the lock, drops it and acts under it      *)
(* again, which is `ticking'.  Time is left out: a timer may be due whenever *)
(* it is armed (only when the network is quiet, if Patient).  The rings are *)
(* the sequences of the bytes in them; a byte is <<writer, position>>.      *)
(***************************************************************************)
EXTENDS Integers, Sequences, FiniteSets

CONSTANTS
    Hosts,       \* machines that run this code
    Apps,        \* the programs
    HostOf,      \* the machine of a program
    Role,        \* "client" or "server"
    ServerOf,    \* the machine a client connects to
    Writers,     \* the programs that write
    Closers,     \* the programs that close their connections
    Leavers,     \* the servers that close their listener
    NSock,       \* NSOCK
    Mss,         \* MSS
    TxCap,       \* TX_CAP
    RxCap,       \* RX_CAP
    MaxRetries,  \* the 8 retransmissions of tick
    SeqMod,      \* sequence numbers are modulo this (2^32)
    IssStart,    \* ISS_NEXT at boot
    IssStep,     \* the 64000 ISS_NEXT advances by
    MaxBytes,    \* bound: bytes a program writes to a connection
    MaxNet,      \* bound: segments on their way to a machine, more are lost
    Faults,      \* what the network does: "lose", "dup", "swap"
    MaxFaults,   \* bound: how often it does so
    Patient      \* TRUE if timers are longer than every round trip

Ids == 0..(NSock - 1)
SeqNos == 0..(SeqMod - 1)
Port == 80           \* the port servers listen on
FirstEphemeral == 100
NoHost == "none"     \* peer_ip = 0

ASSUME TcpAssumption ==
    /\ NSock \in Nat \ {0} /\ Mss \in Nat \ {0} /\ TxCap \in Nat \ {0} /\ RxCap \in Nat \ {0}
    /\ MaxRetries \in Nat /\ SeqMod \in Nat \ {0} /\ IssStart \in SeqNos /\ IssStep \in Nat
    /\ TxCap < SeqMod
    /\ MaxBytes \in Nat /\ MaxNet \in Nat /\ MaxFaults \in Nat /\ Patient \in BOOLEAN
    /\ HostOf \in [Apps -> Hosts] /\ Role \in [Apps -> {"client", "server"}]
    /\ ServerOf \in [Apps -> Hosts] /\ Writers \subseteq Apps /\ Closers \subseteq Apps /\ Leavers \subseteq Apps
    /\ NoHost \notin Hosts
    /\ Apps \cap Hosts = {} /\ Faults \subseteq {"lose", "dup", "swap"}
    /\ \A a \in Apps : Role[a] = "client" => ServerOf[a] # HostOf[a]

VARIABLES
    socks,    \* SOCKS of each machine
    ctr,      \* EPHEMERAL and ISS_NEXT of each machine
    app,      \* what each program is doing
    out,      \* the segment a program or a netd is about to send
    ticking,  \* the TickAction a netd has decided on
    net,      \* segments on their way to each machine
    faults,   \* faults of the network so far
    crashed   \* machines that panicked (overflow checks are on)

vars == <<socks, ctr, app, out, ticking, net, faults, crashed>>

fresh == [used |-> FALSE, st |-> "Free", lport |-> 0, peer |-> NoHost, pport |-> 0,
          iss |-> 0, una |-> 0, nxt |-> 0, rcv |-> 0, tx |-> <<>>, rx |-> <<>>,
          eof |-> FALSE, retries |-> 0, pend |-> 0]

NoTick == [kind |-> "none"]

Init ==
    /\ socks = [h \in Hosts |-> [i \in Ids |-> fresh]]
    /\ ctr = [h \in Hosts |-> [eph |-> FirstEphemeral, iss |-> IssStart]]
    /\ app = [a \in Apps |-> [pc |-> "start", id |-> 0, lid |-> 0, wrote |-> 0, got |-> <<>>,
                              eof |-> FALSE]]
    /\ out = [x \in Apps \cup Hosts |-> <<>>]
    /\ ticking = [h \in Hosts |-> NoTick]
    /\ net = [h \in Hosts |-> <<>>]
    /\ faults = 0
    /\ crashed = {}

Plus(seq, n) == (seq + n) % SeqMod
Minus(seq, n) == (seq - n) % SeqMod
Least(m, n) == IF m < n THEN m ELSE n
First(S) == CHOOSE i \in S : \A j \in S : i <= j
FreeIds(h) == {i \in Ids : ~socks[h][i].used}

\* A segment of socket s of machine h to its peer.
Seg(h, s, seq, ack, flags, data) ==
    [src |-> h, sport |-> s.lport, dst |-> s.peer, dport |-> s.pport, seq |-> seq, ack |-> ack,
     flags |-> flags, data |-> data]

Put(h, i, s) == socks' = [socks EXCEPT ![h][i] = s]
Freed(s) == [s EXCEPT !.used = FALSE, !.st = "Free"]

-----------------------------------------------------------------------------
(* System calls.  A program makes the next one when the last one returned.  *)

Sock(a) == socks[HostOf[a]][app[a].id]
Calls(a, pc) == app[a].pc = pc /\ out[a] = <<>> /\ HostOf[a] \notin crashed
Goto(a, pc) == app' = [app EXCEPT ![a].pc = pc]

Listen(a) ==
    LET h == HostOf[a]
    IN  /\ Calls(a, "start") /\ Role[a] = "server"
        /\ IF FreeIds(h) # {} /\ \A i \in Ids : ~(socks[h][i].used /\ socks[h][i].lport = Port)
           THEN /\ Put(h, First(FreeIds(h)),
                       [fresh EXCEPT !.used = TRUE, !.st = "Listen", !.lport = Port])
                /\ app' = [app EXCEPT ![a].pc = "accepting", ![a].lid = First(FreeIds(h))]
           ELSE Goto(a, "done") /\ UNCHANGED socks
        /\ UNCHANGED <<ctr, out, ticking, net, faults, crashed>>

Connect(a) ==
    LET h == HostOf[a]
        s == [fresh EXCEPT !.used = TRUE, !.st = "SynSent", !.lport = ctr[h].eph,
                           !.peer = ServerOf[a], !.pport = Port, !.iss = ctr[h].iss,
                           !.una = ctr[h].iss, !.nxt = Plus(ctr[h].iss, 1)]
    IN  /\ Calls(a, "start") /\ Role[a] = "client"
        /\ IF FreeIds(h) # {}
           THEN /\ Put(h, First(FreeIds(h)), s)
                /\ ctr' = [ctr EXCEPT ![h] = [eph |-> @.eph + 1, iss |-> Plus(@.iss, IssStep)]]
                /\ out' = [out EXCEPT ![a] = <<Seg(h, s, s.iss, 0, {"SYN"}, <<>>)>>]
                /\ app' = [app EXCEPT ![a].pc = "connecting", ![a].id = First(FreeIds(h))]
           ELSE Goto(a, "done") /\ UNCHANGED <<socks, ctr, out>>
        /\ UNCHANGED <<ticking, net, faults, crashed>>

Quiet == /\ \A h \in Hosts : net[h] = <<>> /\ ticking[h] = NoTick
         /\ \A x \in Apps \cup Hosts : out[x] = <<>>

\* The loop of connect finds the slot freed or established.
ConnectReturns(a) ==
    /\ Calls(a, "connecting")
    /\ ~Sock(a).used \/ Sock(a).st = "Estab"
    /\ Goto(a, IF Sock(a).used THEN "open" ELSE "done")
    /\ UNCHANGED <<socks, ctr, out, ticking, net, faults, crashed>>

\* It finds neither, and that the 8 s are over; the lock is dropped in between.
ConnectExpires(a) ==
    /\ Calls(a, "connecting")
    /\ Sock(a).used /\ Sock(a).st # "Estab"
    /\ Patient => Quiet
    /\ Goto(a, "expired")
    /\ UNCHANGED <<socks, ctr, out, ticking, net, faults, crashed>>

\* Mutant: a slot whose handshake ended meanwhile is left alone.
ConnectTimeoutPolite(a) ==
    /\ Calls(a, "expired")
    /\ IF Sock(a).st = "SynSent" THEN Put(HostOf[a], app[a].id, Freed(Sock(a)))
       ELSE UNCHANGED socks
    /\ Goto(a, "done")
    /\ UNCHANGED <<ctr, out, ticking, net, faults, crashed>>

\* The time-out frees the slot, whatever it has become by then.
ConnectTimeout(a) ==
    /\ Calls(a, "expired")
    /\ Put(HostOf[a], app[a].id, Freed(Sock(a)))
    /\ Goto(a, "done")
    /\ UNCHANGED <<ctr, out, ticking, net, faults, crashed>>

\* accept returns; a pend_id of 0 means that nothing is pending.
Accept(a) ==
    LET h == HostOf[a]
        l == socks[h][app[a].lid]
    IN  /\ Calls(a, "accepting")
        /\ \/ ~l.used /\ Goto(a, "done") /\ UNCHANGED socks
           \/ /\ l.used /\ l.pend # 0
              /\ Put(h, app[a].lid, [l EXCEPT !.pend = 0])
              /\ app' = [app EXCEPT ![a] = [@ EXCEPT !.pc = "open", !.id = l.pend, !.wrote = 0,
                                                     !.got = <<>>, !.eof = FALSE]]
        /\ UNCHANGED <<ctr, out, ticking, net, faults, crashed>>

Connected(s) == s.used /\ s.st \in {"Estab", "CloseWait"}

(* send keeps what the ring has room for and advances snd_nxt by that, but   *)
(* transmits, and answers for, all it was given.                            *)
Send(a) ==
    LET h == HostOf[a]
        s == Sock(a)
    IN  /\ Calls(a, "open") /\ a \in Writers /\ Connected(s)
        /\ \E len \in 1..Mss :
              LET data == [k \in 1..len |-> <<a, app[a].wrote + k>>]
                  n == Least(len, TxCap - Len(s.tx))
              IN  /\ app[a].wrote + len <= MaxBytes /\ n > 0
                  /\ Put(h, app[a].id, [s EXCEPT !.tx = @ \o SubSeq(data, 1, n),
                                                 !.nxt = Plus(@, n)])
                  /\ out' = [out EXCEPT ![a] = <<Seg(h, s, s.nxt, 0, {"ACK", "PSH"}, data)>>]
                  /\ app' = [app EXCEPT ![a].wrote = @ + len]
        /\ UNCHANGED <<ctr, ticking, net, faults, crashed>>

\* The socket after n bytes are popped.
Popped(s, n) == [s EXCEPT !.rx = SubSeq(@, n + 1, Len(@))]

(* recv returns bytes, also from a socket that was freed meanwhile, or -1,   *)
(* or end of file; otherwise it sleeps and looks again.                     *)
Recv(a) ==
    LET s == Sock(a)
    IN  /\ Calls(a, "open")
        /\ \/ \E n \in 1..Least(Mss, Len(s.rx)) :
                 /\ Put(HostOf[a], app[a].id, Popped(s, n))
                 /\ app' = [app EXCEPT ![a].got = @ \o SubSeq(s.rx, 1, n)]
           \/ /\ s.rx = <<>> /\ ~s.used
              /\ Goto(a, "done") /\ UNCHANGED socks
           \/ /\ s.rx = <<>> /\ s.used /\ (s.eof \/ s.st = "CloseWait") /\ ~app[a].eof
              /\ app' = [app EXCEPT ![a].eof = TRUE] /\ UNCHANGED socks
        /\ UNCHANGED <<ctr, out, ticking, net, faults, crashed>>

(* close sends one FIN and frees the slot with whatever is unacknowledged.   *)
(* A server then accepts again; it may also close its listener, whose last   *)
(* peer gets a FIN too.                                                     *)
Close(a) ==
    \E call \in {[pc |-> "open", id |-> app[a].id],
                 [pc |-> "accepting", id |-> app[a].lid]} :
        LET h == HostOf[a]
            s == socks[h][call.id]
            flags == IF s.rcv = 0 THEN {"FIN"} ELSE {"FIN", "ACK"}
        IN  /\ Calls(a, call.pc)
            /\ a \in (IF call.pc = "open" THEN Closers ELSE Leavers)
            /\ Goto(a, IF call.pc = "open" /\ Role[a] = "server" THEN "accepting" ELSE "done")
            /\ IF s.used
               THEN /\ Put(h, call.id, Freed(s))
                    /\ out' = IF s.peer = NoHost THEN out
                              ELSE [out EXCEPT ![a] = <<Seg(h, s, s.nxt, s.rcv, flags, <<>>)>>]
               ELSE UNCHANGED <<socks, out>>
            /\ UNCHANGED <<ctr, ticking, net, faults, crashed>>

\* poll_ready(id) = 1.
PollReady(s) ==
    \/ ~s.used
    \/ s.st = "Listen" /\ s.pend # 0
    \/ s.st = "Estab" /\ s.rx # <<>>
    \/ s.st \in {"CloseWait", "FinWait"}

-----------------------------------------------------------------------------
(* netd: segments that arrive.  Reply says what is sent after the unlock.   *)

Reply(h, segs) == out' = [out EXCEPT ![h] = segs]
Post(h, i, s, segs) == Put(h, i, s) /\ Reply(h, segs)

\* SYN on a listener: the listener itself holds the handshake.
handle_syn(h, i, seg) ==
    LET s == [socks[h][i] EXCEPT !.st = "SynRcvd", !.peer = seg.src, !.pport = seg.sport,
                                 !.iss = ctr[h].iss, !.una = ctr[h].iss,
                                 !.nxt = Plus(ctr[h].iss, 1), !.rcv = Plus(seg.seq, 1)]
    IN  /\ Post(h, i, s, <<Seg(h, s, s.iss, s.rcv, {"SYN", "ACK"}, <<>>)>>)
        /\ ctr' = [ctr EXCEPT ![h].iss = Plus(@, IssStep)]

\* SYN|ACK for our SYN.
Establish(h, i, seg) ==
    LET s == [socks[h][i] EXCEPT !.rcv = Plus(seg.seq, 1), !.una = seg.ack, !.st = "Estab"]
    IN  Post(h, i, s, <<Seg(h, s, s.nxt, s.rcv, {"ACK"}, <<>>)>>)

(* The ACK of our SYN|ACK: a fresh socket gets the connection and the        *)
(* listener remembers it; without a free slot the connection is reset.      *)
Promote(h, i, seg) ==
    LET s == [socks[h][i] EXCEPT !.una = seg.ack, !.st = "Listen"]
        ni == First(FreeIds(h))
        child == [fresh EXCEPT !.used = TRUE, !.st = "Estab", !.lport = s.lport,
                               !.peer = s.peer, !.pport = s.pport, !.iss = s.iss,
                               !.una = seg.ack, !.nxt = seg.ack, !.rcv = s.rcv]
    IN  IF FreeIds(h) = {}
        THEN Post(h, i, s, <<Seg(h, s, seg.ack, 0, {"RST"}, <<>>)>>)
        ELSE /\ socks' = [socks EXCEPT ![h][i] = [s EXCEPT !.pend = ni], ![h][ni] = child]
             /\ Reply(h, <<>>)

(* Two u32 differences, each widened to i64 before it is compared with 0:    *)
(* the acknowledgement must be news and cover everything sent.              *)
AckAdvances(s, seg) ==
    /\ "ACK" \in seg.flags
    /\ Minus(seg.ack, s.una) > 0 /\ Minus(seg.ack, s.nxt) <= 0

\* Mutant: acknowledged bytes stay in the ring.
AckedKept(s, seg) ==
    IF AckAdvances(s, seg) THEN [s EXCEPT !.una = seg.ack, !.retries = 0] ELSE s

\* Mutant: an acknowledgement of part of what was sent frees all of it.
AckedAll(s, seg) ==
    IF "ACK" \in seg.flags /\ seg.ack # 0
    THEN [s EXCEPT !.tx = <<>>, !.una = s.nxt, !.retries = 0] ELSE s

Acked(s, seg) ==
    IF AckAdvances(s, seg)
    THEN [s EXCEPT !.tx = SubSeq(@, Least(Minus(seg.ack, s.una), Len(@)) + 1, Len(@)),
                   !.una = seg.ack, !.retries = 0]
    ELSE s

\* Mutant: a gap is not noticed.
TookAnything(s, seg) ==
    LET take == Least(Len(seg.data), RxCap - Len(s.rx))
    IN  [s EXCEPT !.rx = @ \o SubSeq(seg.data, 1, take), !.rcv = Plus(@, take)]

\* In-order bytes are kept as far as they fit, all others are dropped.
Took(s, seg) ==
    LET take == Least(Len(seg.data), RxCap - Len(s.rx))
    IN  IF seg.seq # s.rcv THEN s
        ELSE [s EXCEPT !.rx = @ \o SubSeq(seg.data, 1, take), !.rcv = Plus(@, take)]

\* A FIN is taken wherever it is in the sequence.
Finished(s, seg) ==
    IF "FIN" \notin seg.flags THEN s
    ELSE [s EXCEPT !.rcv = Plus(@, 1), !.st = "CloseWait", !.eof = @ \/ s.st = "Estab"]

\* ack - una overflows: the kernel is built with overflow checks.
Panics(s, seg) == AckAdvances(s, seg) /\ seg.ack < s.una

InStream(h, i, seg) ==
    LET s == Finished(Took(Acked(socks[h][i], seg), seg), seg)
    IN  IF Panics(socks[h][i], seg)
        THEN crashed' = crashed \cup {h} /\ UNCHANGED <<socks, out>>
        ELSE /\ Put(h, i, s)
             /\ Reply(h, IF seg.data = <<>> /\ "FIN" \notin seg.flags THEN <<>>
                         ELSE <<Seg(h, s, s.nxt, s.rcv, {"ACK"}, <<>>)>>)
             /\ UNCHANGED crashed

\* The sockets a segment belongs to (St::FinWait is never entered), and the listeners.
Matching(h, seg) ==
    {i \in Ids : LET c == socks[h][i]
                 IN  /\ c.used /\ c.lport = seg.dport /\ c.peer = seg.src /\ c.pport = seg.sport
                     /\ c.st \in {"SynSent", "SynRcvd", "Estab", "CloseWait"}}
Listening(h, seg) ==
    {i \in Ids : LET c == socks[h][i] IN c.used /\ c.st = "Listen" /\ c.lport = seg.dport}

handle_inband(h, i, seg) ==
    LET s == socks[h][i]
    IN  \/ /\ "RST" \in seg.flags
           /\ Put(h, i, Freed(s)) /\ UNCHANGED <<out, crashed>>
        \/ /\ "RST" \notin seg.flags /\ s.st \in {"Estab", "CloseWait"}
           /\ InStream(h, i, seg)
        \/ /\ "RST" \notin seg.flags /\ s.st = "SynSent"
           /\ IF "SYN" \in seg.flags /\ seg.ack = s.nxt THEN Establish(h, i, seg)
              ELSE UNCHANGED <<socks, out>>
           /\ UNCHANGED crashed
        \/ /\ "RST" \notin seg.flags /\ s.st = "SynRcvd"
           /\ IF "ACK" \in seg.flags /\ seg.ack = s.nxt THEN Promote(h, i, seg)
              ELSE UNCHANGED <<socks, out>>
           /\ UNCHANGED crashed

Netd(h) == out[h] = <<>> /\ ticking[h] = NoTick /\ h \notin crashed

Ingress(h) ==
    LET seg == Head(net[h])
        mine == Matching(h, seg)
        listeners == Listening(h, seg)
    IN  /\ Netd(h) /\ net[h] # <<>>
        /\ net' = [net EXCEPT ![h] = Tail(@)]
        /\ \/ mine # {} /\ handle_inband(h, First(mine), seg) /\ UNCHANGED ctr
           \/ /\ mine = {} /\ listeners # {}
              /\ IF "SYN" \in seg.flags /\ "ACK" \notin seg.flags
                 THEN handle_syn(h, First(listeners), seg)
                 ELSE UNCHANGED <<socks, out, ctr>>
              /\ UNCHANGED crashed
           \/ /\ mine = {} /\ listeners = {}
              /\ Reply(h, IF "RST" \in seg.flags THEN <<>>
                          ELSE <<[src |-> h, sport |-> seg.dport, dst |-> seg.src,
                                  dport |-> seg.sport, seq |-> 0, ack |-> 0,
                                  flags |-> {"RST"}, data |-> <<>>]>>)
              /\ UNCHANGED <<socks, ctr, crashed>>
        /\ UNCHANGED <<app, ticking, faults>>

-----------------------------------------------------------------------------
(* netd: timers.                                                            *)

\* Mutant: retransmissions are not counted.
TickDueUncounted(h, i) ==
    /\ socks' = socks
    /\ ticking' = [ticking EXCEPT ![h] = [kind |-> "data", id |-> i, giveUp |-> FALSE]]

\* tick counts the retransmission and remembers what to do.
TickDue(h, i) ==
    LET s == socks[h][i]
    IN  /\ Put(h, i, [s EXCEPT !.retries = @ + 1])
        /\ ticking' = [ticking EXCEPT ![h] = [kind |-> IF s.st = "SynSent" THEN "syn" ELSE "data",
                                              id |-> i, giveUp |-> s.retries + 1 > MaxRetries]]

TickDecide(h) ==
    /\ Netd(h) /\ (Patient => Quiet)
    /\ \E i \in Ids :
          /\ socks[h][i].used
          /\ socks[h][i].st = "SynSent" \/ (Connected(socks[h][i]) /\ socks[h][i].tx # <<>>)
          /\ TickDue(h, i)
    /\ UNCHANGED <<ctr, app, out, net, faults, crashed>>

\* What it does with the slot, whoever has it by then.
TickAct(h) ==
    LET t == ticking[h]
        s == socks[h][t.id]
    IN  /\ t # NoTick /\ h \notin crashed
        /\ ticking' = [ticking EXCEPT ![h] = NoTick]
        /\ IF t.giveUp THEN Put(h, t.id, Freed(s)) /\ UNCHANGED out
           ELSE /\ Reply(h, IF t.kind = "syn" THEN <<Seg(h, s, s.iss, 0, {"SYN"}, <<>>)>>
                            ELSE <<Seg(h, s, s.una, 0, {"ACK", "PSH"},
                                       SubSeq(s.tx, 1, Least(Mss, Len(s.tx))))>>)
                /\ UNCHANGED socks
        /\ UNCHANGED <<ctr, app, net, faults, crashed>>

-----------------------------------------------------------------------------
(* The network.                                                             *)

\* send_seg, after the unlock; a machine with a full queue drops the segment.
Transmit(x) ==
    /\ out[x] # <<>>
    /\ out' = [out EXCEPT ![x] = <<>>]
    /\ LET seg == Head(out[x])
       IN  net' = IF seg.dst \notin Hosts \/ Len(net[seg.dst]) >= MaxNet THEN net
                  ELSE [net EXCEPT ![seg.dst] = Append(@, seg)]
    /\ UNCHANGED <<socks, ctr, app, ticking, faults, crashed>>

Misbehave(h) ==
    /\ faults < MaxFaults /\ net[h] # <<>>
    /\ faults' = faults + 1
    /\ \/ "lose" \in Faults /\ net' = [net EXCEPT ![h] = Tail(@)]
       \/ "dup" \in Faults /\ Len(net[h]) < MaxNet /\ net' = [net EXCEPT ![h] = Append(@, Head(@))]
       \/ "swap" \in Faults /\ Len(net[h]) > 1
          /\ net' = [net EXCEPT ![h] = Append(Tail(@), Head(@))]
    /\ UNCHANGED <<socks, ctr, app, out, ticking, crashed>>

Syscall(a) ==
    \/ Listen(a) \/ Connect(a) \/ ConnectReturns(a) \/ ConnectExpires(a) \/ ConnectTimeout(a)
    \/ Accept(a) \/ Send(a) \/ Recv(a) \/ Close(a)

Next ==
    \/ \E a \in Apps : Syscall(a)
    \/ \E h \in Hosts : Ingress(h) \/ TickDecide(h) \/ TickAct(h) \/ Misbehave(h)
    \/ \E x \in Apps \cup Hosts : Transmit(x)

Spec == Init /\ [][Next]_vars

(***************************************************************************)
(* Fairness: tasks get the CPU (ReadyRuns of Sched), so netd sends, handles *)
(* what arrived and finishes its ticks, its timers fire between segments,   *)
(* and a program that sleeps in a loop of connect, accept or recv looks     *)
(* again.                                                                  *)
(***************************************************************************)
NetdRuns(h) == Transmit(h) \/ Ingress(h) \/ TickAct(h)
CallRuns(a) ==
    \/ Transmit(a) \/ ConnectReturns(a) \/ ConnectExpires(a) \/ ConnectTimeout(a)
    \/ Accept(a) \/ Recv(a)

LiveSpec ==
    /\ Spec
    /\ \A h \in Hosts : WF_vars(NetdRuns(h)) /\ WF_vars(TickDecide(h))
    /\ \A a \in Apps : WF_vars(CallRuns(a))

\* Less is enough for what only timers bring about.
TimerSpec ==
    /\ Spec
    /\ \A h \in Hosts : WF_vars(Transmit(h)) /\ WF_vars(TickDecide(h)) /\ WF_vars(TickAct(h))

-----------------------------------------------------------------------------
(* Properties.                                                              *)

States == {"Free", "Listen", "SynSent", "SynRcvd", "Estab", "CloseWait"}

\* Every variable keeps its type; in particular the rings never overflow.
TypeOK ==
    /\ \A h \in Hosts : \A i \in Ids :
          LET s == socks[h][i]
          IN  /\ s.used \in BOOLEAN /\ s.st \in States /\ s.peer \in Hosts \cup {NoHost}
              /\ {s.iss, s.una, s.nxt, s.rcv} \subseteq SeqNos
              /\ Len(s.tx) <= TxCap /\ Len(s.rx) <= RxCap
              /\ s.retries \in 0..(MaxRetries + 1) /\ s.pend \in Ids
    /\ \A a \in Apps : app[a].id \in Ids /\ app[a].lid \in Ids /\ app[a].wrote \in 0..MaxBytes
    /\ \A h \in Hosts : ticking[h] = NoTick \/ ticking[h].id \in Ids
    /\ faults \in 0..MaxFaults /\ crashed \subseteq Hosts

(* "In-order byte stream": what a program has read from a connection is the  *)
(* beginning of what one program wrote to one, whatever the network does.   *)
StreamPrefix ==
    \A a \in Apps : app[a].got # <<>> =>
        \E w \in Apps : /\ Len(app[a].got) <= app[w].wrote
                        /\ \A k \in 1..Len(app[a].got) : app[a].got[k] = <<w, k>>

(* "The TX ring holds unacked bytes": the ring of a connection holds exactly *)
(* the bytes from snd_una to snd_nxt, so that a retransmission from snd_una  *)
(* carries the right bytes.                                                 *)
TxIsUnacked ==
    \A h \in Hosts : \A i \in Ids :
        Connected(socks[h][i])
        => Len(socks[h][i].tx) = Minus(socks[h][i].nxt, socks[h][i].una)

\* The two ends of one connection.
Ends(h, i, g, j) ==
    LET s == socks[h][i]
        t == socks[g][j]
    IN  /\ Connected(s) /\ Connected(t) /\ s.peer = g /\ t.peer = h
        /\ s.lport = t.pport /\ s.pport = t.lport

(* What one end counts as acknowledged the other end has received, and it    *)
(* has received no more than was sent: snd_una <= rcv_nxt <= snd_nxt.        *)
WindowsAgree ==
    \A h, g \in Hosts : \A i, j \in Ids :
        Ends(h, i, g, j) => Minus(socks[g][j].rcv, socks[h][i].una)
                            <= Minus(socks[h][i].nxt, socks[h][i].una)

(* "1 = a recv (or accept, for a listener) would return immediately, 0 =     *)
(* would block" (poll_ready), in every state a socket can get into.         *)
PollHonest ==
    \A h \in Hosts : \A i \in Ids :
        LET s == socks[h][i]
        IN  PollReady(s) <=> IF s.used /\ s.st = "Listen" THEN s.pend # 0
                             ELSE s.rx # <<>> \/ ~s.used \/ s.eof \/ s.st = "CloseWait"

\* No machine panics on the arithmetic of sequence numbers.
NoPanic == crashed = {}

\* The program has the socket as its own, or as the one its connect waits for.
Holds(a, h, i) ==
    HostOf[a] = h /\ app[a].id = i /\ app[a].pc \in {"connecting", "expired", "open"}

(* "Active open: ... 8 s give-up": a socket that connect opened is freed       *)
(* before the program that opened it turns away, however the give-up, a late  *)
(* SYN|ACK, the retransmissions and the reset of the tick follow one another; *)
(* no connection is left that nobody can close.                             *)
OpenedHeld ==
    \A h \in Hosts : \A i \in Ids :
        socks[h][i].used /\ socks[h][i].lport # Port => \E a \in Apps : Holds(a, h, i)

(* "8 retries -> reset": unacknowledged bytes are acknowledged in the end or *)
(* their connection is given up; nothing is retransmitted for ever.         *)
TxSettles ==
    \A h \in Hosts : \A i \in Ids :
        socks[h][i].used /\ socks[h][i].tx # <<>> ~> socks[h][i].tx = <<>> \/ ~socks[h][i].used

\* "The listener keeps listening": a handshake ends with the listener in Listen again.
ListenerReturns ==
    \A h \in Hosts : \A i \in Ids :
        socks[h][i].st = "SynRcvd" ~> socks[h][i].st # "SynRcvd"

(* "A full RX ring accepts what fits and ACKs only that, so the peer resends *)
(* the tail": what was written is read as long as the reader keeps reading.  *)
TailArrives ==
    \A w \in Writers : \A n \in 1..MaxBytes :
        app[w].wrote = n ~> \E a \in Apps : Len(app[a].got) >= n

(* "The completed connection becomes a fresh socket that accept() hands      *)
(* out": an established connection belongs to a program or waits for one.   *)
EstablishedReachable ==
    \A h \in Hosts : \A i \in Ids :
        Connected(socks[h][i])
        => \/ \E a \in Apps : Holds(a, h, i)
           \/ i # 0 /\ \E l \in Ids : socks[h][l].used /\ socks[h][l].pend = i
=============================================================================
