------------------------------ MODULE TcpProof ------------------------------
(***************************************************************************)
(* Proofs about Tcp: types and limits, that the TX ring of a connection     *)
(* holds the bytes from snd_una to snd_nxt, that poll_ready is honest, and  *)
(* that a socket connect opened never loses the program that can close it,  *)
(* whatever the network does and however the calls of the programs, the     *)
(* segments and the timers of netd interleave.                             *)
(***************************************************************************)
EXTENDS Tcp, WellFoundedInduction, TLAPS

-----------------------------------------------------------------------------
(* Numbers.                                                                 *)

\* The first member of a set of socket numbers.
LEMMA FirstIn ==
    ASSUME NEW S \in SUBSET Ids, S # {}
    PROVE  First(S) \in S
<1>1. S \in SUBSET Nat
  BY TcpAssumption DEF Ids
<1>2. PICK m \in S : \A j \in S : ~(<<j, m>> \in OpToRel(<, Nat))
  BY <1>1, NatLessThanWellFounded, WFMin
<1>3. \A j \in S : m <= j
  <2> TAKE j \in S
  <2>1. ~(j < m)
    BY <1>1, <1>2 DEF OpToRel
  <2> QED BY <1>1, <2>1
<1> QED BY <1>3 DEF First

\* A sequence number and what is added to it, or taken from it.
LEMMA Wrapped ==
    ASSUME NEW x \in SeqNos, NEW y \in SeqNos
    PROVE  /\ (x + y) % SeqMod = IF x + y < SeqMod THEN x + y ELSE x + y - SeqMod
           /\ (x - y) % SeqMod = IF x >= y THEN x - y ELSE x - y + SeqMod
BY TcpAssumption DEF SeqNos

\* Sequence numbers stay sequence numbers.
LEMMA SeqTypes ==
    ASSUME NEW x \in SeqNos, NEW n \in Nat
    PROVE  Plus(x, n) \in SeqNos /\ Minus(x, n) \in SeqNos
BY TcpAssumption DEF SeqNos, Plus, Minus

\* Sending advances the distance between snd_una and snd_nxt by what it sends.
LEMMA Advanced ==
    ASSUME NEW una \in SeqNos, NEW nxt \in SeqNos, NEW n \in Nat, Minus(nxt, una) + n < SeqMod
    PROVE  Minus(Plus(nxt, n), una) = Minus(nxt, una) + n
<1>1. Minus(nxt, una) \in SeqNos /\ n \in SeqNos
  BY SeqTypes, TcpAssumption DEF SeqNos
<1>2. Plus(nxt, n) \in SeqNos
  BY SeqTypes
<1>3. /\ Plus(nxt, n) = IF nxt + n < SeqMod THEN nxt + n ELSE nxt + n - SeqMod
      /\ Minus(nxt, una) = IF nxt >= una THEN nxt - una ELSE nxt - una + SeqMod
      /\ Minus(Plus(nxt, n), una) = IF Plus(nxt, n) >= una THEN Plus(nxt, n) - una
                                    ELSE Plus(nxt, n) - una + SeqMod
  BY <1>1, <1>2, Wrapped DEF Plus, Minus
<1> QED BY <1>1, <1>2, <1>3, TcpAssumption DEF SeqNos

\* The smaller of two numbers.
LEMMA LeastIs ==
    ASSUME NEW m \in Nat, NEW n \in Nat
    PROVE  Least(m, n) \in Nat /\ Least(m, n) <= m /\ Least(m, n) <= n
BY DEF Least

\* No distance means the same number.
LEMMA NoDistance ==
    ASSUME NEW x \in SeqNos, NEW y \in SeqNos
    PROVE  Minus(x, y) = 0 <=> x = y
BY Wrapped, TcpAssumption DEF Minus, SeqNos

-----------------------------------------------------------------------------
(* Types.                                                                   *)

Bytes == Apps \X Nat
Flags == {"SYN", "ACK", "FIN", "RST", "PSH"}
Places == Hosts \cup {NoHost}

Socks == [used : BOOLEAN, st : States, lport : Nat, peer : Places, pport : Nat,
          iss : SeqNos, una : SeqNos, nxt : SeqNos, rcv : SeqNos, tx : Seq(Bytes), rx : Seq(Bytes),
          eof : BOOLEAN, retries : Nat, pend : Ids]
Segs == [src : Hosts, sport : Nat, dst : Places, dport : Nat, seq : SeqNos, ack : SeqNos,
         flags : SUBSET Flags, data : Seq(Bytes)]
Programs == [pc : {"start", "connecting", "expired", "accepting", "open", "done"}, id : Ids, lid : Ids,
             wrote : 0..MaxBytes, got : Seq(Bytes), eof : BOOLEAN]
Ticks == {NoTick} \cup [kind : {"syn", "data"}, id : Ids, giveUp : BOOLEAN]

Typed ==
    /\ socks \in [Hosts -> [Ids -> Socks]]
    /\ ctr \in [Hosts -> [eph : Nat, iss : SeqNos]]
    /\ app \in [Apps -> Programs]
    /\ out \in [Apps \cup Hosts -> Seq(Segs)]
    /\ ticking \in [Hosts -> Ticks]
    /\ net \in [Hosts -> Seq(Segs)]
    /\ faults \in 0..MaxFaults /\ crashed \subseteq Hosts

(* What holds of a socket: its rings are within their limits, they are empty *)
(* before the connection is established, and the TX ring is what is           *)
(* unacknowledged.                                                          *)
Opening == {"Listen", "SynSent", "SynRcvd"}
Held(s) ==
    /\ Len(s.tx) <= TxCap /\ Len(s.rx) <= RxCap
    /\ s.used => s.st # "Free"
    /\ s.used /\ s.st \in Opening => s.tx = <<>> /\ s.rx = <<>>
    /\ s.used /\ s.st \in Opening \cup {"Estab"} => ~s.eof
    /\ Connected(s) => Len(s.tx) = Minus(s.nxt, s.una)
AllHeld == \A h \in Hosts, i \in Ids : Held(socks[h][i])

\* One retransmission too many is one that netd is about to give the connection up for.
Spent(h, i) == ticking[h] # NoTick /\ ticking[h].giveUp /\ ticking[h].id = i
RetriesOK ==
    \A h \in Hosts, i \in Ids :
        /\ socks[h][i].retries <= MaxRetries + 1
        /\ socks[h][i].used /\ socks[h][i].retries > MaxRetries => Spent(h, i)

-----------------------------------------------------------------------------
(* What the code does to one socket.                                        *)

(* The socket after a step that is not a retransmission: its retries are     *)
(* reset or left alone, and only the second in a slot that was in use.       *)
Good(s, s2) ==
    /\ s2 \in Socks /\ Held(s2)
    /\ s2.retries \in {0, s.retries}
    /\ s2.used /\ s2.retries # 0 => s.used

\* Freeing a slot leaves everything else in it.
LEMMA FreedGood ==
    ASSUME NEW s \in Socks, Held(s)
    PROVE  Good(s, Freed(s))
<1>1. Freed(s) \in Socks
  BY DEF Freed, Socks, States
<1>2. /\ ~Freed(s).used /\ Freed(s).tx = s.tx /\ Freed(s).rx = s.rx
      /\ Freed(s).retries = s.retries
  BY DEF Freed, Socks
<1> HIDE DEF Freed
<1> QED BY <1>1, <1>2 DEF Good, Held, Connected

\* A new socket, whoever had the slot.
LEMMA NewGood ==
    ASSUME NEW s \in Socks, NEW s2 \in Socks, s2.retries = 0, s2.tx = <<>>, s2.rx = <<>>, ~s2.eof,
           s2.st \in Opening \/ (s2.st = "Estab" /\ s2.una = s2.nxt)
    PROVE  Good(s, s2)
<1>1. Len(<<>>) = 0
  OBVIOUS
<1>2. s2.una \in SeqNos /\ s2.nxt \in SeqNos /\ s2.st # "Free" /\ s2.st # "CloseWait"
  BY DEF Socks, Opening
<1>3. Connected(s2) => Minus(s2.nxt, s2.una) = 0
  BY <1>2, NoDistance DEF Connected, Opening
<1> QED BY <1>1, <1>2, <1>3, TcpAssumption DEF Good, Held

\* The acknowledgement of everything that was sent empties the ring.
LEMMA AckedGood ==
    ASSUME NEW s \in Socks, NEW seg \in Segs, Held(s), Connected(s)
    PROVE  Good(s, Acked(s, seg)) /\ Connected(Acked(s, seg))
           /\ Acked(s, seg).st = s.st /\ Acked(s, seg).used = s.used
<1>1. CASE ~AckAdvances(s, seg)
  BY <1>1 DEF Acked, Good
<1>2. CASE AckAdvances(s, seg)
  <2>1. s.una \in SeqNos /\ s.nxt \in SeqNos /\ seg.ack \in SeqNos /\ s.tx \in Seq(Bytes) /\ s.rx \in Seq(Bytes)
    BY DEF Socks, Segs
  <2>2. Minus(seg.ack, s.nxt) \in Nat /\ Minus(seg.ack, s.nxt) <= 0
    <3>1. s.nxt \in Nat
      BY <2>1, TcpAssumption DEF SeqNos
    <3>2. Minus(seg.ack, s.nxt) \in SeqNos
      BY <2>1, <3>1, SeqTypes
    <3>3. Minus(seg.ack, s.nxt) <= 0
      BY <1>2 DEF AckAdvances
    <3> QED BY <3>2, <3>3, TcpAssumption DEF SeqNos
  <2>3. seg.ack = s.nxt
    BY <2>1, <2>2, NoDistance
  <2>4. Len(s.tx) = Minus(seg.ack, s.una)
    BY <2>3 DEF Held
  <2>5. SubSeq(s.tx, Least(Minus(seg.ack, s.una), Len(s.tx)) + 1, Len(s.tx)) = <<>>
    <3>1. Least(Minus(seg.ack, s.una), Len(s.tx)) = Len(s.tx)
      BY <2>4 DEF Least
    <3>2. Len(s.tx) \in Nat
      BY <2>1
    <3> QED BY <2>1, <3>1, <3>2
  <2>6. Acked(s, seg) = [s EXCEPT !.tx = <<>>, !.una = seg.ack, !.retries = 0]
    BY <1>2, <2>5 DEF Acked
  <2>7. <<>> \in Seq(Bytes) /\ 0 \in Nat
    OBVIOUS
  <2>9. /\ Acked(s, seg) \in Socks
        /\ Acked(s, seg).tx = <<>> /\ Acked(s, seg).una = s.nxt /\ Acked(s, seg).nxt = s.nxt
        /\ Acked(s, seg).rx = s.rx /\ Acked(s, seg).eof = s.eof /\ Acked(s, seg).retries = 0
        /\ Acked(s, seg).st = s.st /\ Acked(s, seg).used = s.used
    BY <2>1, <2>3, <2>6, <2>7 DEF Socks
  <2>8. Minus(s.nxt, s.nxt) = 0 /\ Len(<<>>) = 0
    BY <2>1, NoDistance
  <2> QED BY <2>9, <2>8, TcpAssumption DEF Good, Held, Connected, Opening
<1> QED BY <1>1, <1>2

\* In-order bytes are kept as far as the ring has room.
LEMMA TookGood ==
    ASSUME NEW s \in Socks, NEW seg \in Segs, Held(s), Connected(s)
    PROVE  Good(s, Took(s, seg)) /\ Connected(Took(s, seg))
           /\ Took(s, seg).st = s.st /\ Took(s, seg).used = s.used
<1>1. CASE seg.seq # s.rcv
  BY <1>1 DEF Took, Good
<1>2. CASE seg.seq = s.rcv
  <2> DEFINE take == Least(Len(seg.data), RxCap - Len(s.rx))
             kept == s.rx \o SubSeq(seg.data, 1, take)
  <2>1. s.rcv \in SeqNos /\ s.rx \in Seq(Bytes) /\ seg.data \in Seq(Bytes)
    BY DEF Socks, Segs
  <2>2. take \in Nat /\ take <= Len(seg.data) /\ take <= RxCap - Len(s.rx)
    <3>1. Len(s.rx) \in Nat /\ Len(seg.data) \in Nat /\ RxCap \in Nat
      BY <2>1, TcpAssumption
    <3>2. Len(s.rx) <= RxCap
      BY DEF Held
    <3>3. RxCap - Len(s.rx) \in Nat
      BY <3>1, <3>2
    <3> QED BY <3>1, <3>3, LeastIs
  <2>3. SubSeq(seg.data, 1, take) \in Seq(Bytes) /\ Len(SubSeq(seg.data, 1, take)) = take
    BY <2>1, <2>2
  <2>4. kept \in Seq(Bytes) /\ Len(kept) = Len(s.rx) + take
    BY <2>1, <2>3
  <2>5. Plus(s.rcv, take) \in SeqNos
    BY <2>1, <2>2, SeqTypes
  <2>6. Took(s, seg) = [s EXCEPT !.rx = kept, !.rcv = Plus(s.rcv, take)]
    BY <1>2 DEF Took, Socks
  <2>7. Len(kept) <= RxCap
    BY <2>1, <2>2, <2>4, TcpAssumption
  <2> HIDE DEF take, kept
  <2>8. /\ Took(s, seg) \in Socks
        /\ Took(s, seg).tx = s.tx /\ Took(s, seg).una = s.una /\ Took(s, seg).nxt = s.nxt
        /\ Took(s, seg).rx = kept /\ Took(s, seg).eof = s.eof /\ Took(s, seg).retries = s.retries
        /\ Took(s, seg).st = s.st /\ Took(s, seg).used = s.used
    BY <2>4, <2>5, <2>6 DEF Socks
  <2> QED BY <2>7, <2>8 DEF Good, Held, Connected, Opening
<1> QED BY <1>1, <1>2

\* A FIN leaves the rings alone.
LEMMA FinishedGood ==
    ASSUME NEW s \in Socks, NEW seg \in Segs, Held(s), Connected(s)
    PROVE  Good(s, Finished(s, seg))
<1>1. CASE "FIN" \notin seg.flags
  BY <1>1 DEF Finished, Good
<1>2. CASE "FIN" \in seg.flags
  <2>1. s.rcv \in SeqNos /\ Plus(s.rcv, 1) \in SeqNos
    BY SeqTypes DEF Socks
  <2>2. /\ Finished(s, seg) \in Socks
        /\ Finished(s, seg).tx = s.tx /\ Finished(s, seg).una = s.una /\ Finished(s, seg).nxt = s.nxt
        /\ Finished(s, seg).rx = s.rx /\ Finished(s, seg).retries = s.retries
        /\ Finished(s, seg).st = "CloseWait" /\ Finished(s, seg).used = s.used
    BY <1>2, <2>1 DEF Finished, Socks, States
  <2> QED BY <2>2 DEF Good, Held, Connected, Opening
<1> QED BY <1>1, <1>2

\* One good change after another is a good change.
LEMMA GoodChain ==
    ASSUME NEW s, NEW s2, NEW s3, Good(s, s2), Good(s2, s3), s2.used = s.used
    PROVE  Good(s, s3)
BY DEF Good

-----------------------------------------------------------------------------
(* What a step does.                                                        *)

\* Every socket is left alone or changed well.
SocksGood ==
    /\ socks' \in [Hosts -> [Ids -> Socks]]
    /\ \A h \in Hosts, i \in Ids : socks'[h][i] = socks[h][i] \/ Good(socks[h][i], socks'[h][i])

\* A step of anything but the timers of netd.
Moved ==
    /\ SocksGood
    /\ ctr' \in [Hosts -> [eph : Nat, iss : SeqNos]]
    /\ app' \in [Apps -> Programs]
    /\ out' \in [Apps \cup Hosts -> Seq(Segs)]
    /\ ticking' = ticking
    /\ net' \in [Hosts -> Seq(Segs)]
    /\ faults' \in 0..MaxFaults /\ crashed' \subseteq Hosts

Ind == Typed /\ AllHeld /\ RetriesOK

\* Such a step keeps what holds of the sockets.
LEMMA MovedInd == Ind /\ Moved => Ind'
<1> SUFFICES ASSUME Ind, Moved PROVE Ind'
  OBVIOUS
<1>1. Typed'
  BY DEF Ind, Typed, Moved, SocksGood
<1>2. AllHeld'
  BY DEF Ind, AllHeld, Moved, SocksGood, Good
<1>3. RetriesOK'
  <2> SUFFICES ASSUME NEW h \in Hosts, NEW i \in Ids
               PROVE  /\ socks'[h][i].retries <= MaxRetries + 1
                      /\ socks'[h][i].used /\ socks'[h][i].retries > MaxRetries => Spent(h, i)'
    BY DEF RetriesOK
  <2>1. /\ socks[h][i].retries <= MaxRetries + 1
        /\ socks[h][i].used /\ socks[h][i].retries > MaxRetries => Spent(h, i)
    BY DEF Ind, RetriesOK
  <2>2. Spent(h, i)' <=> Spent(h, i)
    BY DEF Moved, Spent
  <2>3. CASE socks'[h][i] = socks[h][i]
    BY <2>1, <2>2, <2>3
  <2>4. CASE Good(socks[h][i], socks'[h][i])
    BY <2>1, <2>2, <2>4, TcpAssumption DEF Good
  <2> QED BY <2>3, <2>4 DEF Moved, SocksGood
<1> QED BY <1>1, <1>2, <1>3 DEF Ind

\* One slot changes.
LEMMA PutGood ==
    ASSUME Ind, NEW h \in Hosts, NEW i \in Ids, NEW s2, Good(socks[h][i], s2), Put(h, i, s2)
    PROVE  SocksGood
BY DEF Ind, Typed, Put, Good, SocksGood

\* No slot changes.
LEMMA SocksKept ==
    ASSUME Ind, UNCHANGED socks
    PROVE  SocksGood
BY DEF Ind, Typed, SocksGood

\* A segment of a socket.
LEMMA SegTyped ==
    ASSUME NEW h \in Hosts, NEW s \in Socks, NEW seq \in SeqNos, NEW ack \in SeqNos,
           NEW flags \in SUBSET Flags, NEW data \in Seq(Bytes)
    PROVE  Seg(h, s, seq, ack, flags, data) \in Segs
BY DEF Seg, Segs, Socks

\* It waits to be sent.
LEMMA OutTyped ==
    ASSUME Ind, NEW x \in Apps \cup Hosts, NEW sg \in Segs
    PROVE  /\ [out EXCEPT ![x] = <<sg>>] \in [Apps \cup Hosts -> Seq(Segs)]
           /\ [out EXCEPT ![x] = <<>>] \in [Apps \cup Hosts -> Seq(Segs)]
<1>1. <<sg>> \in Seq(Segs) /\ <<>> \in Seq(Segs)
  OBVIOUS
<1> QED BY <1>1 DEF Ind, Typed

\* What the state of a program and its socket are.
LEMMA Here ==
    ASSUME Ind, NEW a \in Apps
    PROVE  /\ HostOf[a] \in Hosts /\ app[a] \in Programs /\ app[a].id \in Ids /\ app[a].lid \in Ids
           /\ app[a].wrote \in Nat /\ app[a].got \in Seq(Bytes)
           /\ \A i \in Ids : socks[HostOf[a]][i] \in Socks /\ Held(socks[HostOf[a]][i])
           /\ ctr[HostOf[a]].eph \in Nat /\ ctr[HostOf[a]].iss \in SeqNos
           /\ Sock(a) = socks[HostOf[a]][app[a].id] /\ Sock(a) \in Socks /\ Held(Sock(a))
<1>1. HostOf[a] \in Hosts
  BY TcpAssumption
<1>2. app[a] \in Programs
  BY DEF Ind, Typed
<1>3. /\ app[a].id \in Ids /\ app[a].lid \in Ids
      /\ app[a].wrote \in Nat /\ app[a].got \in Seq(Bytes)
  BY <1>2, TcpAssumption DEF Programs
<1>4. \A i \in Ids : socks[HostOf[a]][i] \in Socks /\ Held(socks[HostOf[a]][i])
  BY <1>1 DEF Ind, Typed, AllHeld
<1>5. ctr[HostOf[a]] \in [eph : Nat, iss : SeqNos]
  BY <1>1 DEF Ind, Typed
<1> QED BY <1>1, <1>2, <1>3, <1>4, <1>5 DEF Sock

\* A program goes on.
LEMMA WentTo ==
    ASSUME Ind, NEW a \in Apps,
           NEW pc \in {"start", "connecting", "expired", "accepting", "open", "done"}, Goto(a, pc)
    PROVE  app' \in [Apps -> Programs]
<1>1. [app[a] EXCEPT !.pc = pc] \in Programs
  BY DEF Ind, Typed, Programs
<1> QED BY <1>1 DEF Goto, Ind, Typed

\* The slot a new socket gets.
LEMMA Slot ==
    ASSUME NEW h \in Hosts, FreeIds(h) # {}
    PROVE  First(FreeIds(h)) \in FreeIds(h) /\ First(FreeIds(h)) \in Ids
BY FirstIn DEF FreeIds

-----------------------------------------------------------------------------
(* System calls.                                                            *)

\* A fresh socket.
LEMMA FreshTyped == fresh \in Socks /\ fresh.tx = <<>> /\ fresh.rx = <<>> /\ fresh.retries = 0 /\ ~fresh.eof
<1>1. 0 \in SeqNos /\ 0 \in Nat /\ 0 \in Ids
  BY TcpAssumption DEF SeqNos, Ids
<1>2. <<>> \in Seq(Bytes)
  OBVIOUS
<1> QED BY <1>1, <1>2 DEF fresh, Socks, States, Places

\* listen takes a slot.
LEMMA ListenMoves == ASSUME Ind, NEW a \in Apps, Listen(a) PROVE Moved
<1> DEFINE h == HostOf[a]
<1>1. /\ UNCHANGED <<ctr, out, ticking, net, faults, crashed>>
      /\ ctr \in [Hosts -> [eph : Nat, iss : SeqNos]] /\ out \in [Apps \cup Hosts -> Seq(Segs)]
      /\ net \in [Hosts -> Seq(Segs)] /\ faults \in 0..MaxFaults /\ crashed \subseteq Hosts
  BY DEF Listen, Ind, Typed
<1>2. CASE Goto(a, "done") /\ UNCHANGED socks
  BY <1>1, <1>2, WentTo, SocksKept DEF Moved
<1>3. CASE /\ FreeIds(h) # {}
           /\ Put(h, First(FreeIds(h)), [fresh EXCEPT !.used = TRUE, !.st = "Listen", !.lport = Port])
           /\ app' = [app EXCEPT ![a].pc = "accepting", ![a].lid = First(FreeIds(h))]
  <2> DEFINE s2 == [fresh EXCEPT !.used = TRUE, !.st = "Listen", !.lport = Port]
  <2>1. PICK n \in Ids : n = First(FreeIds(h))
    BY <1>3, Here, Slot
  <2>2. /\ s2 \in Socks /\ s2.tx = <<>> /\ s2.rx = <<>> /\ s2.retries = 0 /\ ~s2.eof /\ s2.st = "Listen"
    BY FreshTyped DEF Socks, States, Port, fresh
  <2>3. Put(h, n, s2) /\ h \in Hosts /\ socks[h][n] \in Socks
    BY <1>3, <2>1, Here
  <2> HIDE DEF s2
  <2>4. Good(socks[h][n], s2)
    BY <2>2, <2>3, NewGood DEF Opening
  <2>5. SocksGood
    BY <2>3, <2>4, PutGood
  <2>6. [app[a] EXCEPT !.pc = "accepting", !.lid = n] \in Programs
    BY <2>1 DEF Ind, Typed, Programs
  <2>7. app' = [app EXCEPT ![a] = [app[a] EXCEPT !.pc = "accepting", !.lid = n]]
    BY <1>3, <2>1 DEF Ind, Typed
  <2>8. app' \in [Apps -> Programs]
    BY <2>6, <2>7 DEF Ind, Typed
  <2> QED BY <1>1, <2>5, <2>8 DEF Moved
<1> QED BY <1>2, <1>3 DEF Listen

\* connect takes a slot and sends its SYN.
LEMMA ConnectMoves == ASSUME Ind, NEW a \in Apps, Connect(a) PROVE Moved
<1> DEFINE h == HostOf[a]
           s == [fresh EXCEPT !.used = TRUE, !.st = "SynSent", !.lport = ctr[h].eph,
                              !.peer = ServerOf[a], !.pport = Port, !.iss = ctr[h].iss,
                              !.una = ctr[h].iss, !.nxt = Plus(ctr[h].iss, 1)]
<1>1. /\ UNCHANGED <<ticking, net, faults, crashed>>
      /\ net \in [Hosts -> Seq(Segs)] /\ faults \in 0..MaxFaults /\ crashed \subseteq Hosts
  BY DEF Connect, Ind, Typed
<1>2. CASE Goto(a, "done") /\ UNCHANGED <<socks, ctr, out>>
  <2>1. ctr' \in [Hosts -> [eph : Nat, iss : SeqNos]] /\ out' \in [Apps \cup Hosts -> Seq(Segs)]
    BY <1>2 DEF Ind, Typed
  <2> QED BY <1>1, <1>2, <2>1, WentTo, SocksKept DEF Moved
<1>3. CASE /\ FreeIds(h) # {}
           /\ Put(h, First(FreeIds(h)), s)
           /\ ctr' = [ctr EXCEPT ![h] = [eph |-> @.eph + 1, iss |-> Plus(@.iss, IssStep)]]
           /\ out' = [out EXCEPT ![a] = <<Seg(h, s, s.iss, 0, {"SYN"}, <<>>)>>]
           /\ app' = [app EXCEPT ![a].pc = "connecting", ![a].id = First(FreeIds(h))]
  <2>1. PICK n \in Ids : n = First(FreeIds(h))
    BY <1>3, Here, Slot
  <2>2. /\ h \in Hosts /\ socks[h][n] \in Socks /\ ctr[h].eph \in Nat /\ ctr[h].iss \in SeqNos
        /\ ServerOf[a] \in Hosts
    BY <2>1, Here, TcpAssumption
  <2>3. Plus(ctr[h].iss, 1) \in SeqNos /\ Plus(ctr[h].iss, IssStep) \in SeqNos
    BY <2>2, SeqTypes, TcpAssumption
  <2>4. /\ s \in Socks /\ s.tx = <<>> /\ s.rx = <<>> /\ s.retries = 0 /\ ~s.eof /\ s.st = "SynSent"
        /\ s.iss \in SeqNos
    BY <2>2, <2>3, FreshTyped, ZenonT(60) DEF Socks, States, Port, fresh, Places
  <2>5. out' = [out EXCEPT ![a] = <<Seg(h, s, s.iss, 0, {"SYN"}, <<>>)>>] /\ Put(h, n, s)
    BY <1>3, <2>1
  <2>6. ctr' \in [Hosts -> [eph : Nat, iss : SeqNos]]
    <3>1. [eph |-> ctr[h].eph + 1, iss |-> Plus(ctr[h].iss, IssStep)] \in [eph : Nat, iss : SeqNos]
      BY <2>2, <2>3
    <3>2. ctr' = [ctr EXCEPT ![h] = [eph |-> ctr[h].eph + 1, iss |-> Plus(ctr[h].iss, IssStep)]]
      BY <1>3
    <3> QED BY <2>2, <3>1, <3>2 DEF Ind, Typed
  <2> HIDE DEF s
  <2>7. SocksGood
    BY <2>2, <2>4, <2>5, NewGood, PutGood DEF Opening
  <2>8. out' \in [Apps \cup Hosts -> Seq(Segs)]
    <3>1. 0 \in SeqNos /\ {"SYN"} \in SUBSET Flags /\ <<>> \in Seq(Bytes)
      BY TcpAssumption DEF SeqNos, Flags
    <3>2. Seg(h, s, s.iss, 0, {"SYN"}, <<>>) \in Segs
      BY <2>2, <2>4, <3>1, SegTyped
    <3> QED BY <2>5, <3>2, OutTyped
  <2>9. app' \in [Apps -> Programs]
    <3>1. [app[a] EXCEPT !.pc = "connecting", !.id = n] \in Programs
      BY <2>1 DEF Ind, Typed, Programs
    <3>2. app' = [app EXCEPT ![a] = [app[a] EXCEPT !.pc = "connecting", !.id = n]]
      BY <1>3, <2>1 DEF Ind, Typed
    <3> QED BY <3>1, <3>2 DEF Ind, Typed
  <2> QED BY <1>1, <2>6, <2>7, <2>8, <2>9 DEF Moved
<1> QED BY <1>2, <1>3 DEF Connect

\* connect looks at its socket and returns.
LEMMA ConnectReturnsMoves == ASSUME Ind, NEW a \in Apps, ConnectReturns(a) PROVE Moved
<1>1. UNCHANGED socks /\ Goto(a, IF Sock(a).used THEN "open" ELSE "done")
      /\ UNCHANGED <<ctr, out, ticking, net, faults, crashed>>
  BY DEF ConnectReturns
<1>2. app' \in [Apps -> Programs]
  <2>1. Goto(a, "open") \/ Goto(a, "done")
    BY <1>1
  <2> QED BY <2>1, WentTo
<1> QED BY <1>1, <1>2, SocksKept DEF Moved, Ind, Typed

\* connect finds its time over.
LEMMA ConnectExpiresMoves == ASSUME Ind, NEW a \in Apps, ConnectExpires(a) PROVE Moved
<1>1. UNCHANGED socks /\ Goto(a, "expired") /\ UNCHANGED <<ctr, out, ticking, net, faults, crashed>>
  BY DEF ConnectExpires
<1> QED BY <1>1, WentTo, SocksKept DEF Moved, Ind, Typed

\* It gives its slot up, whoever has it by then.
LEMMA ConnectTimeoutMoves == ASSUME Ind, NEW a \in Apps, ConnectTimeout(a) PROVE Moved
<1>1. Put(HostOf[a], app[a].id, Freed(Sock(a))) /\ Goto(a, "done")
      /\ UNCHANGED <<ctr, out, ticking, net, faults, crashed>>
  BY DEF ConnectTimeout
<1>2. PICK h \in Hosts, i \in Ids : h = HostOf[a] /\ i = app[a].id /\ Sock(a) = socks[h][i]
  BY Here
<1>3. SocksGood
  BY <1>1, <1>2, Here, FreedGood, PutGood
<1> QED BY <1>1, <1>3, WentTo DEF Moved, Ind, Typed

\* accept takes what is pending.
LEMMA AcceptMoves == ASSUME Ind, NEW a \in Apps, Accept(a) PROVE Moved
<1>1. PICK h \in Hosts, i \in Ids : h = HostOf[a] /\ i = app[a].lid
  BY Here
<1>2. UNCHANGED <<ctr, out, ticking, net, faults, crashed>>
  BY DEF Accept
<1>3. CASE Goto(a, "done") /\ UNCHANGED socks
  BY <1>2, <1>3, WentTo, SocksKept DEF Moved, Ind, Typed
<1>4. CASE /\ Put(h, i, [socks[h][i] EXCEPT !.pend = 0])
           /\ app' = [app EXCEPT ![a] = [@ EXCEPT !.pc = "open", !.id = socks[h][i].pend, !.wrote = 0,
                                                  !.got = <<>>, !.eof = FALSE]]
  <2> DEFINE s == socks[h][i]
             s2 == [s EXCEPT !.pend = 0]
  <2>1. s \in Socks /\ Held(s) /\ 0 \in Ids /\ s.pend \in Ids
    <3>1. s \in Socks /\ Held(s)
      BY <1>1, Here
    <3>2. 0 \in Ids
      BY TcpAssumption DEF Ids
    <3>3. s.pend \in Ids
      BY <3>1 DEF Socks
    <3> QED BY <3>1, <3>2, <3>3
  <2>2. /\ s2 \in Socks /\ s2.tx = s.tx /\ s2.rx = s.rx /\ s2.retries = s.retries /\ s2.eof = s.eof
        /\ s2.st = s.st /\ s2.used = s.used /\ s2.una = s.una /\ s2.nxt = s.nxt
    BY <2>1 DEF Socks
  <2>3. Put(h, i, s2)
    BY <1>4
  <2>4. app' \in [Apps -> Programs]
    <3>1. 0 \in 0..MaxBytes /\ <<>> \in Seq(Bytes)
      BY TcpAssumption
    <3>2. [app[a] EXCEPT !.pc = "open", !.id = socks[h][i].pend, !.wrote = 0,
                         !.got = <<>>, !.eof = FALSE] \in Programs
      BY <2>1, <3>1, ZenonT(60) DEF Ind, Typed, Programs
    <3> QED BY <1>4, <3>2 DEF Ind, Typed
  <2> HIDE DEF s2
  <2>5. Good(s, s2)
    BY <2>1, <2>2 DEF Good, Held, Connected
  <2>6. SocksGood
    BY <2>3, <2>5, PutGood
  <2> QED BY <1>2, <2>4, <2>6 DEF Moved, Ind, Typed
<1> QED BY <1>1, <1>3, <1>4 DEF Accept

\* The ring of a connection takes what it has room for, and snd_nxt advances by as much.
LEMMA SentGood ==
    ASSUME NEW s \in Socks, Held(s), Connected(s), NEW sent \in Seq(Bytes), Len(sent) <= TxCap - Len(s.tx)
    PROVE  Good(s, [s EXCEPT !.tx = s.tx \o sent, !.nxt = Plus(s.nxt, Len(sent))])
<1> DEFINE s2 == [s EXCEPT !.tx = s.tx \o sent, !.nxt = Plus(s.nxt, Len(sent))]
<1>1. s.una \in SeqNos /\ s.nxt \in SeqNos /\ s.tx \in Seq(Bytes) /\ Len(s.tx) \in Nat /\ Len(sent) \in Nat
  BY DEF Socks
<1>2. Len(s.tx) = Minus(s.nxt, s.una) /\ Minus(s.nxt, s.una) + Len(sent) <= TxCap
  BY <1>1, TcpAssumption DEF Held
<1>3. Minus(Plus(s.nxt, Len(sent)), s.una) = Minus(s.nxt, s.una) + Len(sent)
  <2>1. Minus(s.nxt, s.una) + Len(sent) < SeqMod
    BY <1>1, <1>2, TcpAssumption
  <2> QED BY <1>1, <2>1, Advanced
<1>4. Plus(s.nxt, Len(sent)) \in SeqNos
  BY <1>1, SeqTypes
<1>5. s.tx \o sent \in Seq(Bytes) /\ Len(s.tx \o sent) = Len(s.tx) + Len(sent)
  BY <1>1
<1>6. /\ s2 \in Socks /\ s2.tx = s.tx \o sent /\ s2.rx = s.rx /\ s2.retries = s.retries
      /\ s2.eof = s.eof /\ s2.st = s.st /\ s2.used = s.used /\ s2.una = s.una
      /\ s2.nxt = Plus(s.nxt, Len(sent))
  BY <1>4, <1>5 DEF Socks
<1>7. Len(s2.tx) <= TxCap /\ Len(s2.tx) = Minus(s2.nxt, s2.una)
  BY <1>2, <1>3, <1>5, <1>6
<1> HIDE DEF s2
<1>8. Good(s, s2)
  BY <1>6, <1>7 DEF Good, Held, Connected, Opening
<1> QED BY <1>8 DEF s2

\* send keeps what there is room for and sends all of it.
LEMMA SendMoves == ASSUME Ind, NEW a \in Apps, Send(a) PROVE Moved
<1>1. PICK h \in Hosts, i \in Ids, s \in Socks : h = HostOf[a] /\ i = app[a].id /\ s = socks[h][i]
                                                 /\ s = Sock(a) /\ Held(s)
  BY Here
<1> DEFINE data(len) == [k \in 1..len |-> <<a, app[a].wrote + k>>]
           n(len) == Least(len, TxCap - Len(s.tx))
<1>2. PICK len \in 1..Mss :
          /\ app[a].wrote + len <= MaxBytes /\ n(len) > 0
          /\ Put(h, i, [s EXCEPT !.tx = @ \o SubSeq(data(len), 1, n(len)), !.nxt = Plus(@, n(len))])
          /\ out' = [out EXCEPT ![a] = <<Seg(h, s, s.nxt, 0, {"ACK", "PSH"}, data(len))>>]
          /\ app' = [app EXCEPT ![a].wrote = @ + len]
  BY <1>1 DEF Send
<1>3. Connected(s) /\ UNCHANGED <<ctr, ticking, net, faults, crashed>>
  BY <1>1 DEF Send
<1>4. len \in Nat /\ app[a].wrote \in Nat
  BY Here, TcpAssumption
<1>5. data(len) \in Seq(Bytes) /\ Len(data(len)) = len
  BY <1>4 DEF Bytes
<1>6. n(len) \in Nat /\ n(len) <= len /\ n(len) <= TxCap - Len(s.tx)
  <2>1. Len(s.tx) \in Nat /\ TxCap - Len(s.tx) \in Nat
    <3>1. s.tx \in Seq(Bytes) /\ Len(s.tx) <= TxCap
      BY <1>1 DEF Socks, Held
    <3> QED BY <3>1, TcpAssumption
  <2> QED BY <1>4, <2>1, LeastIs
<1> DEFINE sent == SubSeq(data(len), 1, n(len))
<1>7. sent \in Seq(Bytes) /\ Len(sent) = n(len)
  BY <1>4, <1>5, <1>6
<1>8. SocksGood
  <2>1. Good(s, [s EXCEPT !.tx = s.tx \o sent, !.nxt = Plus(s.nxt, Len(sent))])
    <3> HIDE DEF sent
    <3> QED BY <1>1, <1>3, <1>6, <1>7, SentGood
  <2>2. Put(h, i, [s EXCEPT !.tx = s.tx \o sent, !.nxt = Plus(s.nxt, Len(sent))])
    <3>1. Len(sent) = n(len)
      BY <1>7
    <3> QED BY <1>2, <3>1 DEF Put
  <2> HIDE DEF sent
  <2> QED BY <1>1, <2>1, <2>2, PutGood
<1>9. out' \in [Apps \cup Hosts -> Seq(Segs)]
  <2>1. 0 \in SeqNos /\ {"ACK", "PSH"} \in SUBSET Flags /\ s.nxt \in SeqNos
    BY TcpAssumption DEF SeqNos, Flags, Socks
  <2> HIDE DEF data
  <2>2. Seg(h, s, s.nxt, 0, {"ACK", "PSH"}, data(len)) \in Segs
    BY <1>5, <2>1, SegTyped
  <2> QED BY <1>2, <2>2, OutTyped
<1>a. app' \in [Apps -> Programs]
  <2>1. app[a].wrote + len \in 0..MaxBytes
    BY <1>2, <1>4, TcpAssumption, SMTT(30)
  <2>2. [app[a] EXCEPT !.wrote = app[a].wrote + len] \in Programs
    BY <2>1 DEF Ind, Typed, Programs
  <2>3. app' = [app EXCEPT ![a] = [app[a] EXCEPT !.wrote = app[a].wrote + len]]
    BY <1>2 DEF Ind, Typed
  <2> QED BY <2>2, <2>3 DEF Ind, Typed
<1> QED BY <1>3, <1>8, <1>9, <1>a DEF Moved, Ind, Typed

\* recv takes bytes from the ring.
LEMMA PoppedGood ==
    ASSUME NEW s \in Socks, Held(s), NEW n \in Nat, n <= Len(s.rx)
    PROVE  Good(s, Popped(s, n)) /\ SubSeq(s.rx, 1, n) \in Seq(Bytes)
<1>1. s.rx \in Seq(Bytes) /\ Len(s.rx) \in Nat /\ Len(s.rx) <= RxCap
  BY DEF Socks, Held
<1> DEFINE rest == SubSeq(s.rx, n + 1, Len(s.rx))
<1>2. rest \in Seq(Bytes) /\ SubSeq(s.rx, 1, n) \in Seq(Bytes)
  BY <1>1
<1>3. Len(rest) <= RxCap
  <2>1. Len(rest) = IF n + 1 <= Len(s.rx) THEN Len(s.rx) - (n + 1) + 1 ELSE 0
    BY <1>1
  <2> HIDE DEF rest
  <2> QED BY <1>1, <2>1, TcpAssumption
<1>4. s.rx = <<>> => rest = <<>>
  <2> SUFFICES ASSUME s.rx = <<>> PROVE rest = <<>>
    OBVIOUS
  <2>1. Len(s.rx) = 0
    OBVIOUS
  <2> QED BY <1>1, <2>1
<1>5. Popped(s, n) = [s EXCEPT !.rx = rest]
  BY DEF Popped
<1> HIDE DEF rest
<1>6. /\ Popped(s, n) \in Socks /\ Popped(s, n).tx = s.tx /\ Popped(s, n).rx = rest
      /\ Popped(s, n).retries = s.retries /\ Popped(s, n).eof = s.eof /\ Popped(s, n).st = s.st
      /\ Popped(s, n).used = s.used /\ Popped(s, n).una = s.una /\ Popped(s, n).nxt = s.nxt
  BY <1>2, <1>5 DEF Socks
<1> QED BY <1>2, <1>3, <1>4, <1>6 DEF Good, Held, Connected

\* recv changes its socket only by what it pops.
LEMMA RecvMoves == ASSUME Ind, NEW a \in Apps, Recv(a) PROVE Moved
<1>1. PICK h \in Hosts, i \in Ids, s \in Socks : h = HostOf[a] /\ i = app[a].id /\ s = socks[h][i]
                                                 /\ s = Sock(a) /\ Held(s)
  BY Here
<1>2. UNCHANGED <<ctr, out, ticking, net, faults, crashed>>
  BY DEF Recv
<1>3. CASE \E n \in 1..Least(Mss, Len(s.rx)) :
              /\ Put(h, i, Popped(s, n))
              /\ app' = [app EXCEPT ![a].got = @ \o SubSeq(s.rx, 1, n)]
  <2>1. PICK n \in 1..Least(Mss, Len(s.rx)) :
              /\ Put(h, i, Popped(s, n))
              /\ app' = [app EXCEPT ![a].got = @ \o SubSeq(s.rx, 1, n)]
    BY <1>3
  <2>2. n \in Nat /\ n <= Len(s.rx)
    <3>1. Len(s.rx) \in Nat /\ Mss \in Nat
      BY TcpAssumption DEF Socks
    <3>2. Least(Mss, Len(s.rx)) \in Nat /\ Least(Mss, Len(s.rx)) <= Len(s.rx)
      BY <3>1, LeastIs
    <3> QED BY <2>1, <3>1, <3>2
  <2>3. Good(s, Popped(s, n)) /\ SubSeq(s.rx, 1, n) \in Seq(Bytes)
    BY <1>1, <2>2, PoppedGood
  <2>4. SocksGood
    BY <1>1, <2>1, <2>3, PutGood
  <2>5. app' \in [Apps -> Programs]
    <3>1. app[a].got \o SubSeq(s.rx, 1, n) \in Seq(Bytes)
      BY <2>3, Here
    <3>2. [app[a] EXCEPT !.got = app[a].got \o SubSeq(s.rx, 1, n)] \in Programs
      BY <3>1 DEF Ind, Typed, Programs
    <3>3. app' = [app EXCEPT ![a] = [app[a] EXCEPT !.got = app[a].got \o SubSeq(s.rx, 1, n)]]
      BY <2>1 DEF Ind, Typed
    <3> QED BY <3>2, <3>3 DEF Ind, Typed
  <2> QED BY <1>2, <2>4, <2>5 DEF Moved, Ind, Typed
<1>4. CASE Goto(a, "done") /\ UNCHANGED socks
  BY <1>2, <1>4, WentTo, SocksKept DEF Moved, Ind, Typed
<1>5. CASE app' = [app EXCEPT ![a].eof = TRUE] /\ UNCHANGED socks
  <2>1. [app[a] EXCEPT !.eof = TRUE] \in Programs
    BY DEF Ind, Typed, Programs
  <2>2. app' \in [Apps -> Programs]
    BY <1>5, <2>1 DEF Ind, Typed
  <2> QED BY <1>2, <1>5, <2>2, SocksKept DEF Moved, Ind, Typed
<1> QED BY <1>1, <1>3, <1>4, <1>5 DEF Recv

\* close gives the slot up and sends a FIN to whoever is at the other end.
LEMMA CloseMoves == ASSUME Ind, NEW a \in Apps, Close(a) PROVE Moved
<1> DEFINE flags(s) == IF s.rcv = 0 THEN {"FIN"} ELSE {"FIN", "ACK"}
<1>1. PICK call \in {[pc |-> "open", id |-> app[a].id], [pc |-> "accepting", id |-> app[a].lid]} :
          /\ Goto(a, IF call.pc = "open" /\ Role[a] = "server" THEN "accepting" ELSE "done")
          /\ IF socks[HostOf[a]][call.id].used
             THEN /\ Put(HostOf[a], call.id, Freed(socks[HostOf[a]][call.id]))
                  /\ out' = IF socks[HostOf[a]][call.id].peer = NoHost THEN out
                            ELSE [out EXCEPT ![a] = <<Seg(HostOf[a], socks[HostOf[a]][call.id],
                                      socks[HostOf[a]][call.id].nxt, socks[HostOf[a]][call.id].rcv,
                                      flags(socks[HostOf[a]][call.id]), <<>>)>>]
             ELSE UNCHANGED <<socks, out>>
          /\ UNCHANGED <<ctr, ticking, net, faults, crashed>>
  BY DEF Close
<1>2. PICK h \in Hosts, i \in Ids, s \in Socks :
          h = HostOf[a] /\ i = call.id /\ s = socks[h][i] /\ Held(s)
  BY <1>1, Here
<1>3. app' \in [Apps -> Programs]
  <2>1. Goto(a, "accepting") \/ Goto(a, "done")
    BY <1>1
  <2> QED BY <2>1, WentTo
<1>4. SocksGood /\ out' \in [Apps \cup Hosts -> Seq(Segs)]
  <2>1. CASE UNCHANGED <<socks, out>>
    BY <2>1, SocksKept DEF Ind, Typed
  <2>2. CASE Put(h, i, Freed(s)) /\ out' = out
    BY <1>2, <2>2, FreedGood, PutGood DEF Ind, Typed
  <2>3. CASE Put(h, i, Freed(s)) /\ out' = [out EXCEPT ![a] = <<Seg(h, s, s.nxt, s.rcv, flags(s), <<>>)>>]
    <3>1. s.nxt \in SeqNos /\ s.rcv \in SeqNos
      BY DEF Socks
    <3>2. flags(s) \in SUBSET Flags /\ <<>> \in Seq(Bytes)
      BY DEF Flags
    <3> HIDE DEF flags
    <3>3. Seg(h, s, s.nxt, s.rcv, flags(s), <<>>) \in Segs
      BY <3>1, <3>2, SegTyped
    <3> QED BY <1>2, <2>3, <3>3, FreedGood, PutGood, OutTyped
  <2> HIDE DEF flags
  <2> QED BY <1>1, <1>2, <2>1, <2>2, <2>3
<1> QED BY <1>1, <1>3, <1>4 DEF Moved, Ind, Typed

\* A system call moves the sockets well.
LEMMA SyscallMoves == ASSUME Ind, NEW a \in Apps, Syscall(a) PROVE Moved
BY ListenMoves, ConnectMoves, ConnectReturnsMoves, ConnectExpiresMoves, ConnectTimeoutMoves,
   AcceptMoves, SendMoves, RecvMoves, CloseMoves DEF Syscall

-----------------------------------------------------------------------------
(* Segments that arrive.                                                    *)

\* What a handler leaves: the sockets changed well, and segments to send.
Handled == SocksGood /\ out' \in [Apps \cup Hosts -> Seq(Segs)]

\* A slot changes and one segment, or none, is sent.
LEMMA PostGood ==
    ASSUME Ind, NEW h \in Hosts, NEW i \in Ids, NEW s2, Good(socks[h][i], s2),
           NEW sg \in Segs, Post(h, i, s2, <<sg>>) \/ Post(h, i, s2, <<>>)
    PROVE  Handled
<1>1. Put(h, i, s2)
  BY DEF Post
<1>2. SocksGood
  BY <1>1, PutGood
<1>3. out' = [out EXCEPT ![h] = <<sg>>] \/ out' = [out EXCEPT ![h] = <<>>]
  BY DEF Post, Reply
<1> QED BY <1>2, <1>3, OutTyped, ZenonT(60) DEF Handled

\* A socket a segment belongs to, and what holds of it.
LEMMA There ==
    ASSUME Ind, NEW h \in Hosts, NEW i \in Ids
    PROVE  /\ socks[h][i] \in Socks /\ Held(socks[h][i])
           /\ ctr[h].eph \in Nat /\ ctr[h].iss \in SeqNos
           /\ Plus(ctr[h].iss, 1) \in SeqNos /\ Plus(ctr[h].iss, IssStep) \in SeqNos
<1>1. ctr[h] \in [eph : Nat, iss : SeqNos]
  BY DEF Ind, Typed
<1>2. ctr[h].eph \in Nat /\ ctr[h].iss \in SeqNos
  BY <1>1
<1>3. IssStep \in Nat
  BY TcpAssumption
<1>4. Plus(ctr[h].iss, 1) \in SeqNos /\ Plus(ctr[h].iss, IssStep) \in SeqNos
  BY <1>2, <1>3, SeqTypes
<1> QED BY <1>2, <1>4 DEF Ind, Typed, AllHeld

\* A segment that belongs to an established connection.
LEMMA InStreamGood ==
    ASSUME Ind, NEW h \in Hosts, NEW i \in Ids, NEW seg \in Segs,
           socks[h][i].used, socks[h][i].st \in {"Estab", "CloseWait"}, InStream(h, i, seg)
    PROVE  Handled /\ crashed' \subseteq Hosts
<1>1. PICK s \in Socks : s = socks[h][i] /\ Held(s) /\ Connected(s)
  BY There DEF Connected
<1>2. crashed \subseteq Hosts
  BY DEF Ind, Typed
<1>3. CASE Panics(s, seg)
  <2>1. crashed' = crashed \cup {h} /\ UNCHANGED <<socks, out>>
    BY <1>1, <1>3 DEF InStream
  <2> QED BY <1>2, <2>1, SocksKept DEF Handled, Ind, Typed
<1>4. CASE ~Panics(s, seg)
  <2>1. PICK a, b, c : a = Acked(s, seg) /\ b = Took(a, seg) /\ c = Finished(b, seg)
    OBVIOUS
  <2>2. Good(s, a) /\ Connected(a) /\ a.used = s.used
    BY <1>1, <2>1, AckedGood
  <2>3. Good(a, b) /\ Connected(b) /\ b.used = a.used
    <3>1. a \in Socks /\ Held(a)
      BY <2>2 DEF Good
    <3> QED BY <2>1, <2>2, <3>1, TookGood
  <2>4. Good(b, c)
    <3>1. b \in Socks /\ Held(b)
      BY <2>3 DEF Good
    <3> QED BY <2>1, <2>3, <3>1, FinishedGood
  <2>5. Good(s, c)
    BY <2>2, <2>3, <2>4, GoodChain
  <2>6. /\ Put(h, i, c) /\ UNCHANGED crashed
        /\ Reply(h, IF seg.data = <<>> /\ "FIN" \notin seg.flags THEN <<>>
                    ELSE <<Seg(h, c, c.nxt, c.rcv, {"ACK"}, <<>>)>>)
    BY <1>1, <1>4, <2>1 DEF InStream
  <2>7. Seg(h, c, c.nxt, c.rcv, {"ACK"}, <<>>) \in Segs
    <3>1. c \in Socks /\ c.nxt \in SeqNos /\ c.rcv \in SeqNos
      BY <2>5 DEF Good, Socks
    <3>2. {"ACK"} \in SUBSET Flags /\ <<>> \in Seq(Bytes)
      BY DEF Flags
    <3> QED BY <3>1, <3>2, SegTyped
  <2>8. \/ Post(h, i, c, <<Seg(h, c, c.nxt, c.rcv, {"ACK"}, <<>>)>>)
        \/ Post(h, i, c, <<>>)
    BY <2>6 DEF Post
  <2>9. Handled
    BY <1>1, <2>5, <2>7, <2>8, PostGood
  <2> QED BY <1>2, <2>6, <2>9
<1> QED BY <1>3, <1>4

\* A SYN for a listener.
LEMMA SynGood ==
    ASSUME Ind, NEW h \in Hosts, NEW i \in Ids, NEW seg \in Segs,
           socks[h][i].used, socks[h][i].st = "Listen", handle_syn(h, i, seg)
    PROVE  Handled /\ ctr' \in [Hosts -> [eph : Nat, iss : SeqNos]]
<1>1. PICK s \in Socks, iss \in SeqNos : s = socks[h][i] /\ iss = ctr[h].iss /\ Held(s)
  BY There
<1> DEFINE s2 == [s EXCEPT !.st = "SynRcvd", !.peer = seg.src, !.pport = seg.sport,
                           !.iss = iss, !.una = iss, !.nxt = Plus(iss, 1), !.rcv = Plus(seg.seq, 1)]
<1>2. seg.src \in Places /\ seg.sport \in Nat /\ seg.seq \in SeqNos
  BY DEF Segs, Places
<1>3. Plus(iss, 1) \in SeqNos /\ Plus(seg.seq, 1) \in SeqNos
  BY <1>2, SeqTypes
<1>4. /\ s2 \in Socks /\ s2.tx = s.tx /\ s2.rx = s.rx /\ s2.retries = s.retries /\ s2.eof = s.eof
      /\ s2.st = "SynRcvd" /\ s2.used = s.used /\ s2.iss = iss /\ s2.rcv = Plus(seg.seq, 1)
  BY <1>2, <1>3 DEF Socks, States
<1>5. Post(h, i, s2, <<Seg(h, s2, s2.iss, s2.rcv, {"SYN", "ACK"}, <<>>)>>)
  BY <1>1 DEF handle_syn
<1>6. ctr' = [ctr EXCEPT ![h].iss = Plus(@, IssStep)]
  BY DEF handle_syn
<1> HIDE DEF s2
<1>7. Good(s, s2)
  BY <1>1, <1>4 DEF Good, Held, Connected, Opening
<1>8. Seg(h, s2, s2.iss, s2.rcv, {"SYN", "ACK"}, <<>>) \in Segs
  <2>1. {"SYN", "ACK"} \in SUBSET Flags /\ <<>> \in Seq(Bytes)
    BY DEF Flags
  <2> QED BY <1>3, <1>4, <2>1, SegTyped
<1>9. Handled
  BY <1>1, <1>5, <1>7, <1>8, PostGood
<1>a. ctr' \in [Hosts -> [eph : Nat, iss : SeqNos]]
  <2>1. [ctr[h] EXCEPT !.iss = Plus(ctr[h].iss, IssStep)] \in [eph : Nat, iss : SeqNos]
    BY There DEF Ind, Typed
  <2> QED BY <1>6, <2>1 DEF Ind, Typed
<1> QED BY <1>9, <1>a

\* The SYN|ACK for a SYN of this machine.
LEMMA EstablishGood ==
    ASSUME Ind, NEW h \in Hosts, NEW i \in Ids, NEW seg \in Segs,
           socks[h][i].used, socks[h][i].st = "SynSent", seg.ack = socks[h][i].nxt, Establish(h, i, seg)
    PROVE  Handled
<1>1. PICK s \in Socks : s = socks[h][i] /\ Held(s) /\ s.used /\ s.st = "SynSent" /\ seg.ack = s.nxt
  BY There
<1> DEFINE s2 == [s EXCEPT !.rcv = Plus(seg.seq, 1), !.una = seg.ack, !.st = "Estab"]
<1>2. seg.ack \in SeqNos /\ Plus(seg.seq, 1) \in SeqNos
  BY SeqTypes DEF Segs
<1>3. /\ s2 \in Socks /\ s2.tx = s.tx /\ s2.rx = s.rx /\ s2.retries = s.retries /\ s2.eof = s.eof
      /\ s2.st = "Estab" /\ s2.used = s.used /\ s2.una = s.nxt /\ s2.nxt = s.nxt
      /\ s2.rcv = Plus(seg.seq, 1)
  BY <1>1, <1>2 DEF Socks, States
<1>4. Post(h, i, s2, <<Seg(h, s2, s2.nxt, s2.rcv, {"ACK"}, <<>>)>>)
  BY <1>1 DEF Establish
<1> HIDE DEF s2
<1>5. Minus(s.nxt, s.nxt) = 0 /\ s2.nxt \in SeqNos
  BY <1>3, NoDistance DEF Socks
<1>6. Good(s, s2)
  <2>1. s.tx = <<>> /\ s.rx = <<>> /\ ~s.eof /\ Len(<<>>) = 0
    BY <1>1 DEF Held, Opening
  <2> QED BY <1>1, <1>3, <1>5, <2>1, TcpAssumption DEF Good, Held, Connected, Opening
<1>7. Seg(h, s2, s2.nxt, s2.rcv, {"ACK"}, <<>>) \in Segs
  <2>1. {"ACK"} \in SUBSET Flags /\ <<>> \in Seq(Bytes)
    BY DEF Flags
  <2> QED BY <1>2, <1>3, <1>5, <2>1, SegTyped
<1> QED BY <1>1, <1>4, <1>6, <1>7, PostGood

\* The last ACK of a handshake: the new socket starts with nothing unacknowledged.
LEMMA PromoteGood ==
    ASSUME Ind, NEW h \in Hosts, NEW i \in Ids, NEW seg \in Segs,
           socks[h][i].used, socks[h][i].st = "SynRcvd", seg.ack = socks[h][i].nxt, Promote(h, i, seg)
    PROVE  Handled
<1>1. PICK c \in Socks : c = socks[h][i] /\ Held(c) /\ c.used /\ c.st = "SynRcvd" /\ seg.ack = c.nxt
  BY There
<1> DEFINE s == [c EXCEPT !.una = seg.ack, !.st = "Listen"]
           ni == First(FreeIds(h))
           child == [fresh EXCEPT !.used = TRUE, !.st = "Estab", !.lport = s.lport,
                                  !.peer = s.peer, !.pport = s.pport, !.iss = s.iss,
                                  !.una = seg.ack, !.nxt = seg.ack, !.rcv = s.rcv]
<1>2. seg.ack \in SeqNos /\ 0 \in SeqNos
  BY TcpAssumption DEF Segs, SeqNos
<1>3. s \in Socks /\ s.tx = c.tx /\ s.rx = c.rx /\ s.retries = c.retries /\ s.eof = c.eof
      /\ s.st = "Listen" /\ s.used = c.used
  BY <1>2 DEF Socks, States
<1>4. c.tx = <<>> /\ c.rx = <<>> /\ ~c.eof /\ Len(<<>>) = 0
  BY <1>1 DEF Held, Opening
<1>5. CASE FreeIds(h) = {}
  <2>1. Post(h, i, s, <<Seg(h, s, seg.ack, 0, {"RST"}, <<>>)>>)
    BY <1>1, <1>5 DEF Promote
  <2> HIDE DEF s
  <2>2. Good(c, s)
    BY <1>1, <1>3, <1>4, TcpAssumption DEF Good, Held, Connected, Opening
  <2>3. Seg(h, s, seg.ack, 0, {"RST"}, <<>>) \in Segs
    <3>1. {"RST"} \in SUBSET Flags /\ <<>> \in Seq(Bytes)
      BY DEF Flags
    <3> QED BY <1>2, <1>3, <3>1, SegTyped
  <2> QED BY <1>1, <2>1, <2>2, <2>3, PostGood
<1>6. CASE FreeIds(h) # {}
  <2>1. PICK n \in Ids : n = ni /\ n \in FreeIds(h)
    BY <1>6, Slot
  <2>2. n # i /\ socks[h][n] \in Socks
    BY <1>1, <2>1, There DEF FreeIds
  <2> DEFINE s2 == [s EXCEPT !.pend = n]
  <2>3. /\ s2 \in Socks /\ s2.tx = c.tx /\ s2.rx = c.rx /\ s2.retries = c.retries /\ s2.eof = c.eof
        /\ s2.st = "Listen" /\ s2.used = c.used
    BY <1>3 DEF Socks
  <2>4. /\ child \in Socks /\ child.tx = <<>> /\ child.rx = <<>> /\ child.retries = 0 /\ ~child.eof
        /\ child.st = "Estab" /\ child.una = child.nxt
    <3>1. s.lport \in Nat /\ s.peer \in Places /\ s.pport \in Nat /\ s.iss \in SeqNos /\ s.rcv \in SeqNos
      <4> HIDE DEF s
      <4> QED BY <1>3 DEF Socks
    <3> HIDE DEF s
    <3> QED BY <1>2, <3>1, FreshTyped DEF Socks, States, fresh
  <2>5. socks' = [socks EXCEPT ![h][i] = s2, ![h][n] = child] /\ Reply(h, <<>>)
    BY <1>1, <1>6, <2>1 DEF Promote
  <2> HIDE DEF s, s2, child
  <2>6. Good(c, s2)
    BY <1>1, <1>4, <2>3, TcpAssumption DEF Good, Held, Connected, Opening
  <2>7. Good(socks[h][n], child)
    BY <2>2, <2>4, NewGood
  <2>8. socks' = [socks EXCEPT ![h] = [socks[h] EXCEPT ![i] = s2, ![n] = child]]
    BY <2>2, <2>5 DEF Ind, Typed
  <2>9. SocksGood
    <3>1. [socks[h] EXCEPT ![i] = s2, ![n] = child] \in [Ids -> Socks]
      BY <2>3, <2>4 DEF Ind, Typed
    <3>2. /\ socks' \in [Hosts -> [Ids -> Socks]]
          /\ \A g \in Hosts : g # h => socks'[g] = socks[g]
          /\ socks'[h] = [socks[h] EXCEPT ![i] = s2, ![n] = child]
      BY <2>8, <3>1 DEF Ind, Typed
    <3>3. \A j \in Ids : socks'[h][j] = IF j = n THEN child ELSE IF j = i THEN s2 ELSE socks[h][j]
      BY <3>2 DEF Ind, Typed
    <3> QED BY <1>1, <2>6, <2>7, <3>2, <3>3 DEF SocksGood
  <2>a. out' \in [Apps \cup Hosts -> Seq(Segs)]
    <3>1. <<>> \in Seq(Segs)
      OBVIOUS
    <3> QED BY <2>5, <3>1 DEF Reply, Ind, Typed
  <2> QED BY <2>9, <2>a DEF Handled
<1> QED BY <1>5, <1>6

\* A segment for a socket that is neither free nor a listener.
LEMMA InbandGood ==
    ASSUME Ind, NEW h \in Hosts, NEW i \in Ids, NEW seg \in Segs,
           socks[h][i].used, handle_inband(h, i, seg)
    PROVE  Handled /\ crashed' \subseteq Hosts
<1>0. crashed \subseteq Hosts
  BY DEF Ind, Typed
<1>1. CASE Put(h, i, Freed(socks[h][i])) /\ UNCHANGED <<out, crashed>>
  <2>1. SocksGood
    BY <1>1, There, FreedGood, PutGood
  <2> QED BY <1>0, <1>1, <2>1 DEF Handled, Ind, Typed
<1>2. CASE socks[h][i].st \in {"Estab", "CloseWait"} /\ InStream(h, i, seg)
  BY <1>2, InStreamGood
<1>3. CASE UNCHANGED <<socks, out>> /\ UNCHANGED crashed
  BY <1>0, <1>3, SocksKept DEF Handled, Ind, Typed
<1>4. CASE socks[h][i].st = "SynSent" /\ seg.ack = socks[h][i].nxt /\ Establish(h, i, seg) /\ UNCHANGED crashed
  BY <1>0, <1>4, EstablishGood
<1>5. CASE socks[h][i].st = "SynRcvd" /\ seg.ack = socks[h][i].nxt /\ Promote(h, i, seg) /\ UNCHANGED crashed
  BY <1>0, <1>5, PromoteGood
<1> QED BY <1>1, <1>2, <1>3, <1>4, <1>5 DEF handle_inband

\* The answer to a segment that belongs to nobody.
LEMMA ResetTyped ==
    ASSUME NEW h \in Hosts, NEW sport \in Nat, NEW dst \in Places, NEW dport \in Nat
    PROVE  [src |-> h, sport |-> sport, dst |-> dst, dport |-> dport, seq |-> 0, ack |-> 0,
            flags |-> {"RST"}, data |-> <<>>] \in Segs
<1>1. 0 \in SeqNos /\ <<>> \in Seq(Bytes) /\ {"RST"} \in SUBSET Flags
  BY TcpAssumption DEF SeqNos, Flags
<1> QED BY <1>1 DEF Segs

\* netd takes a segment from the network.
LEMMA IngressMoves == ASSUME Ind, NEW h \in Hosts, Ingress(h) PROVE Moved
<1>0. net[h] # <<>> /\ net[h] \in Seq(Segs)
  BY DEF Ingress, Ind, Typed
<1>1. PICK seg \in Segs : seg = Head(net[h])
  BY <1>0
<1>2. /\ net' = [net EXCEPT ![h] = Tail(@)] /\ UNCHANGED <<app, ticking, faults>>
  BY DEF Ingress
<1>3. net' \in [Hosts -> Seq(Segs)]
  <2>1. Tail(net[h]) \in Seq(Segs)
    BY <1>0
  <2> QED BY <1>2, <2>1 DEF Ind, Typed
<1>4. ASSUME Handled, crashed' \subseteq Hosts, ctr' \in [Hosts -> [eph : Nat, iss : SeqNos]] PROVE Moved
  BY <1>2, <1>3, <1>4 DEF Moved, Handled, Ind, Typed
<1>5. crashed \subseteq Hosts /\ ctr \in [Hosts -> [eph : Nat, iss : SeqNos]]
  BY DEF Ind, Typed
<1>6. CASE Matching(h, seg) # {} /\ handle_inband(h, First(Matching(h, seg)), seg) /\ UNCHANGED ctr
  <2>1. PICK i \in Ids : i = First(Matching(h, seg)) /\ i \in Matching(h, seg)
    BY <1>6, FirstIn DEF Matching
  <2>2. socks[h][i].used
    BY <2>1 DEF Matching
  <2>3. Handled /\ crashed' \subseteq Hosts
    BY <1>6, <2>1, <2>2, InbandGood
  <2> QED BY <1>4, <1>5, <1>6, <2>3
<1>7. CASE /\ Listening(h, seg) # {} /\ handle_syn(h, First(Listening(h, seg)), seg) /\ UNCHANGED crashed
  <2>1. PICK i \in Ids : i = First(Listening(h, seg)) /\ i \in Listening(h, seg)
    BY <1>7, FirstIn DEF Listening
  <2>2. socks[h][i].used /\ socks[h][i].st = "Listen"
    BY <2>1 DEF Listening
  <2>3. Handled /\ ctr' \in [Hosts -> [eph : Nat, iss : SeqNos]]
    BY <1>7, <2>1, <2>2, SynGood
  <2> QED BY <1>4, <1>5, <1>7, <2>3
<1>8. CASE UNCHANGED <<socks, out, ctr>> /\ UNCHANGED crashed
  <2>1. Handled
    BY <1>8, SocksKept DEF Handled, Ind, Typed
  <2> QED BY <1>4, <1>5, <1>8, <2>1
<1>9. CASE /\ Reply(h, IF "RST" \in seg.flags THEN <<>>
                       ELSE <<[src |-> h, sport |-> seg.dport, dst |-> seg.src,
                               dport |-> seg.sport, seq |-> 0, ack |-> 0,
                               flags |-> {"RST"}, data |-> <<>>]>>)
           /\ UNCHANGED <<socks, ctr, crashed>>
  <2> DEFINE rst == [src |-> h, sport |-> seg.dport, dst |-> seg.src, dport |-> seg.sport,
                     seq |-> 0, ack |-> 0, flags |-> {"RST"}, data |-> <<>>]
  <2>1. rst \in Segs
    <3>1. seg.dport \in Nat /\ seg.sport \in Nat /\ seg.src \in Places
      BY DEF Segs, Places
    <3> QED BY <3>1, ResetTyped
  <2>2. out' = [out EXCEPT ![h] = <<rst>>] \/ out' = [out EXCEPT ![h] = <<>>]
    BY <1>9 DEF Reply
  <2> HIDE DEF rst
  <2>3. Handled
    <3>1. SocksGood
      BY <1>9, SocksKept
    <3>2. out' \in [Apps \cup Hosts -> Seq(Segs)]
      <4>1. PICK sg \in Segs : sg = rst
        BY <2>1
      <4>2. out' = [out EXCEPT ![h] = <<sg>>] \/ out' = [out EXCEPT ![h] = <<>>]
        BY <2>2, <4>1
      <4>3. /\ [out EXCEPT ![h] = <<sg>>] \in [Apps \cup Hosts -> Seq(Segs)]
            /\ [out EXCEPT ![h] = <<>>] \in [Apps \cup Hosts -> Seq(Segs)]
        BY OutTyped
      <4> QED BY <4>2, <4>3, Zenon
    <3> QED BY <3>1, <3>2 DEF Handled
  <2> QED BY <1>4, <1>5, <1>9, <2>3
<1> QED BY <1>1, <1>6, <1>7, <1>8, <1>9 DEF Ingress

-----------------------------------------------------------------------------
(* Timers and the network.                                                  *)

\* A comparison is TRUE or FALSE.
LEMMA AsBoolean == \A m, n : \E over \in BOOLEAN : over = (m > n)
<1> TAKE m, n
<1>1. (m > n) \in BOOLEAN
  OBVIOUS
<1> QED BY <1>1, Zenon

\* What netd has decided on.
LEMMA DueTyped ==
    ASSUME NEW k \in {"syn", "data"}, NEW i \in Ids, NEW over \in BOOLEAN
    PROVE  LET due == [kind |-> k, id |-> i, giveUp |-> over]
           IN  due \in Ticks /\ due # NoTick /\ due.id = i
<1>1. k # "none"
  OBVIOUS
<1>2. [kind |-> k, id |-> i, giveUp |-> over] # [kind |-> "none"]
  <2>1. [kind |-> k, id |-> i, giveUp |-> over].kind = k /\ [kind |-> "none"].kind = "none"
    OBVIOUS
  <2> QED BY <1>1, <2>1, Zenon
<1> QED BY <1>2 DEF Ticks, NoTick

\* tick counts a retransmission; one too many is one it is about to act on.
LEMMA TickDecideInd == ASSUME Ind, NEW h \in Hosts, TickDecide(h) PROVE Ind'
<1>1. PICK i \in Ids : socks[h][i].used /\ TickDue(h, i)
  BY DEF TickDecide
<1>2. /\ ticking[h] = NoTick /\ UNCHANGED <<ctr, app, out, net, faults, crashed>>
  BY DEF TickDecide, Netd
<1>3. PICK s \in Socks : s = socks[h][i] /\ Held(s)
  BY There
<1>4. PICK s2 : s2 = [s EXCEPT !.retries = s.retries + 1]
  OBVIOUS
<1>5. /\ s2 \in Socks /\ s2.tx = s.tx /\ s2.rx = s.rx /\ s2.retries = s.retries + 1 /\ s2.eof = s.eof
      /\ s2.st = s.st /\ s2.used = s.used /\ s2.una = s.una /\ s2.nxt = s.nxt /\ s.retries \in Nat
  BY <1>4, SMTT(30) DEF Socks
<1>6. Held(s2)
  BY <1>3, <1>5 DEF Held, Connected
<1>7. socks' = [socks EXCEPT ![h][i] = s2]
  BY <1>1, <1>3, <1>4 DEF TickDue, Put
<1>8. PICK k \in {"syn", "data"} :
          ticking' = [ticking EXCEPT ![h] = [kind |-> k, id |-> i, giveUp |-> s.retries + 1 > MaxRetries]]
  BY <1>1, <1>3 DEF TickDue
<1>g. PICK over \in BOOLEAN : over = (s.retries + 1 > MaxRetries)
  BY AsBoolean
<1> DEFINE due == [kind |-> k, id |-> i, giveUp |-> over]
<1>9. due \in Ticks /\ due # NoTick /\ due.id = i /\ (due.giveUp <=> s.retries + 1 > MaxRetries)
  <2>1. due.giveUp = over
    BY DEF due
  <2>2. due.giveUp <=> s.retries + 1 > MaxRetries
    BY <1>g, <2>1, Zenon
  <2> QED BY <2>2, DueTyped
<1>a. /\ socks' \in [Hosts -> [Ids -> Socks]] /\ socks'[h][i] = s2
      /\ \A g \in Hosts, j \in Ids : ~(g = h /\ j = i) => socks'[g][j] = socks[g][j]
  BY <1>5, <1>7 DEF Ind, Typed
<1>b. ticking' = [ticking EXCEPT ![h] = due]
  BY <1>8, <1>g
<1> HIDE DEF due
<1>c. /\ ticking' \in [Hosts -> Ticks] /\ ticking'[h] = due
      /\ \A g \in Hosts : g # h => ticking'[g] = ticking[g]
  BY <1>9, <1>b DEF Ind, Typed
<1>d. Typed'
  BY <1>2, <1>a, <1>c DEF Ind, Typed
<1>e. AllHeld'
  <2> SUFFICES ASSUME NEW g \in Hosts, NEW j \in Ids PROVE Held(socks'[g][j])
    BY DEF AllHeld
  <2>1. CASE g = h /\ j = i
    BY <1>6, <1>a, <2>1
  <2>2. CASE ~(g = h /\ j = i)
    BY <1>a, <2>2, There
  <2> QED BY <2>1, <2>2
<1>f. RetriesOK'
  <2> SUFFICES ASSUME NEW g \in Hosts, NEW j \in Ids
               PROVE  /\ socks'[g][j].retries <= MaxRetries + 1
                      /\ socks'[g][j].used /\ socks'[g][j].retries > MaxRetries => Spent(g, j)'
    BY DEF RetriesOK
  <2>1. /\ socks[g][j].retries <= MaxRetries + 1
        /\ socks[g][j].used /\ socks[g][j].retries > MaxRetries => Spent(g, j)
    BY DEF Ind, RetriesOK
  <2>2. CASE g = h /\ j = i
    <3>1. ~Spent(h, i)
      BY <1>2 DEF Spent
    <3>2. s.retries <= MaxRetries
      BY <1>1, <1>3, <1>5, <2>1, <2>2, <3>1, TcpAssumption
    <3>3. s2.retries > MaxRetries => Spent(h, i)'
      BY <1>5, <1>9, <1>c DEF Spent
    <3> QED BY <1>5, <1>a, <2>2, <3>2, <3>3, TcpAssumption
  <2>3. CASE g = h /\ j # i
    <3>1. ~Spent(g, j)
      BY <1>2, <2>3 DEF Spent
    <3> QED BY <1>a, <2>1, <2>3, <3>1
  <2>4. CASE g # h
    <3>1. Spent(g, j)' <=> Spent(g, j)
      BY <1>c, <2>4 DEF Spent
    <3> QED BY <1>a, <2>1, <2>4, <3>1
  <2> QED BY <2>2, <2>3, <2>4
<1> QED BY <1>d, <1>e, <1>f DEF Ind

\* tick acts: it sends again, or gives the connection up.
LEMMA TickActInd == ASSUME Ind, NEW h \in Hosts, TickAct(h) PROVE Ind'
<1>1. ticking[h] # NoTick /\ ticking[h] \in Ticks
  BY DEF TickAct, Ind, Typed
<1>2. PICK i \in Ids, s \in Socks : i = ticking[h].id /\ s = socks[h][i] /\ Held(s)
  <2>1. ticking[h].id \in Ids
    BY <1>1 DEF Ticks
  <2> QED BY <2>1, There
<1>3. /\ ticking' = [ticking EXCEPT ![h] = NoTick] /\ UNCHANGED <<ctr, app, net, faults, crashed>>
  BY DEF TickAct
<1>4. /\ ticking' \in [Hosts -> Ticks] /\ ticking'[h] = NoTick
      /\ \A g \in Hosts : g # h => ticking'[g] = ticking[g]
  BY <1>3 DEF Ind, Typed, Ticks
<1>5. \A g \in Hosts, j \in Ids : g # h => (Spent(g, j)' <=> Spent(g, j))
  BY <1>4 DEF Spent
<1>6. \A g \in Hosts, j \in Ids :
          /\ socks[g][j].retries <= MaxRetries + 1
          /\ socks[g][j].used /\ socks[g][j].retries > MaxRetries => Spent(g, j)
  BY DEF Ind, RetriesOK
<1>7. CASE ticking[h].giveUp
  <2>1. Put(h, i, Freed(s)) /\ UNCHANGED out
    BY <1>2, <1>7 DEF TickAct
  <2>2. PICK s2 : s2 = Freed(s)
    OBVIOUS
  <2>3. Good(s, s2)
    BY <1>2, <2>2, FreedGood
  <2>4. ~s2.used
    BY <2>2 DEF Freed, Socks
  <2>5. SocksGood
    BY <1>2, <2>1, <2>2, <2>3, PutGood
  <2>6. socks'[h][i] = s2
    BY <2>1, <2>2 DEF Put, Ind, Typed
  <2>7. Typed' /\ AllHeld'
    BY <1>3, <1>4, <2>1, <2>5 DEF Ind, Typed, AllHeld, SocksGood, Good
  <2>8. RetriesOK'
    <3> SUFFICES ASSUME NEW g \in Hosts, NEW j \in Ids
                 PROVE  /\ socks'[g][j].retries <= MaxRetries + 1
                        /\ socks'[g][j].used /\ socks'[g][j].retries > MaxRetries => Spent(g, j)'
      BY DEF RetriesOK
    <3>1. /\ socks'[g][j].retries \in {0, socks[g][j].retries}
          /\ socks'[g][j].used /\ socks'[g][j].retries # 0 => socks[g][j].used
      BY <2>5 DEF SocksGood, Good
    <3>2. socks'[g][j].retries <= MaxRetries + 1
      BY <1>6, <3>1, TcpAssumption
    <3>3. ASSUME socks'[g][j].used, socks'[g][j].retries > MaxRetries PROVE Spent(g, j)'
      <4>1. Spent(g, j)
        BY <1>6, <3>1, <3>3, TcpAssumption
      <4>2. CASE g = h
        BY <1>2, <2>4, <2>6, <3>3, <4>1, <4>2 DEF Spent
      <4>3. CASE g # h
        BY <1>5, <4>1, <4>3
      <4> QED BY <4>2, <4>3
    <3> QED BY <3>2, <3>3
  <2> QED BY <2>7, <2>8 DEF Ind
<1>8. CASE ~ticking[h].giveUp
  <2>1. UNCHANGED socks
    BY <1>8 DEF TickAct
  <2>2. out' \in [Apps \cup Hosts -> Seq(Segs)]
    <3> DEFINE n == Least(Mss, Len(s.tx))
    <3>1. s.tx \in Seq(Bytes) /\ Len(s.tx) \in Nat /\ s.iss \in SeqNos /\ s.una \in SeqNos
      BY DEF Socks
    <3>2. n \in Nat /\ n <= Len(s.tx)
      BY <3>1, LeastIs, TcpAssumption
    <3>3. SubSeq(s.tx, 1, n) \in Seq(Bytes)
      BY <3>1, <3>2
    <3>4. 0 \in SeqNos /\ {"SYN"} \in SUBSET Flags /\ {"ACK", "PSH"} \in SUBSET Flags /\ <<>> \in Seq(Bytes)
      BY TcpAssumption DEF SeqNos, Flags
    <3>5. /\ Seg(h, s, s.iss, 0, {"SYN"}, <<>>) \in Segs
          /\ Seg(h, s, s.una, 0, {"ACK", "PSH"}, SubSeq(s.tx, 1, n)) \in Segs
      BY <3>1, <3>3, <3>4, SegTyped
    <3>6. \/ out' = [out EXCEPT ![h] = <<Seg(h, s, s.iss, 0, {"SYN"}, <<>>)>>]
          \/ out' = [out EXCEPT ![h] = <<Seg(h, s, s.una, 0, {"ACK", "PSH"}, SubSeq(s.tx, 1, n))>>]
      BY <1>2, <1>8 DEF TickAct, Reply
    <3> HIDE DEF n
    <3>7. PICK sg \in Segs : out' = [out EXCEPT ![h] = <<sg>>]
      BY <3>5, <3>6
    <3> QED BY <3>7, OutTyped
  <2>3. Typed' /\ AllHeld'
    BY <1>3, <1>4, <2>1, <2>2 DEF Ind, Typed, AllHeld
  <2>4. \A j \in Ids : ~Spent(h, j)
    BY <1>8 DEF Spent
  <2>5. RetriesOK'
    BY <1>5, <1>6, <2>1, <2>4 DEF RetriesOK
  <2> QED BY <2>3, <2>5 DEF Ind
<1> QED BY <1>7, <1>8

\* The network carries segments, or loses, doubles and reorders them.
LEMMA TransmitMoves == ASSUME Ind, NEW x \in Apps \cup Hosts, Transmit(x) PROVE Moved
<1>1. out[x] # <<>> /\ out[x] \in Seq(Segs)
  BY DEF Transmit, Ind, Typed
<1>2. PICK seg \in Segs : seg = Head(out[x])
  BY <1>1
<1>3. /\ out' = [out EXCEPT ![x] = <<>>] /\ UNCHANGED <<socks, ctr, app, ticking, faults, crashed>>
      /\ net' = net \/ (seg.dst \in Hosts /\ net' = [net EXCEPT ![seg.dst] = Append(@, seg)])
  BY <1>2 DEF Transmit
<1>4. net' \in [Hosts -> Seq(Segs)]
  <2>1. seg.dst \in Hosts => Append(net[seg.dst], seg) \in Seq(Segs)
    BY DEF Ind, Typed
  <2> QED BY <1>3, <2>1 DEF Ind, Typed
<1>5. out' \in [Apps \cup Hosts -> Seq(Segs)]
  <2>1. <<>> \in Seq(Segs)
    OBVIOUS
  <2> QED BY <1>3, <2>1 DEF Ind, Typed
<1>6. SocksGood
  BY <1>3, SocksKept
<1> QED BY <1>3, <1>4, <1>5, <1>6 DEF Moved, Ind, Typed

\* What the network does to segments leaves the machines alone.
LEMMA MisbehaveMoves == ASSUME Ind, NEW h \in Hosts, Misbehave(h) PROVE Moved
<1>1. /\ faults < MaxFaults /\ net[h] # <<>> /\ faults' = faults + 1
      /\ UNCHANGED <<socks, ctr, app, out, ticking, crashed>>
  BY DEF Misbehave
<1>2. net[h] \in Seq(Segs) /\ Head(net[h]) \in Segs /\ Tail(net[h]) \in Seq(Segs)
  BY <1>1 DEF Ind, Typed
<1>3. Append(net[h], Head(net[h])) \in Seq(Segs) /\ Append(Tail(net[h]), Head(net[h])) \in Seq(Segs)
  BY <1>2
<1>4. \/ net' = [net EXCEPT ![h] = Tail(net[h])]
      \/ net' = [net EXCEPT ![h] = Append(net[h], Head(net[h]))]
      \/ net' = [net EXCEPT ![h] = Append(Tail(net[h]), Head(net[h]))]
  BY DEF Misbehave
<1>5. net' \in [Hosts -> Seq(Segs)]
  BY <1>2, <1>3, <1>4 DEF Ind, Typed
<1>6. faults' \in 0..MaxFaults
  BY <1>1, TcpAssumption DEF Ind, Typed
<1>7. SocksGood
  BY <1>1, SocksKept
<1> QED BY <1>1, <1>5, <1>6, <1>7 DEF Moved, Ind, Typed

-----------------------------------------------------------------------------
(* The invariant.                                                           *)

\* It holds in the beginning.
LEMMA InitInd == Init => Ind
<1> SUFFICES ASSUME Init PROVE Ind
  OBVIOUS
<1>1. 0 \in SeqNos /\ 0 \in Nat /\ 0 \in Ids /\ 0 \in 0..MaxBytes /\ 0 \in 0..MaxFaults /\ IssStart \in SeqNos
  BY TcpAssumption DEF SeqNos, Ids
<1>2. <<>> \in Seq(Bytes) /\ <<>> \in Seq(Segs) /\ Len(<<>>) = 0
  OBVIOUS
<1>3. socks \in [Hosts -> [Ids -> Socks]] /\ \A h \in Hosts, i \in Ids : socks[h][i] = fresh
  BY FreshTyped DEF Init
<1>4. ctr \in [Hosts -> [eph : Nat, iss : SeqNos]]
  BY <1>1 DEF Init, FirstEphemeral
<1>5. app \in [Apps -> Programs]
  BY <1>1, <1>2 DEF Init, Programs
<1>6. /\ out \in [Apps \cup Hosts -> Seq(Segs)] /\ net \in [Hosts -> Seq(Segs)]
      /\ ticking \in [Hosts -> Ticks] /\ faults \in 0..MaxFaults /\ crashed \subseteq Hosts
  BY <1>1, <1>2 DEF Init, Ticks
<1>7. Typed
  BY <1>3, <1>4, <1>5, <1>6 DEF Typed
<1>8. ~fresh.used
  BY DEF fresh
<1>9. Held(fresh)
  BY <1>2, <1>8, FreshTyped, TcpAssumption DEF Held, Connected
<1>a. AllHeld
  BY <1>3, <1>9 DEF AllHeld
<1>b. RetriesOK
  BY <1>3, <1>8, FreshTyped, TcpAssumption DEF RetriesOK
<1> QED BY <1>7, <1>a, <1>b DEF Ind

\* Every step keeps it.
LEMMA NextInd == Ind /\ [Next]_vars => Ind'
<1> SUFFICES ASSUME Ind, [Next]_vars PROVE Ind'
  OBVIOUS
<1>1. CASE UNCHANGED vars
  BY <1>1 DEF vars, Ind, Typed, AllHeld, RetriesOK, Spent
<1>2. ASSUME NEW a \in Apps, Syscall(a) PROVE Ind'
  BY <1>2, SyscallMoves, MovedInd
<1>3. ASSUME NEW h \in Hosts, Ingress(h) PROVE Ind'
  BY <1>3, IngressMoves, MovedInd
<1>4. ASSUME NEW h \in Hosts, TickDecide(h) PROVE Ind'
  BY <1>4, TickDecideInd
<1>5. ASSUME NEW h \in Hosts, TickAct(h) PROVE Ind'
  BY <1>5, TickActInd
<1>6. ASSUME NEW h \in Hosts, Misbehave(h) PROVE Ind'
  BY <1>6, MisbehaveMoves, MovedInd
<1>7. ASSUME NEW x \in Apps \cup Hosts, Transmit(x) PROVE Ind'
  BY <1>7, TransmitMoves, MovedInd
<1> QED BY <1>1, <1>2, <1>3, <1>4, <1>5, <1>6, <1>7 DEF Next

\* It always holds.
LEMMA AlwaysInd == Spec => []Ind
BY InitInd, NextInd, PTL DEF Spec

(* "The TX ring holds unacked bytes" (tcp.rs:21), whatever is lost, doubled   *)
(* or reordered, however the calls of the programs, the segments and the      *)
(* timers interleave, and however often the sequence numbers wrap: what tick   *)
(* sends again from snd_una are the bytes from snd_una.                       *)
THEOREM RingHoldsUnacked == Spec => []TxIsUnacked
<1>1. Ind => TxIsUnacked
  BY DEF Ind, AllHeld, Held, TxIsUnacked
<1> QED BY <1>1, AlwaysInd, PTL

(* Types and limits: the rings never exceed TX_CAP and RX_CAP, sequence        *)
(* numbers stay within their width, and no connection is retransmitted on     *)
(* more often than the 8 times of tick and once more to give it up.           *)
THEOREM TcpTypeCorrect == Spec => []TypeOK
<1>1. Ind => TypeOK
  <2> SUFFICES ASSUME Ind PROVE TypeOK
    OBVIOUS
  <2>1. ASSUME NEW h \in Hosts, NEW i \in Ids
        PROVE  LET s == socks[h][i]
               IN  /\ s.used \in BOOLEAN /\ s.st \in States /\ s.peer \in Hosts \cup {NoHost}
                   /\ {s.iss, s.una, s.nxt, s.rcv} \subseteq SeqNos
                   /\ Len(s.tx) <= TxCap /\ Len(s.rx) <= RxCap
                   /\ s.retries \in 0..(MaxRetries + 1) /\ s.pend \in Ids
    <3>1. PICK s \in Socks : s = socks[h][i] /\ Held(s)
      BY There
    <3>2. s.retries <= MaxRetries + 1
      BY <3>1 DEF Ind, RetriesOK
    <3>3. s.retries \in 0..(MaxRetries + 1)
      BY <3>2, TcpAssumption DEF Socks
    <3>4. /\ s.used \in BOOLEAN /\ s.st \in States /\ s.peer \in Hosts \cup {NoHost}
          /\ {s.iss, s.una, s.nxt, s.rcv} \subseteq SeqNos /\ s.pend \in Ids
      BY DEF Socks, Places
    <3>5. Len(s.tx) <= TxCap /\ Len(s.rx) <= RxCap
      BY <3>1 DEF Held
    <3> QED BY <3>1, <3>3, <3>4, <3>5
  <2>2. ASSUME NEW a \in Apps
        PROVE  app[a].id \in Ids /\ app[a].lid \in Ids /\ app[a].wrote \in 0..MaxBytes
    BY DEF Ind, Typed, Programs
  <2>3. ASSUME NEW h \in Hosts PROVE ticking[h] = NoTick \/ ticking[h].id \in Ids
    BY DEF Ind, Typed, Ticks
  <2>4. faults \in 0..MaxFaults /\ crashed \subseteq Hosts
    BY DEF Ind, Typed
  <2> QED BY <2>1, <2>2, <2>3, <2>4 DEF TypeOK
<1> QED BY <1>1, AlwaysInd, PTL

(* poll_ready answers for recv and accept in every state a socket can get      *)
(* into: 1 exactly if the call would return at once.                         *)
THEOREM PollIsHonest == Spec => []PollHonest
<1>1. Ind => PollHonest
  <2> SUFFICES ASSUME Ind, NEW h \in Hosts, NEW i \in Ids
               PROVE  LET s == socks[h][i]
                      IN  PollReady(s) <=> IF s.used /\ s.st = "Listen" THEN s.pend # 0
                                             ELSE s.rx # <<>> \/ ~s.used \/ s.eof \/ s.st = "CloseWait"
    BY DEF PollHonest
  <2>1. PICK s \in Socks : s = socks[h][i] /\ Held(s)
    BY There
  <2>2. s.st \in States /\ s.used \in BOOLEAN /\ s.eof \in BOOLEAN
    BY DEF Socks
  <2> DEFINE honest == PollReady(s) <=> IF s.used /\ s.st = "Listen" THEN s.pend # 0
                                        ELSE s.rx # <<>> \/ ~s.used \/ s.eof \/ s.st = "CloseWait"
  <2>3. ~s.used => honest
    BY DEF PollReady
  <2>4. s.used /\ s.st = "Listen" => honest
    BY DEF PollReady
  <2>5. s.used /\ s.st = "Estab" => honest
    <3>1. s.used /\ s.st = "Estab" => ~s.eof
      BY <2>1 DEF Held
    <3> QED BY <3>1 DEF PollReady
  <2>6. s.used /\ s.st = "CloseWait" => honest
    BY DEF PollReady
  <2>7. s.used /\ s.st \in {"SynSent", "SynRcvd"} => honest
    <3>1. s.used /\ s.st \in {"SynSent", "SynRcvd"} => ~s.eof /\ s.rx = <<>>
      BY <2>1 DEF Held, Opening
    <3> QED BY <3>1 DEF PollReady
  <2>8. ~(s.used /\ s.st = "Free")
    BY <2>1 DEF Held
  <2>9. honest
    <3> HIDE DEF honest
    <3> QED BY <2>2, <2>3, <2>4, <2>5, <2>6, <2>7, <2>8 DEF States
  <2> QED BY <2>1, <2>9
<1> QED BY <1>1, AlwaysInd, PTL

-----------------------------------------------------------------------------
(* Who has a socket that connect opened.                                    *)

\* Listeners, also the one that holds a handshake, have the port of the servers.
Serving(s) == s.st \in {"Listen", "SynRcvd"}
Attached(h, i) == socks[h][i].used /\ socks[h][i].lport # Port => \E a \in Apps : Holds(a, h, i)
Owned ==
    \A h \in Hosts, i \in Ids :
        /\ socks[h][i].used /\ Serving(socks[h][i]) => socks[h][i].lport = Port
        /\ Attached(h, i)

\* The socket t that a step leaves in the place of s is the same connection, or none.
Follows(s, t) == t.used => s.used /\ t.lport = s.lport /\ (Serving(t) => Serving(s))

SlotsFollow ==
    \A h \in Hosts, i \in Ids :
        \/ Follows(socks[h][i], socks'[h][i])
        \/ socks'[h][i].lport = Port
        \/ ~Serving(socks'[h][i]) /\ \E a \in Apps : Holds(a, h, i)'
HoldersStay ==
    \A a \in Apps, h \in Hosts, i \in Ids : Holds(a, h, i) => Holds(a, h, i)' \/ ~socks'[h][i].used

\* If every slot keeps its connection and every holder its slot, all stays owned.
LEMMA OwnedStep == Owned /\ SlotsFollow /\ HoldersStay => Owned'
<1> SUFFICES ASSUME Owned, SlotsFollow, HoldersStay, NEW h \in Hosts, NEW i \in Ids
             PROVE  /\ socks'[h][i].used /\ Serving(socks'[h][i]) => socks'[h][i].lport = Port
                    /\ socks'[h][i].used /\ socks'[h][i].lport # Port => \E a \in Apps : Holds(a, h, i)'
  BY DEF Owned, Attached, Serving
<1>1. CASE Follows(socks[h][i], socks'[h][i])
  BY <1>1 DEF Follows, Owned, Attached, HoldersStay
<1>2. CASE socks'[h][i].lport = Port
  BY <1>2
<1>3. CASE ~Serving(socks'[h][i]) /\ \E a \in Apps : Holds(a, h, i)'
  BY <1>3
<1> QED BY <1>1, <1>2, <1>3 DEF SlotsFollow

\* Without a step of a program the holders stay as they are.
LEMMA HoldersKept == ASSUME UNCHANGED app PROVE HoldersStay
BY DEF HoldersStay, Holds

\* A step of one program leaves the others what they hold.
LEMMA OthersStay ==
    ASSUME NEW a \in Apps, \A b \in Apps : b # a => app'[b] = app[b],
           \A i \in Ids : Holds(a, HostOf[a], i)
                          => Holds(a, HostOf[a], i)' \/ ~socks'[HostOf[a]][i].used
    PROVE  HoldersStay
<1> SUFFICES ASSUME NEW b \in Apps, NEW h \in Hosts, NEW i \in Ids, Holds(b, h, i)
             PROVE  Holds(b, h, i)' \/ ~socks'[h][i].used
  BY DEF HoldersStay
<1>1. CASE b = a
  BY <1>1 DEF Holds
<1>2. CASE b # a
  BY <1>2 DEF Holds
<1> QED BY <1>1, <1>2

\* No slot changes, or one does and follows.
LEMMA KeptFollow == ASSUME UNCHANGED socks PROVE SlotsFollow
BY DEF SlotsFollow, Follows

LEMMA PutFollows ==
    ASSUME Ind, NEW h \in Hosts, NEW i \in Ids, NEW s2, Put(h, i, s2),
           \/ Follows(socks[h][i], s2)
           \/ s2.lport = Port
           \/ ~Serving(s2) /\ \E a \in Apps : Holds(a, h, i)'
    PROVE  /\ SlotsFollow /\ socks'[h][i] = s2
           /\ \A j \in Ids : j # i => socks'[h][j] = socks[h][j]
<1>1. /\ socks'[h][i] = s2
      /\ \A g \in Hosts, j \in Ids : ~(g = h /\ j = i) => socks'[g][j] = socks[g][j]
  BY DEF Put, Ind, Typed
<1>2. SlotsFollow
  <2> SUFFICES ASSUME NEW g \in Hosts, NEW j \in Ids
               PROVE  \/ Follows(socks[g][j], socks'[g][j])
                      \/ socks'[g][j].lport = Port
                      \/ ~Serving(socks'[g][j]) /\ \E a \in Apps : Holds(a, g, j)'
    BY DEF SlotsFollow
  <2>1. CASE g = h /\ j = i
    BY <1>1, <2>1
  <2>2. CASE ~(g = h /\ j = i)
    BY <1>1, <2>2 DEF Follows
  <2> QED BY <2>1, <2>2
<1> QED BY <1>1, <1>2

\* A slot that was freed belongs to nobody.
LEMMA FreedFollows == ASSUME NEW s \in Socks PROVE Follows(s, Freed(s)) /\ ~Freed(s).used
BY DEF Freed, Follows, Socks

LEMMA ListenOwned == ASSUME Ind, Owned, NEW a \in Apps, Listen(a) PROVE Owned'
<1>1. PICK h \in Hosts : h = HostOf[a]
  BY Here
<1>2. app[a].pc = "start" /\ \A b \in Apps : b # a => app'[b] = app[b]
  BY DEF Listen, Calls, Goto, Ind, Typed
<1>3. HoldersStay
  BY <1>2, OthersStay DEF Holds
<1>4. CASE UNCHANGED socks
  BY <1>3, <1>4, KeptFollow, OwnedStep
<1>5. CASE FreeIds(h) # {}
           /\ Put(h, First(FreeIds(h)), [fresh EXCEPT !.used = TRUE, !.st = "Listen", !.lport = Port])
  <2>1. First(FreeIds(h)) \in Ids
    BY <1>5, Slot
  <2>2. [fresh EXCEPT !.used = TRUE, !.st = "Listen", !.lport = Port].lport = Port
    BY DEF fresh
  <2> QED BY <1>3, <1>5, <2>1, <2>2, PutFollows, OwnedStep
<1> QED BY <1>1, <1>4, <1>5 DEF Listen

\* connect takes a slot for its program.
LEMMA ConnectOwned == ASSUME Ind, Owned, NEW a \in Apps, Connect(a) PROVE Owned'
<1>1. PICK h \in Hosts : h = HostOf[a]
  BY Here
<1> DEFINE s == [fresh EXCEPT !.used = TRUE, !.st = "SynSent", !.lport = ctr[h].eph,
                              !.peer = ServerOf[a], !.pport = Port, !.iss = ctr[h].iss,
                              !.una = ctr[h].iss, !.nxt = Plus(ctr[h].iss, 1)]
<1>2. app[a].pc = "start" /\ \A b \in Apps : b # a => app'[b] = app[b]
  BY DEF Connect, Calls, Goto, Ind, Typed
<1>3. HoldersStay
  BY <1>2, OthersStay DEF Holds
<1>4. CASE UNCHANGED socks
  BY <1>3, <1>4, KeptFollow, OwnedStep
<1>5. CASE FreeIds(h) # {} /\ Put(h, First(FreeIds(h)), s)
           /\ app' = [app EXCEPT ![a].pc = "connecting", ![a].id = First(FreeIds(h))]
  <2>1. PICK n \in Ids : n = First(FreeIds(h))
    BY <1>5, Slot
  <2>2. s.st = "SynSent"
    BY DEF fresh
  <2>3. app'[a].pc = "connecting" /\ app'[a].id = n
    BY <1>5, <2>1, <1>2, Here DEF Ind, Typed, Programs
  <2>4. Holds(a, h, n)'
    BY <1>1, <2>3 DEF Holds
  <2>5. Put(h, n, s)
    BY <1>5, <2>1
  <2> HIDE DEF s
  <2>6. ~Serving(s)
    BY <2>2 DEF Serving
  <2> QED BY <1>3, <2>4, <2>5, <2>6, PutFollows, OwnedStep
<1> QED BY <1>1, <1>4, <1>5 DEF Connect

\* A program that goes on with its socket, or without it once it is free.
LEMMA GoesOn ==
    ASSUME Ind, Owned, NEW a \in Apps, SlotsFollow, \A b \in Apps : b # a => app'[b] = app[b],
           \/ app'[a].id = app[a].id /\ app'[a].pc \in {"connecting", "expired", "open"}
           \/ app[a].pc \notin {"connecting", "expired", "open"}
           \/ ~socks'[HostOf[a]][app[a].id].used
    PROVE  Owned'
<1>1. HoldersStay
  BY OthersStay DEF Holds
<1> QED BY <1>1, OwnedStep

LEMMA WaitOwned ==
    ASSUME Ind, Owned, NEW a \in Apps, ConnectReturns(a) \/ ConnectExpires(a) PROVE Owned'
<1>1. UNCHANGED socks /\ SlotsFollow
  BY KeptFollow DEF ConnectReturns, ConnectExpires
<1>2. \A b \in Apps : b # a => app'[b] = app[b]
  BY DEF ConnectReturns, ConnectExpires, Goto, Ind, Typed
<1>3. \/ Goto(a, "open") \/ Goto(a, "expired")
      \/ Goto(a, "done") /\ ~Sock(a).used
  BY DEF ConnectReturns, ConnectExpires
<1>4. \A pc : Goto(a, pc) => app'[a].pc = pc /\ app'[a].id = app[a].id
  BY Here DEF Goto, Ind, Typed, Programs
<1> QED BY <1>1, <1>2, <1>3, <1>4, GoesOn DEF Sock

\* The time-out frees the slot before the program turns away.
LEMMA TimeoutOwned == ASSUME Ind, Owned, NEW a \in Apps, ConnectTimeout(a) PROVE Owned'
<1>1. PICK h \in Hosts, i \in Ids, s \in Socks : h = HostOf[a] /\ i = app[a].id /\ s = socks[h][i] /\ s = Sock(a)
  BY Here
<1>2. Put(h, i, Freed(s)) /\ Goto(a, "done")
  BY <1>1 DEF ConnectTimeout
<1>3. Follows(socks[h][i], Freed(s)) /\ ~Freed(s).used
  BY <1>1, FreedFollows
<1>4. SlotsFollow /\ socks'[h][i] = Freed(s)
  BY <1>2, <1>3, PutFollows
<1>5. \A b \in Apps : b # a => app'[b] = app[b]
  BY <1>2 DEF Goto, Ind, Typed
<1> QED BY <1>1, <1>3, <1>4, <1>5, GoesOn

LEMMA AcceptOwned == ASSUME Ind, Owned, NEW a \in Apps, Accept(a) PROVE Owned'
<1>1. PICK h \in Hosts, i \in Ids, s \in Socks : h = HostOf[a] /\ i = app[a].lid /\ s = socks[h][i]
  BY Here
<1>2. app[a].pc = "accepting" /\ \A b \in Apps : b # a => app'[b] = app[b]
  BY DEF Accept, Calls, Goto, Ind, Typed
<1>3. UNCHANGED socks \/ Put(h, i, [s EXCEPT !.pend = 0])
  BY <1>1 DEF Accept
<1>4. Follows(s, [s EXCEPT !.pend = 0])
  BY DEF Follows, Serving, Socks
<1>5. SlotsFollow
  BY <1>1, <1>3, <1>4, KeptFollow, PutFollows
<1> QED BY <1>2, <1>5, GoesOn

LEMMA SendOwned == ASSUME Ind, Owned, NEW a \in Apps, Send(a) PROVE Owned'
<1>1. PICK h \in Hosts, i \in Ids, s \in Socks : h = HostOf[a] /\ i = app[a].id /\ s = socks[h][i] /\ s = Sock(a)
  BY Here
<1>2. PICK tx, nxt : Put(h, i, [s EXCEPT !.tx = tx, !.nxt = nxt])
  BY <1>1 DEF Send
<1>3. Follows(s, [s EXCEPT !.tx = tx, !.nxt = nxt])
  BY DEF Follows, Serving, Socks
<1>4. SlotsFollow
  BY <1>1, <1>2, <1>3, PutFollows
<1>5. PICK n : app' = [app EXCEPT ![a].wrote = n]
  BY DEF Send
<1>6. app[a].pc = "open"
  BY DEF Send, Calls
<1>7. app'[a].id = app[a].id /\ app'[a].pc = "open" /\ \A b \in Apps : b # a => app'[b] = app[b]
  BY <1>5, <1>6, Here DEF Ind, Typed, Programs
<1> QED BY <1>4, <1>7, GoesOn

LEMMA RecvOwned == ASSUME Ind, Owned, NEW a \in Apps, Recv(a) PROVE Owned'
<1>1. PICK h \in Hosts, i \in Ids, s \in Socks : h = HostOf[a] /\ i = app[a].id /\ s = socks[h][i] /\ s = Sock(a)
  BY Here
<1>2. \A b \in Apps : b # a => app'[b] = app[b]
  BY DEF Recv, Goto, Ind, Typed
<1>3. app[a].pc = "open"
  BY DEF Recv, Calls
<1>4. \A n : Follows(s, Popped(s, n))
  BY DEF Popped, Follows, Serving, Socks
<1>5. CASE \E n \in 1..Least(Mss, Len(s.rx)) :
              /\ Put(h, i, Popped(s, n))
              /\ app' = [app EXCEPT ![a].got = @ \o SubSeq(s.rx, 1, n)]
  <2>1. PICK n, got : Put(h, i, Popped(s, n)) /\ app' = [app EXCEPT ![a].got = got]
    BY <1>5
  <2>2. app'[a].id = app[a].id /\ app'[a].pc = "open"
    BY <1>3, <2>1, Here DEF Ind, Typed, Programs
  <2>3. SlotsFollow
    BY <1>1, <1>4, <2>1, PutFollows
  <2> QED BY <1>2, <2>2, <2>3, GoesOn
<1>6. CASE ~s.used /\ Goto(a, "done") /\ UNCHANGED socks
  BY <1>1, <1>2, <1>6, KeptFollow, GoesOn
<1>7. CASE app' = [app EXCEPT ![a].eof = TRUE] /\ UNCHANGED socks
  <2>1. app'[a].id = app[a].id /\ app'[a].pc = "open"
    BY <1>3, <1>7, Here DEF Ind, Typed, Programs
  <2> QED BY <1>2, <1>7, <2>1, KeptFollow, GoesOn
<1> QED BY <1>1, <1>5, <1>6, <1>7 DEF Recv

LEMMA CloseOwned == ASSUME Ind, Owned, NEW a \in Apps, Close(a) PROVE Owned'
<1>1. PICK call \in {[pc |-> "open", id |-> app[a].id], [pc |-> "accepting", id |-> app[a].lid]} :
          /\ app[a].pc = call.pc
          /\ Goto(a, IF call.pc = "open" /\ Role[a] = "server" THEN "accepting" ELSE "done")
          /\ IF socks[HostOf[a]][call.id].used
             THEN Put(HostOf[a], call.id, Freed(socks[HostOf[a]][call.id]))
             ELSE UNCHANGED socks
  BY DEF Close, Calls
<1>2. PICK h \in Hosts, i \in Ids, s \in Socks : h = HostOf[a] /\ i = call.id /\ s = socks[h][i]
  BY <1>1, Here
<1>3. \A b \in Apps : b # a => app'[b] = app[b]
  BY <1>1 DEF Goto, Ind, Typed
<1>4. Follows(s, Freed(s)) /\ ~Freed(s).used
  BY FreedFollows
<1>5. SlotsFollow /\ ~socks'[h][i].used
  <2>1. CASE s.used
    BY <1>1, <1>2, <1>4, <2>1, PutFollows
  <2>2. CASE ~s.used
    BY <1>1, <1>2, <2>2, KeptFollow
  <2> QED BY <2>1, <2>2
<1>6. CASE call = [pc |-> "open", id |-> app[a].id]
  BY <1>2, <1>3, <1>5, <1>6, GoesOn
<1>7. CASE call = [pc |-> "accepting", id |-> app[a].lid]
  BY <1>1, <1>3, <1>5, <1>7, GoesOn
<1> QED BY <1>1, <1>6, <1>7

\* What an established connection becomes is still the connection.
LEMMA StreamFollows ==
    ASSUME NEW s \in Socks, NEW seg, s.st \in {"Estab", "CloseWait"}
    PROVE  Follows(s, Finished(Took(Acked(s, seg), seg), seg))
<1> DEFINE Same(t, u) == /\ DOMAIN t = DOMAIN s /\ DOMAIN u = DOMAIN t
                         /\ u.used = t.used /\ u.lport = t.lport /\ u.st \in {t.st, "CloseWait"}
<1>1. PICK a, b, c : a = Acked(s, seg) /\ b = Took(a, seg) /\ c = Finished(b, seg)
  OBVIOUS
<1>0. /\ \A f \in {"used", "lport", "st", "tx", "una", "retries", "rx", "rcv", "eof"} : f \in DOMAIN s
  BY DEF Socks
<1>2. Same(s, a)
  BY <1>0, <1>1 DEF Acked
<1>3. Same(a, b)
  BY <1>0, <1>1, <1>2 DEF Took
<1>4. Same(b, c)
  BY <1>0, <1>1, <1>2, <1>3 DEF Finished
<1>5. c.used = s.used /\ c.lport = s.lport /\ ~Serving(c)
  BY <1>2, <1>3, <1>4 DEF Serving
<1> QED BY <1>1, <1>5 DEF Follows

\* The connection a handshake ends in has the port of its listener.
LEMMA PromoteFollows ==
    ASSUME Ind, Owned, NEW h \in Hosts, NEW i \in Ids, NEW seg, socks[h][i].used,
           socks[h][i].st = "SynRcvd", Promote(h, i, seg)
    PROVE  SlotsFollow
<1>1. PICK c \in Socks : c = socks[h][i] /\ c.used /\ c.st = "SynRcvd"
  BY There
<1>2. c.lport = Port
  BY <1>1 DEF Owned, Serving
<1> DEFINE s == [c EXCEPT !.una = seg.ack, !.st = "Listen"]
           child == [fresh EXCEPT !.used = TRUE, !.st = "Estab", !.lport = s.lport,
                                  !.peer = s.peer, !.pport = s.pport, !.iss = s.iss,
                                  !.una = seg.ack, !.nxt = seg.ack, !.rcv = s.rcv]
<1>3. s.lport = Port
  BY <1>2 DEF Socks
<1>4. CASE FreeIds(h) = {}
  <2>1. Put(h, i, s)
    BY <1>1, <1>4 DEF Promote, Post
  <2> QED BY <1>3, <2>1, PutFollows
<1>5. CASE FreeIds(h) # {}
  <2>1. PICK n \in Ids : n = First(FreeIds(h)) /\ n \in FreeIds(h)
    BY <1>5, Slot
  <2>2. child.lport = Port /\ [s EXCEPT !.pend = n].lport = Port
    <3>1. child.lport = s.lport
      BY DEF fresh
    <3>2. [s EXCEPT !.pend = n].lport = s.lport
      BY DEF Socks
    <3> QED BY <1>3, <3>1, <3>2
  <2>3. socks' = [socks EXCEPT ![h][i] = [s EXCEPT !.pend = n], ![h][n] = child]
    BY <1>1, <1>5, <2>1 DEF Promote
  <2>4. PICK x, y : x = [s EXCEPT !.pend = n] /\ y = child
    OBVIOUS
  <2> HIDE DEF s, child
  <2>5. x.lport = Port /\ y.lport = Port /\ socks' = [socks EXCEPT ![h][i] = x, ![h][n] = y]
    BY <2>2, <2>3, <2>4
  <2>6. \A g \in Hosts, j \in Ids : socks'[g][j] \in {socks[g][j], x, y}
    BY <2>5 DEF Ind, Typed
  <2> QED BY <2>5, <2>6 DEF SlotsFollow, Follows
<1> QED BY <1>4, <1>5

\* netd handles a segment: no connection gets another port, none is opened.
LEMMA IngressOwned == ASSUME Ind, Owned, NEW h \in Hosts, Ingress(h) PROVE Owned'
<1>1. net[h] # <<>> /\ net[h] \in Seq(Segs) /\ UNCHANGED app
  BY DEF Ingress, Ind, Typed
<1>2. PICK seg \in Segs : seg = Head(net[h])
  BY <1>1
<1>3. CASE UNCHANGED socks
  BY <1>1, <1>3, HoldersKept, KeptFollow, OwnedStep
<1>4. ASSUME NEW i \in Ids, socks[h][i].used, handle_inband(h, i, seg) PROVE SlotsFollow
  <2>1. PICK s \in Socks : s = socks[h][i] /\ s.used
    BY <1>4, There
  <2>2. CASE Put(h, i, Freed(s))
    BY <2>1, <2>2, FreedFollows, PutFollows
  <2>3. CASE s.st \in {"Estab", "CloseWait"} /\ InStream(h, i, seg)
    <3>1. UNCHANGED socks \/ Put(h, i, Finished(Took(Acked(s, seg), seg), seg))
      BY <2>1, <2>3 DEF InStream
    <3>2. Follows(s, Finished(Took(Acked(s, seg), seg), seg))
      BY <2>3, StreamFollows
    <3> QED BY <2>1, <3>1, <3>2, KeptFollow, PutFollows
  <2>4. CASE s.st = "SynSent" /\ Establish(h, i, seg)
    <3>1. Put(h, i, [s EXCEPT !.rcv = Plus(seg.seq, 1), !.una = seg.ack, !.st = "Estab"])
      BY <2>1, <2>4 DEF Establish, Post
    <3>2. Follows(s, [s EXCEPT !.rcv = Plus(seg.seq, 1), !.una = seg.ack, !.st = "Estab"])
      BY DEF Follows, Serving, Socks
    <3> QED BY <2>1, <3>1, <3>2, PutFollows
  <2>5. CASE s.st = "SynRcvd" /\ Promote(h, i, seg)
    BY <2>1, <2>5, PromoteFollows
  <2>6. CASE UNCHANGED socks
    BY <2>6, KeptFollow
  <2> QED BY <1>4, <2>1, <2>2, <2>3, <2>4, <2>5, <2>6 DEF handle_inband
<1>5. CASE Matching(h, seg) # {} /\ handle_inband(h, First(Matching(h, seg)), seg)
  <2>1. PICK i \in Ids : i = First(Matching(h, seg)) /\ socks[h][i].used
    BY <1>5, FirstIn DEF Matching
  <2>2. SlotsFollow
    BY <1>4, <1>5, <2>1
  <2> QED BY <1>1, <2>2, HoldersKept, OwnedStep
<1>6. CASE Listening(h, seg) # {} /\ handle_syn(h, First(Listening(h, seg)), seg)
  <2>1. PICK i \in Ids : i = First(Listening(h, seg)) /\ socks[h][i].used /\ socks[h][i].st = "Listen"
    BY <1>6, FirstIn DEF Listening
  <2>2. PICK s \in Socks : s = socks[h][i]
    BY There
  <2>3. PICK x \in Socks : Put(h, i, x) /\ x.lport = s.lport
    <3>1. PICK y : y = [s EXCEPT !.st = "SynRcvd", !.peer = seg.src, !.pport = seg.sport,
                                 !.iss = ctr[h].iss, !.una = ctr[h].iss,
                                 !.nxt = Plus(ctr[h].iss, 1), !.rcv = Plus(seg.seq, 1)]
      OBVIOUS
    <3>2. seg.src \in Places /\ seg.sport \in Nat /\ Plus(seg.seq, 1) \in SeqNos
      BY SeqTypes DEF Segs, Places
    <3>3. y \in Socks /\ y.lport = s.lport
      BY <3>1, <3>2, There DEF Socks, States
    <3>4. Put(h, i, y)
      BY <1>6, <2>1, <2>2, <3>1 DEF handle_syn, Post
    <3> QED BY <3>3, <3>4
  <2>4. x.lport = Port
    BY <2>1, <2>2, <2>3 DEF Owned, Serving
  <2> QED BY <1>1, <2>3, <2>4, PutFollows, HoldersKept, OwnedStep
<1> QED BY <1>1, <1>2, <1>3, <1>5, <1>6 DEF Ingress

\* tick counts, and frees the slot of a connection it gives up.
LEMMA TickOwned == ASSUME Ind, Owned, NEW h \in Hosts, TickDecide(h) \/ TickAct(h) PROVE Owned'
<1>1. UNCHANGED app
  BY DEF TickDecide, TickAct
<1>2. CASE TickDecide(h)
  <2>1. PICK i \in Ids, s \in Socks : s = socks[h][i] /\ Put(h, i, [s EXCEPT !.retries = @ + 1])
    BY <1>2, There DEF TickDecide, TickDue
  <2>2. Follows(s, [s EXCEPT !.retries = @ + 1])
    BY DEF Follows, Serving, Socks
  <2> QED BY <1>1, <2>1, <2>2, PutFollows, HoldersKept, OwnedStep
<1>3. CASE TickAct(h)
  <2>1. CASE UNCHANGED socks
    BY <1>1, <2>1, HoldersKept, KeptFollow, OwnedStep
  <2>2. CASE ticking[h].giveUp
    <3>1. ticking[h].id \in Ids
      BY <1>3 DEF TickAct, Ind, Typed, Ticks
    <3>2. PICK i \in Ids, s \in Socks : s = socks[h][i] /\ Put(h, i, Freed(s))
      BY <1>3, <2>2, <3>1, There DEF TickAct
    <3> QED BY <1>1, <3>2, FreedFollows, PutFollows, HoldersKept, OwnedStep
  <2> QED BY <1>3, <2>1, <2>2 DEF TickAct
<1> QED BY <1>2, <1>3

(* A socket that connect opened has a program that holds it until it is       *)
(* freed: whatever the order of the give-up of connect, a late SYN|ACK, the   *)
(* reset by tick and a close, for any number of machines, programs and        *)
(* slots, no connection is left open that nobody can close.                  *)
THEOREM OpenedAreHeld == Spec => []OpenedHeld
<1>1. Init => Owned
  BY DEF Init, Owned, Attached, fresh
<1>2. Ind /\ Owned /\ [Next]_vars => Owned'
  <2> SUFFICES ASSUME Ind, Owned, [Next]_vars PROVE Owned'
    OBVIOUS
  <2>1. CASE UNCHANGED vars
    BY <2>1 DEF vars, Owned, Attached, Holds
  <2>2. ASSUME NEW a \in Apps, Syscall(a) PROVE Owned'
    BY <2>2, ListenOwned, ConnectOwned, WaitOwned, TimeoutOwned, AcceptOwned, SendOwned, RecvOwned,
       CloseOwned DEF Syscall
  <2>3. ASSUME NEW h \in Hosts, Ingress(h) PROVE Owned'
    BY <2>3, IngressOwned
  <2>4. ASSUME NEW h \in Hosts, TickDecide(h) \/ TickAct(h) PROVE Owned'
    BY <2>4, TickOwned
  <2>5. ASSUME UNCHANGED <<socks, app>> PROVE Owned'
    BY <2>5, KeptFollow, HoldersKept, OwnedStep
  <2>6. (\E h \in Hosts : Misbehave(h)) \/ (\E x \in Apps \cup Hosts : Transmit(x)) => UNCHANGED <<socks, app>>
    BY DEF Misbehave, Transmit
  <2> QED BY <2>1, <2>2, <2>3, <2>4, <2>5, <2>6 DEF Next
<1>3. Owned => OpenedHeld
  BY DEF Owned, Attached, OpenedHeld
<1> QED BY <1>1, <1>2, <1>3, AlwaysInd, PTL DEF Spec
=============================================================================
