------------------------------ MODULE PipeProof ------------------------------
(***************************************************************************)
(* Proofs about Pipe: type correctness, that the counts of a pipe's ends   *)
(* cover, and without signals equal, the ends on record, that an end of    *)
(* file told to a reader is final, and that bytes arrive in the order they *)
(* were written until a ring mixes two passes.                             *)
(***************************************************************************)
EXTENDS Pipe, FiniteSetTheorems, WellFoundedInduction, TLAPS

-----------------------------------------------------------------------------
(* What storing and loading do to the bytes of a ring.                      *)

\* A remainder of a position less than twice around the ring.
LEMMA Wrap ==
    ASSUME NEW x \in Nat, x < Cap + Cap
    PROVE  /\ x % Cap \in Ring
           /\ x < Cap => x % Cap = x
           /\ x >= Cap => x % Cap = x - Cap
BY RingAssumption DEF Ring

\* Store writes bytes into the ring.
LEMMA StoreType ==
    ASSUME NEW buf \in [Ring -> Bytes], NEW pos \in Ring, NEW data \in Seq(Bytes)
    PROVE  Store(buf, pos, data) \in [Ring -> Bytes]
<1> SUFFICES ASSUME NEW j \in Ring
             PROVE  (LET k == (j + Cap - pos) % Cap
                     IN  IF k < Len(data) THEN data[k + 1] ELSE buf[j]) \in Bytes
  BY DEF Store
<1> DEFINE k == (j + Cap - pos) % Cap
<1>1. j + Cap - pos \in Nat /\ j + Cap - pos < Cap + Cap
  BY RingAssumption DEF Ring
<1>2. k \in Nat
  BY <1>1, Wrap, RingAssumption DEF Ring
<1> HIDE DEF k
<1>3. k < Len(data) => data[k + 1] \in Bytes
  BY <1>2
<1>4. buf[j] \in Bytes
  OBVIOUS
<1>5. (IF k < Len(data) THEN data[k + 1] ELSE buf[j]) \in Bytes
  BY <1>3, <1>4
<1> QED BY <1>5 DEF k

\* Load reads a sequence of bytes.
LEMMA LoadType ==
    ASSUME NEW buf \in [Ring -> Bytes], NEW pos \in Ring, NEW n \in 0..Cap
    PROVE  /\ Load(buf, pos, n) \in Seq(Bytes) /\ Len(Load(buf, pos, n)) = n
           /\ \A i \in 1..n : Load(buf, pos, n)[i] = buf[(pos + i - 1) % Cap]
<1>1. n \in Nat
  BY RingAssumption
<1>2. \A i \in 1..n : pos + i - 1 \in Nat /\ pos + i - 1 < Cap + Cap
  BY RingAssumption DEF Ring
<1>3. \A i \in 1..n : buf[(pos + i - 1) % Cap] \in Bytes
  BY <1>2, Wrap
<1>4. Load(buf, pos, n) \in [1..n -> Bytes]
  BY <1>3 DEF Load
<1> QED BY <1>1, <1>4 DEF Load

-----------------------------------------------------------------------------
(* Handles, free entries and the operations on the table.                   *)

\* A handle names one end of one pipe.
LEMMA HandleNames ==
    /\ \A p \in Pipes : /\ ReadEnd(p) \in Handles /\ WriteEnd(p) \in Handles
                        /\ SlotOf(ReadEnd(p)) = p /\ SlotOf(WriteEnd(p)) = p
                        /\ ~IsWriteEnd(ReadEnd(p)) /\ IsWriteEnd(WriteEnd(p))
                        /\ ReadEnd(p) # WriteEnd(p)
    /\ \A h \in Handles : /\ SlotOf(h) \in Pipes
                          /\ IsWriteEnd(h) => h = WriteEnd(SlotOf(h))
                          /\ ~IsWriteEnd(h) => h = ReadEnd(SlotOf(h))
    /\ NONE \notin Handles
BY PipeAssumption DEF Pipes, Handles, ReadEnd, WriteEnd, SlotOf, IsWriteEnd, NONE

\* First picks an element: a set of indexes that is not empty has a least one.
LEMMA FirstIn ==
    ASSUME NEW S \in SUBSET Nat, S # {}
    PROVE  First(S) \in S
<1>2. \E m \in S : \A j \in S : ~(<<j, m>> \in OpToRel(<, Nat))
  BY NatLessThanWellFounded, WFMin
<1>3. PICK m \in S : \A j \in S : ~(<<j, m>> \in OpToRel(<, Nat))
  BY <1>2
<1>4. \A j \in S : m <= j
  <2> TAKE j \in S
  <2>1. ~(j < m)
    BY <1>3 DEF OpToRel
  <2> QED BY <2>1
<1> QED BY <1>3, <1>4 DEF First

\* The entries open, fork, clone and spawn take are free ones.
LEMMA FreeFound ==
    /\ FreePipes # {} => First(FreePipes) \in Pipes /\ ~pipes[First(FreePipes)].used
    /\ FreeSlots # {} => First(FreeSlots) \in Slots /\ tasks[First(FreeSlots)].life = "Dead"
<1>1. FreePipes \in SUBSET Nat /\ FreeSlots \in SUBSET Nat
  BY PipeAssumption DEF FreePipes, FreeSlots, Pipes, Slots
<1> QED BY <1>1, FirstIn DEF FreePipes, FreeSlots

\* The next end to release is one of the ends.
LEMMA FirstEnd ==
    ASSUME NEW H \in SUBSET Handles, H # {}
    PROVE  First(H) \in H
<1>1. H \in SUBSET Nat
  BY PipeAssumption DEF Handles
<1> QED BY <1>1, FirstIn

TableOK(P) == P \in [Pipes -> PipeType] /\ \A p \in Pipes : P[p].used \/ P[p] = FreshPipe

\* An entry that nobody uses is well formed.
LEMMA FreshOK == FreshPipe \in PipeType
<1>1. FreshRing \in [Ring -> Bytes] /\ 0 \in Ring /\ 0 \in 0..Cap
  BY RingAssumption DEF FreshRing, Ring
<1> QED BY <1>1 DEF FreshPipe, PipeType

\* The counter of one end.
Count(P, h) == IF IsWriteEnd(h) THEN P[SlotOf(h)].writers ELSE P[SlotOf(h)].readers

\* close lowers the count of its end and of no other, and never below zero.
LEMMA CloseEndTable ==
    ASSUME NEW P, TableOK(P), NEW h \in Handles
    PROVE  /\ TableOK(CloseEnd(P, h))
           /\ Count(P, h) > 0 => Count(CloseEnd(P, h), h) = Count(P, h) - 1
           /\ Count(P, h) = 0 => Count(CloseEnd(P, h), h) = 0
           /\ \A g \in Handles : g # h => Count(CloseEnd(P, h), g) = Count(P, g)
<1> DEFINE s == SlotOf(h)
           p == P[s]
           q == IF IsWriteEnd(h) THEN [p EXCEPT !.writers = @ - 1] ELSE [p EXCEPT !.readers = @ - 1]
           r == IF q.readers = 0 /\ q.writers = 0 THEN FreshPipe ELSE q
<1>1. s \in Pipes /\ p \in PipeType /\ (p.used \/ p = FreshPipe)
  BY HandleNames DEF TableOK
<1>2. CASE ~p.used \/ (IF IsWriteEnd(h) THEN p.writers ELSE p.readers) = 0
  <2>1. CloseEnd(P, h) = P
    BY <1>2 DEF CloseEnd
  <2>2. Count(P, h) = 0
    BY <1>1, <1>2 DEF Count, FreshPipe
  <2> QED BY <2>1, <2>2
<1>3. CASE p.used /\ (IF IsWriteEnd(h) THEN p.writers ELSE p.readers) # 0
  <2>1. CloseEnd(P, h) = [P EXCEPT ![s] = r]
    BY <1>3 DEF CloseEnd
  <2>2. /\ q \in PipeType /\ q.used
        /\ IsWriteEnd(h) => q.writers = p.writers - 1 /\ q.readers = p.readers
        /\ ~IsWriteEnd(h) => q.readers = p.readers - 1 /\ q.writers = p.writers
    BY <1>1, <1>3 DEF PipeType
  <2>3. /\ r \in PipeType /\ (r.used \/ r = FreshPipe)
        /\ IsWriteEnd(h) => r.writers = p.writers - 1 /\ r.readers = p.readers
        /\ ~IsWriteEnd(h) => r.readers = p.readers - 1 /\ r.writers = p.writers
    BY <2>2, FreshOK DEF FreshPipe
  <2> HIDE DEF r
  <2>4. TableOK([P EXCEPT ![s] = r])
    BY <1>1, <2>3 DEF TableOK
  <2>5. [P EXCEPT ![s] = r][s] = r /\ \A t \in Pipes : t # s => [P EXCEPT ![s] = r][t] = P[t]
    BY <1>1 DEF TableOK
  <2>6. p.writers \in Nat /\ p.readers \in Nat
    BY <1>1 DEF PipeType
  <2>7. Count(P, h) > 0 /\ Count([P EXCEPT ![s] = r], h) = Count(P, h) - 1
    BY <1>3, <2>3, <2>5, <2>6 DEF Count
  <2>8. ASSUME NEW g \in Handles, g # h
        PROVE  Count([P EXCEPT ![s] = r], g) = Count(P, g)
    <3>1. SlotOf(g) \in Pipes /\ (SlotOf(g) = s => (IsWriteEnd(g) <=> ~IsWriteEnd(h)))
      BY <2>8, HandleNames
    <3> QED BY <1>1, <2>3, <2>5, <3>1 DEF Count
  <2>9. Count(P, h) \in Nat
    BY <2>6 DEF Count
  <2>10. Count(P, h) # 0
    BY <2>7, <2>9
  <2> HIDE DEF s
  <2> QED BY <2>1, <2>4, <2>7, <2>8, <2>10
<1> QED BY <1>2, <1>3

\* acquire_end raises the counts of the ends it is given, in pipes in use.
LEMMA AcquireTable ==
    ASSUME NEW P, TableOK(P), NEW H \in SUBSET Handles
    PROVE  /\ TableOK(AcquireEnds(P, H))
           /\ \A h \in Handles : Count(AcquireEnds(P, H), h) =
                 Count(P, h) + (IF h \in H /\ P[SlotOf(h)].used THEN 1 ELSE 0)
<1> DEFINE A(p) == IF ~P[p].used THEN P[p]
                   ELSE [P[p] EXCEPT !.readers = @ + (IF ReadEnd(p) \in H THEN 1 ELSE 0),
                                     !.writers = @ + (IF WriteEnd(p) \in H THEN 1 ELSE 0)]
<1>1. AcquireEnds(P, H) = [p \in Pipes |-> A(p)]
  BY DEF AcquireEnds
<1>2. ASSUME NEW p \in Pipes
      PROVE  /\ A(p) \in PipeType /\ (A(p).used \/ A(p) = FreshPipe)
             /\ A(p).readers = P[p].readers + (IF ReadEnd(p) \in H /\ P[p].used THEN 1 ELSE 0)
             /\ A(p).writers = P[p].writers + (IF WriteEnd(p) \in H /\ P[p].used THEN 1 ELSE 0)
  <2>1. P[p] \in PipeType /\ (P[p].used \/ P[p] = FreshPipe)
    BY DEF TableOK
  <2>2. P[p].readers \in Nat /\ P[p].writers \in Nat
    BY <2>1 DEF PipeType
  <2>3. CASE ~P[p].used
    BY <2>1, <2>2, <2>3
  <2>4. CASE P[p].used
    <3> DEFINE r == P[p].readers + (IF ReadEnd(p) \in H THEN 1 ELSE 0)
               w == P[p].writers + (IF WriteEnd(p) \in H THEN 1 ELSE 0)
    <3>1. r \in Nat /\ w \in Nat
      BY <2>2
    <3>2. A(p) = [P[p] EXCEPT !.readers = r, !.writers = w]
      BY <2>1, <2>4 DEF PipeType
    <3> HIDE DEF r, w
    <3>3. A(p) \in PipeType /\ A(p).used /\ A(p).readers = r /\ A(p).writers = w
      BY <2>1, <2>4, <3>1, <3>2 DEF PipeType
    <3> QED BY <2>4, <3>3 DEF r, w
  <2> QED BY <2>3, <2>4
<1> HIDE DEF A
<1>3. TableOK(AcquireEnds(P, H))
  BY <1>1, <1>2 DEF TableOK
<1>4. ASSUME NEW h \in Handles
      PROVE  Count(AcquireEnds(P, H), h) =
                 Count(P, h) + (IF h \in H /\ P[SlotOf(h)].used THEN 1 ELSE 0)
  <2>1. SlotOf(h) \in Pipes
    BY HandleNames
  <2>2. AcquireEnds(P, H)[SlotOf(h)] = A(SlotOf(h))
    BY <1>1, <2>1
  <2> QED BY <1>2, <2>1, <2>2, HandleNames DEF Count
<1> QED BY <1>3, <1>4

\* open() counts one reader and one writer of the pipe it takes.
LEMMA OpenedTable ==
    ASSUME TableOK(pipes), NEW p \in Pipes, Opened(p)
    PROVE  /\ TableOK(pipes')
           /\ \A h \in Handles : Count(pipes', h) = IF SlotOf(h) = p THEN 1 ELSE Count(pipes, h)
<1> DEFINE n == [FreshPipe EXCEPT !.used = TRUE, !.readers = 1, !.writers = 1]
<1>1. pipes' = [pipes EXCEPT ![p] = n]
  BY DEF Opened
<1>2. n \in PipeType /\ n.used /\ n.readers = 1 /\ n.writers = 1
  BY FreshOK DEF PipeType, FreshPipe
<1> HIDE DEF n
<1>3. TableOK(pipes')
  BY <1>1, <1>2 DEF TableOK
<1>4. \A h \in Handles : SlotOf(h) \in Pipes
  BY HandleNames
<1> QED BY <1>1, <1>2, <1>3, <1>4 DEF TableOK, Count

-----------------------------------------------------------------------------
(* Types.                                                                   *)

\* A task slot nobody uses, and one whose task has left, are well formed.
LEMMA TaskShapes ==
    /\ NoTask \in TaskType
    /\ \A H \in SUBSET Handles : Leaving(H) \in TaskType
<1>1. NoOp \in OpType
  BY DEF NoOp, OpType
<1> QED BY <1>1 DEF NoTask, Leaving, TaskType

\* What a call under way is about.
LEMMA OpShape ==
    ASSUME TypeOK, NEW t \in Slots
    PROVE  /\ tasks[t].op.kind = "write" =>
                 /\ tasks[t].op.h \in Handles /\ tasks[t].op.data \in Seq(Bytes)
                 /\ tasks[t].op.more \in Seq(Bytes)
                 /\ tasks[t].op \in [kind : {"write"}, h : Handles, data : Seq(Bytes),
                                      more : Seq(Bytes)]
           /\ tasks[t].op.kind = "read" =>
                 /\ tasks[t].op.h \in Handles /\ tasks[t].op.len \in ReadLens
           /\ tasks[t].op = NoOp => tasks[t].op.kind = "none"
<1>1. tasks[t].op \in OpType
  BY DEF TypeOK, TaskType
<1> QED BY <1>1 DEF OpType, NoOp

\* A pass moves no more than there is room for, and no more than was asked for.
LEMMA LeastIs ==
    ASSUME NEW room \in Nat, NEW asked \in Nat
    PROVE  /\ Least(room, asked) \in Nat
           /\ Least(room, asked) <= room /\ Least(room, asked) <= asked
BY DEF Least

\* Feeding a message starts a write to the same end.
LEMMA FeedingType ==
    ASSUME NEW h \in Handles, NEW m \in Seq(Bytes), NEW chunk \in Nat
    PROVE  /\ Feeding(h, m, chunk) \in OpType
           /\ Feeding(h, m, chunk).kind = "write" /\ Feeding(h, m, chunk).h = h
<1> DEFINE n == Least(chunk, Len(m))
           d == SubSeq(m, 1, n)
           e == SubSeq(m, n + 1, Len(m))
<1>1. n \in Nat /\ n <= Len(m)
  BY DEF Least
<1> HIDE DEF n
<1>2. d \in Seq(Bytes) /\ e \in Seq(Bytes)
  BY <1>1
<1>3. Feeding(h, m, chunk) = [kind |-> "write", h |-> h, data |-> d, more |-> e]
  BY DEF Feeding, n
<1> HIDE DEF d, e
<1> QED BY <1>2, <1>3 DEF OpType

\* A chunk is a number of bytes.
LEMMA ChunkNat ==
    ASSUME NEW t \in Slots, NEW h
    PROVE  ChunkOf(t, h) \in Nat
BY PipeAssumption, RingAssumption DEF ChunkOf

\* A write ends, or goes on to the end it began with.
LEMMA AfterPassIs ==
    ASSUME TypeOK, NEW t \in Slots, tasks[t].op.kind = "write", NEW rest \in Seq(Bytes)
    PROVE  /\ AfterPass(t, rest) \in OpType
           /\ \/ AfterPass(t, rest) = NoOp
              \/ AfterPass(t, rest).kind = "write" /\ AfterPass(t, rest).h = tasks[t].op.h
<1>1. PICK o : o = tasks[t].op
  OBVIOUS
<1>2. /\ o \in [kind : {"write"}, h : Handles, data : Seq(Bytes), more : Seq(Bytes)]
      /\ o.h \in Handles /\ o.more \in Seq(Bytes)
  BY <1>1, OpShape
<1>3. NoOp \in OpType
  BY DEF NoOp, OpType
<1>4. [o EXCEPT !.data = rest] \in OpType /\ [o EXCEPT !.data = rest].kind = "write"
      /\ [o EXCEPT !.data = rest].h = o.h
  BY <1>2 DEF OpType
<1>5. PICK f : f = Feeding(o.h, o.more, ChunkOf(t, o.h))
  OBVIOUS
<1>6. f \in OpType /\ f.kind = "write" /\ f.h = o.h
  BY <1>2, <1>5, ChunkNat, FeedingType
<1>7. AfterPass(t, rest) = IF rest # <<>> THEN IF tasks[t].doomed THEN NoOp
                                               ELSE [o EXCEPT !.data = rest]
                           ELSE IF o.more = <<>> THEN NoOp ELSE f
  BY <1>1, <1>5 DEF AfterPass
<1> QED BY <1>1, <1>3, <1>4, <1>6, <1>7

\* The ends of the stage about to be spawned.
LEMMA StageEnds ==
    ASSUME TypeOK, Len(sh.ends) = sh.stages - 1, sh.next <= sh.stages
    PROVE  /\ StageIn(sh.next) \in Handles \cup {NONE}
           /\ StageOut(sh.next) \in Handles \cup {NONE}
           /\ StageIn(sh.next) # NONE =>
                 \E i \in 1..Len(sh.ends) : StageIn(sh.next) = ReadEnd(sh.ends[i])
           /\ StageOut(sh.next) # NONE =>
                 \E i \in 1..Len(sh.ends) : StageOut(sh.next) = WriteEnd(sh.ends[i])
<1> DEFINE i == sh.next
<1>1. /\ sh.ends \in Seq(Pipes) /\ sh.stages \in Nat /\ i \in Nat \ {0}
  BY PipeAssumption DEF TypeOK, ShellType
<1>2. /\ i # 1 => i - 1 \in 1..Len(sh.ends)
      /\ i # sh.stages => i \in 1..Len(sh.ends)
  BY <1>1
<1>3. /\ i # 1 => sh.ends[i - 1] \in Pipes
      /\ i # sh.stages => sh.ends[i] \in Pipes
  BY <1>1, <1>2
<1> HIDE DEF i
<1>4. /\ i = 1 => StageIn(i) = NONE
      /\ i # 1 => StageIn(i) = ReadEnd(sh.ends[i - 1])
      /\ i = sh.stages => StageOut(i) = NONE
      /\ i # sh.stages => StageOut(i) = WriteEnd(sh.ends[i])
  BY DEF StageIn, StageOut
<1>5. /\ StageIn(i) \in Handles \cup {NONE}
      /\ StageOut(i) \in Handles \cup {NONE}
      /\ StageIn(i) # NONE => \E k \in 1..Len(sh.ends) : StageIn(i) = ReadEnd(sh.ends[k])
      /\ StageOut(i) # NONE => \E k \in 1..Len(sh.ends) : StageOut(i) = WriteEnd(sh.ends[k])
  BY <1>2, <1>3, <1>4, HandleNames
<1> QED BY <1>5 DEF i

\* The bytes of one pass fit into the ring.
LEMMA PassOK ==
    /\ \A c \in PipeType : \A d \in Seq(Bytes) :
          Len(d) <= Cap - c.len
             => /\ Pushed(c, d) \in PipeType
                /\ Pushed(c, d).used = c.used
                /\ Pushed(c, d).readers = c.readers /\ Pushed(c, d).writers = c.writers
    /\ \A c \in PipeType : \A n \in 0..Cap :
          n <= c.len
             => /\ Drained(c, n) \in PipeType /\ Pulled(c, n) \in Seq(Bytes)
                /\ Drained(c, n).used = c.used
                /\ Drained(c, n).readers = c.readers /\ Drained(c, n).writers = c.writers
<1>1. ASSUME NEW c \in PipeType, NEW d \in Seq(Bytes), Len(d) <= Cap - c.len
      PROVE  /\ Pushed(c, d) \in PipeType
             /\ Pushed(c, d).used = c.used
             /\ Pushed(c, d).readers = c.readers /\ Pushed(c, d).writers = c.writers
  <2> DEFINE b == Store(c.buf, (c.head + c.len) % Cap, d)
             h == (c.head + Len(d)) % Cap
             l == c.len + Len(d)
  <2>1. c.buf \in [Ring -> Bytes] /\ c.head \in Ring /\ c.len \in 0..Cap
    BY DEF PipeType
  <2>2. (c.head + c.len) % Cap \in Ring /\ h \in Ring /\ l \in 0..Cap
    <3>1. c.head + c.len \in Nat /\ c.head + c.len < Cap + Cap
      BY <2>1, RingAssumption DEF Ring
    <3>2. c.head + Len(d) \in Nat /\ c.head + Len(d) < Cap + Cap /\ l \in 0..Cap
      BY <1>1, <2>1, RingAssumption DEF Ring
    <3> QED BY <3>1, <3>2, Wrap
  <2>3. b \in [Ring -> Bytes]
    BY <2>1, <2>2, StoreType
  <2>4. Pushed(c, d) = [c EXCEPT !.buf = b, !.head = h, !.len = l]
    BY DEF Pushed
  <2> HIDE DEF b, h, l
  <2> QED BY <2>2, <2>3, <2>4 DEF PipeType
<1>2. ASSUME NEW c \in PipeType, NEW n \in 0..Cap, n <= c.len
      PROVE  /\ Drained(c, n) \in PipeType /\ Pulled(c, n) \in Seq(Bytes)
             /\ Drained(c, n).used = c.used
             /\ Drained(c, n).readers = c.readers /\ Drained(c, n).writers = c.writers
  <2> DEFINE h == (c.head + n) % Cap
             l == c.len - n
             a == (c.head + Cap - c.len) % Cap
  <2>1. c.buf \in [Ring -> Bytes] /\ c.head \in Ring /\ c.len \in 0..Cap
    BY DEF PipeType
  <2>2. h \in Ring /\ l \in 0..Cap /\ a \in Ring
    <3>1. c.head + n \in Nat /\ c.head + n < Cap + Cap
      BY <2>1, RingAssumption DEF Ring
    <3>2. l \in 0..Cap
      BY <1>2, <2>1, RingAssumption
    <3>3. c.head + Cap - c.len \in Nat /\ c.head + Cap - c.len < Cap + Cap
      BY <2>1, RingAssumption DEF Ring
    <3> QED BY <3>1, <3>2, <3>3, Wrap
  <2>3. Pulled(c, n) \in Seq(Bytes)
    BY <2>1, <2>2, LoadType DEF Pulled
  <2>4. Drained(c, n) = [c EXCEPT !.len = l, !.head = h]
    BY DEF Drained
  <2> HIDE DEF h, l, a
  <2> QED BY <2>2, <2>3, <2>4 DEF PipeType
<1> QED BY <1>1, <1>2

\* Every variable has its type at the start.
LEMMA PipeInitType == Init => TypeOK
<1> SUFFICES ASSUME Init PROVE TypeOK
  OBVIOUS
<1>1. pipes \in [Pipes -> PipeType] /\ \A p \in Pipes : pipes[p].used \/ pipes[p] = FreshPipe
  BY FreshOK DEF Init
<1>2. tasks \in [Slots -> TaskType]
  BY TaskShapes DEF Init
<1>3. sh \in ShellType
  BY PipeAssumption DEF Init, ShellIdle, ShellType
<1> QED BY <1>1, <1>2, <1>3 DEF Init, TypeOK

\* The part of the state a pass of a write changes.
LEMMA WriteType ==
    ASSUME TypeOK, NEW t \in Slots, WriteStep(t)
    PROVE  TypeOK'
<1> DEFINE op == tasks[t].op
           p == SlotOf(op.h)
           n == Least(Cap - pipes[p].len, Len(op.data))
           d == SubSeq(op.data, 1, n)
           rest == SubSeq(op.data, n + 1, Len(op.data))
<1>1. op.h \in Handles /\ op.data \in Seq(Bytes) /\ p \in Pipes
  BY OpShape, HandleNames DEF WriteStep
<1>2. /\ tasks \in [Slots -> TaskType] /\ tasks[t] \in TaskType /\ pipes[p] \in PipeType
      /\ sh' \in ShellType /\ runs' \in Nat
      /\ rcvd' \in [Pipes -> Seq(Bytes)] /\ eof' \in [Pipes -> BOOLEAN]
  BY <1>1 DEF TypeOK, WriteStep
<1>3. pipes[p].len \in 0..Cap /\ Cap \in Nat
  BY <1>2, RingAssumption DEF PipeType
<1>4. n \in Nat /\ n <= Len(op.data) /\ n <= Cap - pipes[p].len
  <2>1. Cap - pipes[p].len \in Nat /\ Len(op.data) \in Nat
    BY <1>1, <1>3
  <2> QED BY <2>1, LeastIs
<1>5. d \in Seq(Bytes) /\ Len(d) = n /\ rest \in Seq(Bytes)
  BY <1>1, <1>4
<1>6. NoOp \in OpType /\ AfterPass(t, rest) \in OpType
  BY <1>5, AfterPassIs DEF NoOp, OpType, WriteStep
<1>7. CASE /\ tasks' = [tasks EXCEPT ![t].op = NoOp, ![t].done = TRUE]
           /\ UNCHANGED <<pipes, sent, mixed>>
  <2>1. tasks' \in [Slots -> TaskType]
    BY <1>2, <1>6, <1>7 DEF TaskType
  <2> QED BY <1>2, <1>7, <2>1 DEF TypeOK
<1>8. CASE /\ pipes[p].used /\ pipes[p].readers > 0 /\ n > 0
           /\ pipes' = [pipes EXCEPT ![p] = Pushed(pipes[p], d)]
           /\ sent' = [sent EXCEPT ![p] = @ \o d]
           /\ mixed' = [mixed EXCEPT ![p] = @ \/ pipes[p].len > 0]
           /\ tasks' = [tasks EXCEPT ![t].op = AfterPass(t, rest)]
  <2> DEFINE o == AfterPass(t, rest)
             c == Pushed(pipes[p], d)
  <2>1. o \in OpType /\ tasks' = [tasks EXCEPT ![t] = [tasks[t] EXCEPT !.op = o]]
    BY <1>6, <1>8
  <2>2. c \in PipeType /\ c.used
    BY <1>2, <1>4, <1>5, <1>8, PassOK
  <2> HIDE DEF o, c, op, p, d, n, rest
  <2>3. sent' \in [Pipes -> Seq(Bytes)]
    <3>1. sent' = [sent EXCEPT ![p] = sent[p] \o d] /\ sent \in [Pipes -> Seq(Bytes)]
      BY <1>8 DEF TypeOK
    <3>2. sent[p] \in Seq(Bytes) /\ sent[p] \o d \in Seq(Bytes)
      BY <1>1, <1>5, <3>1
    <3> QED BY <3>1, <3>2
  <2>4. tasks' \in [Slots -> TaskType]
    BY <1>2, <2>1 DEF TaskType
  <2>5. pipes' = [pipes EXCEPT ![p] = c]
    BY <1>8 DEF c
  <2>6. pipes' \in [Pipes -> PipeType] /\ \A q \in Pipes : pipes'[q].used \/ pipes'[q] = FreshPipe
    BY <1>1, <2>2, <2>5 DEF TypeOK
  <2>7. mixed' \in [Pipes -> BOOLEAN]
    BY <1>1, <1>8 DEF TypeOK
  <2> QED BY <1>2, <2>3, <2>4, <2>6, <2>7 DEF TypeOK
<1> QED BY <1>7, <1>8 DEF WriteStep

\* The part of the state a pass of a read changes.
LEMMA ReadType ==
    ASSUME TypeOK, NEW t \in Slots, ReadStep(t)
    PROVE  TypeOK'
<1> DEFINE op == tasks[t].op
           p == SlotOf(op.h)
           n == Least(pipes[p].len, op.len)
<1>1. op.h \in Handles /\ op.len \in 1..Cap /\ p \in Pipes
  BY OpShape, HandleNames, PipeAssumption DEF ReadStep
<1>2. /\ tasks \in [Slots -> TaskType] /\ tasks[t] \in TaskType /\ pipes[p] \in PipeType
      /\ sh' \in ShellType /\ runs' \in Nat /\ sent' \in [Pipes -> Seq(Bytes)]
  BY <1>1 DEF TypeOK, ReadStep
<1>3. pipes[p].len \in 0..Cap /\ Cap \in Nat
  BY <1>2, RingAssumption DEF PipeType
<1>4. n \in 0..Cap /\ n <= pipes[p].len
  BY <1>1, <1>3 DEF Least
<1>5. NoOp \in OpType
  BY DEF NoOp, OpType
<1>6. \/ tasks' = [tasks EXCEPT ![t].op = NoOp, ![t].done = TRUE]
      \/ tasks' = [tasks EXCEPT ![t].op = NoOp]
  BY DEF ReadStep
<1>7. tasks' \in [Slots -> TaskType]
  BY <1>2, <1>5, <1>6 DEF TaskType
<1>8. CASE UNCHANGED <<pipes, rcvd, eof, mixed>>
  BY <1>2, <1>7, <1>8 DEF TypeOK
<1>9. CASE /\ pipes[p].used
           /\ pipes' = [pipes EXCEPT ![p] = Drained(pipes[p], n)]
           /\ rcvd' = [rcvd EXCEPT ![p] = @ \o Pulled(pipes[p], n)]
           /\ mixed' = [mixed EXCEPT ![p] = @ \/ n < pipes[p].len]
           /\ UNCHANGED eof
  <2> DEFINE c == Drained(pipes[p], n)
             b == Pulled(pipes[p], n)
  <2>1. c \in PipeType /\ c.used /\ b \in Seq(Bytes)
    BY <1>2, <1>4, <1>9, PassOK
  <2>2. pipes' = [pipes EXCEPT ![p] = c] /\ rcvd' = [rcvd EXCEPT ![p] = @ \o b]
    BY <1>9
  <2>5. mixed' \in [Pipes -> BOOLEAN]
    BY <1>1, <1>9 DEF TypeOK
  <2> HIDE DEF c, b, op, p, n
  <2>3. rcvd' \in [Pipes -> Seq(Bytes)]
    BY <1>1, <2>1, <2>2 DEF TypeOK
  <2>4. pipes' \in [Pipes -> PipeType] /\ \A q \in Pipes : pipes'[q].used \/ pipes'[q] = FreshPipe
    BY <1>1, <2>1, <2>2 DEF TypeOK
  <2> QED BY <1>2, <1>7, <1>9, <2>3, <2>4, <2>5 DEF TypeOK
<1>10. CASE eof' = [eof EXCEPT ![p] = TRUE] /\ UNCHANGED <<pipes, rcvd, mixed>>
  BY <1>1, <1>2, <1>7, <1>10 DEF TypeOK
<1> QED BY <1>8, <1>9, <1>10 DEF ReadStep

\* Every step of a task keeps the types.
LEMMA TaskStepType ==
    ASSUME TypeOK, NEW t \in Slots,
           \/ Step(t) \/ BeginWrite(t) \/ BeginRead(t) \/ SysPipe(t) \/ PipeClose(t)
           \/ Fork(t) \/ Clone(t) \/ Exit(t) \/ ThreadExit(t) \/ Signal(t)
    PROVE  TypeOK'
<1>a. /\ tasks \in [Slots -> TaskType] /\ tasks[t] \in TaskType /\ sh \in ShellType
      /\ TableOK(pipes)
  BY DEF TypeOK, TableOK
<1>b. /\ tasks[t].mask \in SUBSET Handles /\ tasks[t].closing \in SUBSET Handles
      /\ tasks[t].held \in SUBSET Handles
      /\ tasks[t].out \in Handles \cup {NONE} /\ tasks[t].in \in Handles \cup {NONE}
      /\ tasks[t].group \in Slots \cup {0}
  BY <1>a DEF TaskType
<1>c. ASSUME tasks' \in [Slots -> TaskType], sh' \in ShellType, TableOK(pipes'),
             UNCHANGED <<runs, history>>
      PROVE  TypeOK'
  BY <1>c DEF TypeOK, TableOK, history
<1>1. ASSUME WriteStep(t) PROVE TypeOK'
  BY <1>1, WriteType
<1>2. ASSUME ReadStep(t) PROVE TypeOK'
  BY <1>2, ReadType
<1>3. ASSUME CloseNext(t) PROVE TypeOK'
  <2> DEFINE h == First(tasks[t].closing)
  <2>1. CASE /\ tasks[t].closing # {} /\ pipes' = CloseEnd(pipes, h)
             /\ tasks' = [tasks EXCEPT ![t].closing = @ \ {h}]
    <3>1. h \in Handles
      BY <1>b, <2>1, FirstEnd
    <3>2. TableOK(pipes')
      BY <1>a, <2>1, <3>1, CloseEndTable
    <3> HIDE DEF h
    <3>3. tasks' \in [Slots -> TaskType]
      BY <1>a, <1>b, <2>1 DEF TaskType
    <3> QED BY <1>3, <1>a, <1>c, <3>2, <3>3 DEF CloseNext
  <2>2. CASE tasks' = [tasks EXCEPT ![t] = NoTask] /\ UNCHANGED pipes
    <3>1. tasks' \in [Slots -> TaskType]
      BY <1>a, <2>2, TaskShapes
    <3> QED BY <1>3, <1>a, <1>c, <2>2, <3>1 DEF CloseNext
  <2> QED BY <1>3, <2>1, <2>2 DEF CloseNext
<1>4. ASSUME DieMarked(t) \/ ThreadExit(t) PROVE TypeOK'
  <2>1. tasks' = [tasks EXCEPT ![t] = Leaving(tasks[t].mask)]
    BY <1>4 DEF DieMarked, ThreadExit
  <2>2. Leaving(tasks[t].mask) \in TaskType
    BY <1>b, TaskShapes
  <2>3. tasks' \in [Slots -> TaskType]
    BY <1>a, <2>1, <2>2
  <2>4. sh' \in ShellType
    BY <1>4, <1>a DEF DieMarked, ThreadExit, ShellType
  <2> QED BY <1>4, <1>a, <1>c, <2>3, <2>4 DEF DieMarked, ThreadExit, history
<1>5. ASSUME Terminate(t) PROVE TypeOK'
  <2>1. tasks' \in [Slots -> TaskType]
    BY <1>5, <1>a, TaskShapes DEF Terminate
  <2>2. sh' \in ShellType
    BY <1>5, <1>a DEF Terminate, ShellType
  <2> QED BY <1>5, <1>a, <1>c, <2>1, <2>2 DEF Terminate
<1>6. ASSUME BeginWrite(t) PROVE TypeOK'
  <2>1. PICK h \in Targets(t), m \in Messages :
           tasks' = [tasks EXCEPT ![t].op = Feeding(h, m, ChunkOf(t, h))]
    BY <1>6 DEF BeginWrite
  <2>2. h \in Handles /\ m \in Seq(Bytes)
    BY <1>b, PipeAssumption DEF Targets
  <2>3. Feeding(h, m, ChunkOf(t, h)) \in OpType
    BY <2>2, ChunkNat, FeedingType
  <2>4. tasks' \in [Slots -> TaskType]
    BY <1>a, <2>1, <2>3 DEF TaskType
  <2> QED BY <1>6, <1>a, <1>c, <2>4 DEF BeginWrite
<1>7. ASSUME BeginRead(t) PROVE TypeOK'
  <2>1. PICK h \in Sources(t), n \in ReadLens :
           tasks' = [tasks EXCEPT ![t].op = [kind |-> "read", h |-> h, len |-> n]]
    BY <1>7 DEF BeginRead
  <2>2. h \in Handles
    BY <1>b DEF Sources
  <2>3. [kind |-> "read", h |-> h, len |-> n] \in OpType
    BY <2>2 DEF OpType
  <2>4. tasks' \in [Slots -> TaskType]
    BY <1>a, <2>1, <2>3 DEF TaskType
  <2> QED BY <1>7, <1>a, <1>c, <2>4 DEF BeginRead
<1>8. ASSUME SysPipe(t) PROVE TypeOK'
  <2> DEFINE p == First(FreePipes)
             H == tasks[t].held \cup {ReadEnd(p), WriteEnd(p)}
  <2>1. p \in Pipes /\ Opened(p)
    BY <1>8, FreeFound DEF SysPipe
  <2>2. TableOK(pipes')
    BY <1>a, <2>1, OpenedTable
  <2>3. tasks' = [tasks EXCEPT ![t] = [tasks[t] EXCEPT !.held = H]]
    BY <1>8 DEF SysPipe
  <2>4. H \in SUBSET Handles
    BY <1>b, <2>1, HandleNames
  <2>5. /\ sent' = [sent EXCEPT ![p] = <<>>] /\ rcvd' = [rcvd EXCEPT ![p] = <<>>]
        /\ eof' = [eof EXCEPT ![p] = FALSE] /\ mixed' = [mixed EXCEPT ![p] = FALSE]
    BY <2>1 DEF Opened
  <2> HIDE DEF p, H
  <2>6. tasks' \in [Slots -> TaskType]
    BY <1>a, <2>3, <2>4 DEF TaskType
  <2>7. <<>> \in Seq(Bytes)
    OBVIOUS
  <2> QED BY <1>8, <1>a, <2>2, <2>5, <2>6, <2>7 DEF SysPipe, TypeOK, TableOK
<1>9. ASSUME PipeClose(t) PROVE TypeOK'
  <2>1. PICK h \in tasks[t].held :
           /\ tasks' = [tasks EXCEPT ![t].mask = @ \ {h}, ![t].held = @ \ {h}]
           /\ pipes' = CloseEnd(pipes, h)
    BY <1>9 DEF PipeClose
  <2>2. TableOK(pipes')
    BY <1>a, <1>b, <2>1, CloseEndTable
  <2>3. tasks' \in [Slots -> TaskType]
    BY <1>a, <1>b, <2>1 DEF TaskType
  <2> QED BY <1>9, <1>a, <1>c, <2>2, <2>3 DEF PipeClose
<1>10. ASSUME Fork(t) \/ Clone(t) PROVE TypeOK'
  <2> DEFINE c == First(FreeSlots)
             f == [NoTask EXCEPT !.life = "Live", !.group = c,
                                 !.out = tasks[t].out, !.in = tasks[t].in, !.forked = TRUE,
                                 !.mask = tasks[t].mask, !.held = tasks[t].held]
             g == [NoTask EXCEPT !.life = "Live", !.group = tasks[t].group,
                                 !.out = tasks[t].out, !.in = tasks[t].in]
  <2>1. c \in Slots
    BY <1>10, FreeFound DEF Fork, Clone
  <2>2. f \in TaskType /\ g \in TaskType
    BY <1>b, <2>1, TaskShapes DEF TaskType
  <2>3. \/ tasks' = [tasks EXCEPT ![t].forked = TRUE, ![c] = f]
        \/ tasks' = [tasks EXCEPT ![c] = g]
    BY <1>10 DEF Fork, Clone
  <2>4. TableOK(pipes')
    BY <1>10, <1>a, <1>b, AcquireTable DEF Fork, Clone
  <2> HIDE DEF c, f, g
  <2>6. [tasks[t] EXCEPT !.forked = TRUE] \in TaskType
    BY <1>a DEF TaskType
  <2>5. tasks' \in [Slots -> TaskType]
    BY <1>a, <2>1, <2>2, <2>3, <2>6
  <2> QED BY <1>10, <1>a, <1>c, <2>4, <2>5 DEF Fork, Clone
<1>11. ASSUME Exit(t) PROVE TypeOK'
  <2> DEFINE others == {s \in Slots : s # t /\ Live(s) /\ tasks[s].group = tasks[t].group}
  <2>1. PICK parked \in SUBSET others :
          /\ tasks' = [s \in Slots |->
                         CASE s = t -> Leaving(UNION {tasks[r].mask : r \in parked \cup {t}})
                           [] s \in parked -> NoTask
                           [] s \in others \ parked -> [tasks[s] EXCEPT !.doomed = TRUE]
                           [] OTHER -> tasks[s]]
          /\ sh' = [sh EXCEPT !.spawned = @ \ (parked \cup {t})]
    BY <1>11 DEF Exit
  <2> DEFINE U == UNION {tasks[r].mask : r \in parked \cup {t}}
  <2>2. U \in SUBSET Handles
    <3>1. \A r \in parked \cup {t} : tasks[r].mask \in SUBSET Handles
      BY <1>a DEF TaskType
    <3> QED BY <3>1
  <2>3. Leaving(U) \in TaskType /\ NoTask \in TaskType
    BY <2>2, TaskShapes
  <2> HIDE DEF U, others
  <2>4. \A s \in Slots : [tasks[s] EXCEPT !.doomed = TRUE] \in TaskType /\ tasks[s] \in TaskType
    BY <1>a DEF TaskType
  <2>5. tasks' = [s \in Slots |-> CASE s = t -> Leaving(U)
                           [] s \in parked -> NoTask
                           [] s \in others \ parked -> [tasks[s] EXCEPT !.doomed = TRUE]
                           [] OTHER -> tasks[s]]
    BY <2>1 DEF U
  <2>6. tasks' \in [Slots -> TaskType]
    BY <2>3, <2>4, <2>5
  <2>7. sh' \in ShellType
    BY <1>a, <2>1 DEF ShellType
  <2> QED BY <1>11, <1>a, <1>c, <2>6, <2>7 DEF Exit
<1>12. ASSUME Signal(t) PROVE TypeOK'
  <2>1. tasks' \in [Slots -> TaskType]
    BY <1>12, <1>a DEF Signal, TaskType
  <2> QED BY <1>12, <1>a, <1>c, <2>1 DEF Signal
<1> QED BY <1>1, <1>2, <1>3, <1>4, <1>5, <1>6, <1>7, <1>8, <1>9, <1>10, <1>11, <1>12 DEF Step

\* Every step of the shell keeps the types.
LEMMA ShellStepType ==
    ASSUME TypeOK, ShStart \/ ShStep
    PROVE  TypeOK'
<1>a. tasks \in [Slots -> TaskType] /\ sh \in ShellType /\ TableOK(pipes) /\ runs \in Nat
  BY DEF TypeOK, TableOK
<1>b. /\ sh.mask \in SUBSET Handles /\ sh.ends \in Seq(Pipes) /\ sh.spawned \in SUBSET Slots
      /\ sh.next \in 1..(MaxStages + 1) /\ sh.stages \in 0..MaxStages
  BY <1>a DEF ShellType
<1>c. ShellIdle \in ShellType
  BY PipeAssumption DEF ShellIdle, ShellType
<1>d. ASSUME tasks' \in [Slots -> TaskType], sh' \in ShellType, TableOK(pipes'),
             runs' \in Nat, UNCHANGED history
      PROVE  TypeOK'
  BY <1>d DEF TypeOK, TableOK, history
<1>1. ASSUME ShStart PROVE TypeOK'
  <2>1. PICK n \in 2..MaxStages : sh' = [ShellIdle EXCEPT !.phase = "open", !.stages = n]
    BY <1>1 DEF ShStart
  <2>2. n \in 0..MaxStages
    BY PipeAssumption
  <2>3. sh' \in ShellType
    BY <1>c, <2>1, <2>2 DEF ShellType
  <2>6. runs' = runs + 1 /\ UNCHANGED <<pipes, tasks, history>>
    BY <1>1 DEF ShStart
  <2>4. runs' \in Nat /\ UNCHANGED <<pipes, tasks, history>>
    BY <1>a, <2>6
  <2>5. tasks' \in [Slots -> TaskType] /\ TableOK(pipes') /\ UNCHANGED history
    BY <1>a, <2>4
  <2> QED BY <1>d, <2>3, <2>4, <2>5
<1>2. ASSUME ShOpen PROVE TypeOK'
  <2> DEFINE p == First(FreePipes)
  <2>1. p \in Pipes /\ Opened(p) /\ UNCHANGED <<tasks, runs>>
    BY <1>2, FreeFound DEF ShOpen
  <2>2. sh' = [sh EXCEPT !.ends = Append(@, p), !.mask = @ \cup {ReadEnd(p), WriteEnd(p)}]
    BY <1>2 DEF ShOpen
  <2>3. TableOK(pipes')
    BY <1>a, <2>1, OpenedTable
  <2>4. /\ sent' = [sent EXCEPT ![p] = <<>>] /\ rcvd' = [rcvd EXCEPT ![p] = <<>>]
        /\ eof' = [eof EXCEPT ![p] = FALSE] /\ mixed' = [mixed EXCEPT ![p] = FALSE]
    BY <2>1 DEF Opened
  <2> HIDE DEF p
  <2>5. Append(sh.ends, p) \in Seq(Pipes) /\ ReadEnd(p) \in Handles /\ WriteEnd(p) \in Handles
    BY <1>b, <2>1, HandleNames
  <2>6. sh' \in ShellType
    BY <1>a, <1>b, <2>2, <2>5 DEF ShellType
  <2>7. <<>> \in Seq(Bytes)
    OBVIOUS
  <2> QED BY <1>a, <2>1, <2>3, <2>4, <2>6, <2>7 DEF TypeOK, TableOK
<1>3. ASSUME ShSpawn PROVE TypeOK'
  <2> DEFINE i == StageIn(sh.next)
             o == StageOut(sh.next)
             ends == {i, o} \ {NONE}
             t == First(FreeSlots)
             r == [NoTask EXCEPT !.life = "Live", !.group = t, !.mask = ends, !.held = ends,
                                 !.out = o, !.in = i]
  <2>1. t \in Slots /\ Len(sh.ends) = sh.stages - 1 /\ sh.next <= sh.stages
    BY <1>3, FreeFound DEF ShSpawn
  <2>2. i \in Handles \cup {NONE} /\ o \in Handles \cup {NONE}
    BY <2>1, StageEnds
  <2>3. /\ tasks' = [tasks EXCEPT ![t] = r] /\ pipes' = AcquireEnds(pipes, ends)
        /\ sh' = [sh EXCEPT !.next = @ + 1, !.spawned = @ \cup {t}]
        /\ UNCHANGED <<runs, history>>
    BY <1>3 DEF ShSpawn
  <2> HIDE DEF i, o, t
  <2>4. ends \in SUBSET Handles
    BY <2>2
  <2> HIDE DEF ends
  <2>5. r \in TaskType
    BY <2>1, <2>2, <2>4, TaskShapes DEF TaskType
  <2> HIDE DEF r
  <2>6. tasks' \in [Slots -> TaskType]
    BY <1>a, <2>1, <2>3, <2>5
  <2>7. TableOK(pipes')
    BY <1>a, <2>3, <2>4, AcquireTable
  <2>8. sh.next + 1 \in 1..(MaxStages + 1)
    BY <1>b, <2>1, PipeAssumption
  <2>9. sh' \in ShellType
    BY <1>a, <1>b, <2>1, <2>3, <2>8 DEF ShellType
  <2> QED BY <1>a, <1>d, <2>3, <2>6, <2>7, <2>9
<1>4. ASSUME ShFail PROVE TypeOK'
  <2>1. \A t \in Slots : [tasks[t] EXCEPT !.signalled = TRUE] \in TaskType /\ tasks[t] \in TaskType
    BY <1>a DEF TaskType
  <2>2. tasks' \in [Slots -> TaskType]
    BY <1>4, <2>1 DEF ShFail
  <2>3. sh' \in ShellType
    BY <1>4, <1>a DEF ShFail, ShellType
  <2> QED BY <1>4, <1>a, <1>d, <2>2, <2>3 DEF ShFail
<1>5. ASSUME ShRunning PROVE TypeOK'
  <2>1. sh' \in ShellType
    BY <1>5, <1>a DEF ShRunning, ShellType
  <2> QED BY <1>5, <1>a, <1>d, <2>1 DEF ShRunning
<1>6. ASSUME ShDrop PROVE TypeOK'
  <2> DEFINE h == First(sh.mask)
  <2>1. h \in Handles /\ pipes' = CloseEnd(pipes, h) /\ sh' = [sh EXCEPT !.mask = @ \ {h}]
    BY <1>6, <1>b, FirstEnd DEF ShDrop
  <2>2. TableOK(pipes')
    BY <1>a, <2>1, CloseEndTable
  <2> HIDE DEF h
  <2>3. sh' \in ShellType
    BY <1>a, <1>b, <2>1 DEF ShellType
  <2> QED BY <1>6, <1>a, <1>d, <2>2, <2>3 DEF ShDrop
<1>7. ASSUME ShDone PROVE TypeOK'
  BY <1>7, <1>a, <1>c, <1>d DEF ShDone
<1> QED BY <1>1, <1>2, <1>3, <1>4, <1>5, <1>6, <1>7 DEF ShStep

\* Every step keeps the types.
LEMMA PipeStepType == TypeOK /\ [Next]_vars => TypeOK'
<1>1. ASSUME TypeOK, UNCHANGED vars PROVE TypeOK'
  BY <1>1 DEF TypeOK, vars
<1> QED BY <1>1, TaskStepType, ShellStepType DEF Next

(* For any number of pipes and tasks and any ring size the pipe table stays  *)
(* well formed: no count of ends drops below zero, no ring holds more than   *)
(* Cap bytes and an entry that is not in use is as it was at boot, whatever  *)
(* programs and the shell do.                                               *)
THEOREM PipeTypeCorrect == Spec => []TypeOK
<1> QED BY PipeInitType, PipeStepType, PTL DEF Spec

-----------------------------------------------------------------------------
(* Who has an end.                                                          *)

(* Only a live task holds ends and only an exit path still closes some; a    *)
(* mask records ends the program was given, all of them unless it may call   *)
(* pipe(); while it opens and spawns the shell keeps every connecting pipe.  *)
TaskEnds(r) == /\ r.mask \subseteq r.held
               /\ r.life # "Live" => r.held = {}
               /\ r.life # "Exiting" => r.closing = {}
               /\ "pipe" \notin Abilities => r.mask = r.held

ShellEnds == /\ sh.phase = "idle" => sh.mask = {}
             /\ sh.phase = "open" => \A i \in 1..Len(sh.ends) : /\ ReadEnd(sh.ends[i]) \in sh.mask
                                                                /\ WriteEnd(sh.ends[i]) \in sh.mask

EndsInv == (\A t \in Slots : TaskEnds(tasks[t])) /\ ShellEnds

\* A slot that was emptied or left keeps no end but those to close.
LEMMA LeavingEnds ==
    /\ TaskEnds(NoTask)
    /\ \A H \in SUBSET Handles : /\ TaskEnds(Leaving(H)) /\ Leaving(H).held = {}
                                 /\ Leaving(H).closing = H /\ Leaving(H).mask = {}
BY DEF TaskEnds, NoTask, Leaving

\* No step of a task breaks EndsInv.
LEMMA TaskEndsStep ==
    ASSUME TypeOK, EndsInv, NEW t \in Slots,
           \/ Step(t) \/ BeginWrite(t) \/ BeginRead(t) \/ SysPipe(t) \/ PipeClose(t)
           \/ Fork(t) \/ Clone(t) \/ Exit(t) \/ ThreadExit(t) \/ Signal(t)
    PROVE  EndsInv'
<1>a. /\ tasks \in [Slots -> TaskType] /\ tasks[t] \in TaskType
      /\ \A s \in Slots : TaskEnds(tasks[s])
      /\ ShellEnds
  BY DEF TypeOK, EndsInv, TaskEnds, ShellEnds
<1>b. ASSUME \A s \in Slots : TaskEnds(tasks'[s]), ShellEnds'
      PROVE  EndsInv'
  BY <1>b DEF EndsInv, TaskEnds, ShellEnds
<1>c. /\ tasks[t].mask \in SUBSET Handles /\ tasks[t].closing \in SUBSET Handles
      /\ tasks[t].held \in SUBSET Handles
  BY <1>a DEF TaskType
<1>d. ASSUME NEW S, sh' = [sh EXCEPT !.spawned = S] PROVE ShellEnds'
  BY <1>a, <1>d DEF ShellEnds, TypeOK, ShellType
<1>e. ASSUME NEW r, TaskEnds(r), tasks' = [tasks EXCEPT ![t] = r]
      PROVE  \A s \in Slots : TaskEnds(tasks'[s])
  BY <1>a, <1>e
<1>f. \A x : /\ TaskEnds([tasks[t] EXCEPT !.op = x])
             /\ TaskEnds([tasks[t] EXCEPT !.op = x, !.done = TRUE])
             /\ TaskEnds([tasks[t] EXCEPT !.signalled = TRUE])
             /\ TaskEnds([tasks[t] EXCEPT !.forked = TRUE])
  BY <1>a DEF TaskType, TaskEnds
<1>1. ASSUME WriteStep(t) \/ ReadStep(t) PROVE EndsInv'
  <2>1. \/ \E x : tasks' = [tasks EXCEPT ![t] = [tasks[t] EXCEPT !.op = x]]
        \/ tasks' = [tasks EXCEPT ![t] = [tasks[t] EXCEPT !.op = NoOp, !.done = TRUE]]
    BY <1>1 DEF WriteStep, ReadStep
  <2>2. \A s \in Slots : TaskEnds(tasks'[s])
    BY <1>e, <1>f, <2>1
  <2> QED BY <1>1, <1>a, <1>b, <2>2 DEF WriteStep, ReadStep, ShellEnds
<1>3. ASSUME CloseNext(t) PROVE EndsInv'
  <2> DEFINE r == [tasks[t] EXCEPT !.closing = @ \ {First(tasks[t].closing)}]
  <2>1. TaskEnds(r)
    BY <1>3, <1>a DEF CloseNext, TaskEnds, TaskType
  <2>2. tasks' = [tasks EXCEPT ![t] = r] \/ tasks' = [tasks EXCEPT ![t] = NoTask]
    BY <1>3 DEF CloseNext
  <2> HIDE DEF r
  <2>3. \A s \in Slots : TaskEnds(tasks'[s])
    BY <1>e, <2>1, <2>2, LeavingEnds
  <2> QED BY <1>3, <1>a, <1>b, <2>3 DEF CloseNext, ShellEnds
<1>4. ASSUME DieMarked(t) \/ ThreadExit(t) PROVE EndsInv'
  <2>1. tasks' = [tasks EXCEPT ![t] = Leaving(tasks[t].mask)]
    BY <1>4 DEF DieMarked, ThreadExit
  <2>2. \A s \in Slots : TaskEnds(tasks'[s])
    BY <1>c, <1>e, <2>1, LeavingEnds
  <2>3. ShellEnds'
    BY <1>4, <1>a, <1>d DEF DieMarked, ThreadExit, ShellEnds
  <2> QED BY <1>b, <2>2, <2>3
<1>5. ASSUME Terminate(t) PROVE EndsInv'
  <2>1. \A s \in Slots : TaskEnds(tasks'[s])
    BY <1>5, <1>e, LeavingEnds DEF Terminate
  <2>2. ShellEnds'
    BY <1>5, <1>d DEF Terminate
  <2> QED BY <1>b, <2>1, <2>2
<1>6. ASSUME BeginWrite(t) \/ BeginRead(t) \/ Signal(t) PROVE EndsInv'
  <2>1. \/ \E x : tasks' = [tasks EXCEPT ![t] = [tasks[t] EXCEPT !.op = x]]
        \/ tasks' = [tasks EXCEPT ![t] = [tasks[t] EXCEPT !.signalled = TRUE]]
    BY <1>6 DEF BeginWrite, BeginRead, Signal
  <2>2. \A s \in Slots : TaskEnds(tasks'[s])
    BY <1>e, <1>f, <2>1
  <2> QED BY <1>6, <1>a, <1>b, <2>2 DEF BeginWrite, BeginRead, Signal, ShellEnds
<1>8. ASSUME SysPipe(t) PROVE EndsInv'
  <2> DEFINE p == First(FreePipes)
             r == [tasks[t] EXCEPT !.held = @ \cup {ReadEnd(p), WriteEnd(p)}]
  <2>1. tasks' = [tasks EXCEPT ![t] = r] /\ "pipe" \in Abilities /\ tasks[t].life = "Live"
    BY <1>8 DEF SysPipe, Ring3, Live
  <2>2. TaskEnds(r)
    BY <1>a, <2>1 DEF TaskEnds, TaskType
  <2> HIDE DEF r
  <2>3. \A s \in Slots : TaskEnds(tasks'[s])
    BY <1>e, <2>1, <2>2
  <2> QED BY <1>8, <1>a, <1>b, <2>3 DEF SysPipe, ShellEnds
<1>9. ASSUME PipeClose(t) PROVE EndsInv'
  <2>1. PICK h \in tasks[t].held :
           tasks' = [tasks EXCEPT ![t] = [tasks[t] EXCEPT !.mask = @ \ {h}, !.held = @ \ {h}]]
    BY <1>9 DEF PipeClose
  <2>2. TaskEnds([tasks[t] EXCEPT !.mask = @ \ {h}, !.held = @ \ {h}])
    BY <1>a DEF TaskEnds, TaskType
  <2>3. \A s \in Slots : TaskEnds(tasks'[s])
    BY <1>e, <2>1, <2>2
  <2> QED BY <1>9, <1>a, <1>b, <2>3 DEF PipeClose, ShellEnds
<1>10. ASSUME Fork(t) \/ Clone(t) PROVE EndsInv'
  <2> DEFINE c == First(FreeSlots)
             f == [NoTask EXCEPT !.life = "Live", !.group = c,
                                 !.out = tasks[t].out, !.in = tasks[t].in, !.forked = TRUE,
                                 !.mask = tasks[t].mask, !.held = tasks[t].held]
             g == [NoTask EXCEPT !.life = "Live", !.group = tasks[t].group,
                                 !.out = tasks[t].out, !.in = tasks[t].in]
             u == [tasks[t] EXCEPT !.forked = TRUE]
  <2>1. c \in Slots
    BY <1>10, FreeFound DEF Fork, Clone
  <2>2. TaskEnds(f) /\ TaskEnds(g) /\ TaskEnds(u)
    BY <1>a, <1>f DEF TaskEnds, NoTask
  <2>3. \/ tasks' = [tasks EXCEPT ![t] = u, ![c] = f]
        \/ tasks' = [tasks EXCEPT ![c] = g]
    BY <1>10 DEF Fork, Clone
  <2> HIDE DEF c, f, g, u
  <2>5. \A s \in Slots : TaskEnds(tasks'[s])
    BY <1>a, <2>1, <2>2, <2>3
  <2> QED BY <1>10, <1>a, <1>b, <2>5 DEF Fork, Clone, ShellEnds
<1>11. ASSUME Exit(t) PROVE EndsInv'
  <2> DEFINE others == {s \in Slots : s # t /\ Live(s) /\ tasks[s].group = tasks[t].group}
  <2>1. PICK parked \in SUBSET others :
          /\ tasks' = [s \in Slots |->
                         CASE s = t -> Leaving(UNION {tasks[r].mask : r \in parked \cup {t}})
                           [] s \in parked -> NoTask
                           [] s \in others \ parked -> [tasks[s] EXCEPT !.doomed = TRUE]
                           [] OTHER -> tasks[s]]
          /\ sh' = [sh EXCEPT !.spawned = @ \ (parked \cup {t})]
    BY <1>11 DEF Exit
  <2> DEFINE U == UNION {tasks[r].mask : r \in parked \cup {t}}
  <2>2. TaskEnds(Leaving(U)) /\ TaskEnds(NoTask)
    <3>1. \A r \in parked \cup {t} : tasks[r].mask \in SUBSET Handles
      BY <1>a DEF TaskType
    <3> QED BY <3>1, LeavingEnds
  <2>3. \A s \in Slots : TaskEnds([tasks[s] EXCEPT !.doomed = TRUE])
    BY <1>a DEF TaskType, TaskEnds
  <2>4. tasks' = [s \in Slots |-> CASE s = t -> Leaving(U)
                           [] s \in parked -> NoTask
                           [] s \in others \ parked -> [tasks[s] EXCEPT !.doomed = TRUE]
                           [] OTHER -> tasks[s]]
    BY <2>1
  <2> HIDE DEF U, others
  <2>5. \A s \in Slots : TaskEnds(tasks'[s])
    BY <1>a, <2>2, <2>3, <2>4
  <2> QED BY <1>b, <1>d, <2>1, <2>5
<1> QED BY <1>1, <1>3, <1>4, <1>5, <1>6, <1>8, <1>9, <1>10, <1>11 DEF Step

\* No step of the shell breaks EndsInv.
LEMMA ShellEndsStep ==
    ASSUME TypeOK, EndsInv, ShStart \/ ShStep
    PROVE  EndsInv'
<1>a. /\ tasks \in [Slots -> TaskType] /\ sh \in ShellType
      /\ \A s \in Slots : TaskEnds(tasks[s])
      /\ ShellEnds
  BY DEF TypeOK, EndsInv
<1>b. /\ sh.mask \in SUBSET Handles /\ sh.ends \in Seq(Pipes)
  BY <1>a DEF ShellType
<1>c. ASSUME UNCHANGED tasks, ShellEnds' PROVE EndsInv'
  BY <1>a, <1>c DEF EndsInv
<1>1. ASSUME ShStart PROVE EndsInv'
  <2>1. PICK n \in 2..MaxStages : sh' = [ShellIdle EXCEPT !.phase = "open", !.stages = n]
    BY <1>1 DEF ShStart
  <2>2. sh'.phase = "open" /\ sh'.ends = <<>>
    BY <2>1 DEF ShellIdle
  <2>3. ShellEnds'
    BY <2>2 DEF ShellEnds
  <2> QED BY <1>1, <1>c, <2>3 DEF ShStart
<1>2. ASSUME ShOpen PROVE EndsInv'
  <2> DEFINE p == First(FreePipes)
  <2>1. p \in Pipes /\ UNCHANGED tasks /\ sh.phase = "open"
    BY <1>2, FreeFound DEF ShOpen
  <2>2. sh' = [sh EXCEPT !.ends = Append(@, p), !.mask = @ \cup {ReadEnd(p), WriteEnd(p)}]
    BY <1>2 DEF ShOpen
  <2> HIDE DEF p
  <2>3. /\ sh'.phase = "open" /\ sh'.ends = Append(sh.ends, p)
        /\ sh'.mask = sh.mask \cup {ReadEnd(p), WriteEnd(p)}
    BY <1>a, <2>1, <2>2 DEF ShellType
  <2>4. \A i \in 1..Len(sh'.ends) : (i \in 1..Len(sh.ends) /\ sh'.ends[i] = sh.ends[i])
                                     \/ sh'.ends[i] = p
    BY <1>b, <2>1, <2>3
  <2>5. ShellEnds'
    BY <1>a, <2>1, <2>3, <2>4 DEF ShellEnds
  <2> QED BY <1>c, <2>1, <2>5
<1>3. ASSUME ShSpawn PROVE EndsInv'
  <2> DEFINE ends == {StageIn(sh.next), StageOut(sh.next)} \ {NONE}
             t == First(FreeSlots)
             r == [NoTask EXCEPT !.life = "Live", !.group = t, !.mask = ends, !.held = ends,
                                 !.out = StageOut(sh.next), !.in = StageIn(sh.next)]
  <2>1. t \in Slots /\ tasks' = [tasks EXCEPT ![t] = r]
    BY <1>3, FreeFound DEF ShSpawn
  <2>2. TaskEnds(r)
    BY DEF NoTask, TaskEnds
  <2>3. sh' = [sh EXCEPT !.next = @ + 1, !.spawned = @ \cup {t}]
    BY <1>3 DEF ShSpawn
  <2> HIDE DEF r, t
  <2>4. ShellEnds'
    BY <1>a, <2>3 DEF ShellEnds, ShellType
  <2> QED BY <1>a, <2>1, <2>2, <2>4 DEF EndsInv
<1>4. ASSUME ShFail PROVE EndsInv'
  <2>1. \A t \in Slots : TaskEnds([tasks[t] EXCEPT !.signalled = TRUE])
    BY <1>a DEF TaskType, TaskEnds
  <2>2. \A t \in Slots : TaskEnds(tasks'[t])
    BY <1>4, <1>a, <2>1 DEF ShFail
  <2>3. ShellEnds'
    BY <1>4, <1>a DEF ShFail, ShellEnds, ShellType
  <2> QED BY <2>2, <2>3 DEF EndsInv
<1>5. ASSUME ShRunning \/ ShDrop \/ ShDone PROVE EndsInv'
  <2>1. ShellEnds'
    BY <1>5, <1>a DEF ShRunning, ShDrop, ShDone, ShellEnds, ShellType, ShellIdle
  <2> QED BY <1>5, <1>c, <2>1 DEF ShRunning, ShDrop, ShDone
<1> QED BY <1>1, <1>2, <1>3, <1>4, <1>5 DEF ShStep

\* EndsInv is inductive.
LEMMA EndsStep == TypeOK /\ EndsInv /\ [Next]_vars => EndsInv'
<1>1. ASSUME EndsInv, UNCHANGED vars PROVE EndsInv'
  BY <1>1 DEF EndsInv, TaskEnds, ShellEnds, vars
<1> QED BY <1>1, TaskEndsStep, ShellEndsStep DEF Next

\* Nobody has an end at the start.
LEMMA EndsInit == Init => EndsInv
BY LeavingEnds DEF Init, EndsInv, ShellEnds, ShellIdle

-----------------------------------------------------------------------------
(* How a step changes the count and the owners of an end.                   *)

(* With these abilities nothing but its own exit or close takes an end from  *)
(* a task: no signal is sent, only the first task of a group has a mask, and *)
(* the shell gives up only before it has spawned a stage.                   *)
Orderly ==
    /\ Abilities \subseteq {"fork", "clone", "background"}
    /\ \A t \in Slots : ~tasks[t].signalled /\ (tasks[t].mask # {} => tasks[t].group = t)
    /\ sh.phase = "open" /\ Len(sh.ends) < sh.stages - 1 => sh.spawned = {}

Cover == \A h \in Handles : Count(pipes, h) >= Cardinality(Owners(h))
Match == \A h \in Handles : Count(pipes, h) = Cardinality(Owners(h))

\* Someone may lose the end, nobody gets it; in an orderly system nobody loses it.
Kept(h) ==
    /\ Count(pipes', h) = Count(pipes, h)
    /\ Owners(h)' \subseteq Owners(h) /\ (Orderly => Owners(h)' = Owners(h))

\* x closes the end.
Closed(h) ==
    \E x \in Owners(h) : /\ Owners(h)' = Owners(h) \ {x}
                         /\ Count(pipes, h) > 0 => Count(pipes', h) = Count(pipes, h) - 1

\* x gets the end and is counted.
Added(h) ==
    \E x : /\ x \notin Owners(h) /\ Owners(h)' = Owners(h) \cup {x}
           /\ Count(pipes', h) = Count(pipes, h) + 1

\* x, the last of its process, takes over the end from r.
Moved(h) ==
    /\ Count(pipes', h) = Count(pipes, h)
    /\ \E x : \E r \in Owners(h) :
          /\ Owners(h)' \subseteq (Owners(h) \ {r}) \cup {x}
          /\ Orderly => /\ x = r \/ x \notin Owners(h)
                        /\ Owners(h)' = (Owners(h) \ {r}) \cup {x}

Shape(h) == Kept(h) \/ Closed(h) \/ Added(h) \/ Moved(h)

\* Who is an owner.
LEMMA OwnerIs ==
    ASSUME NEW h
    PROVE  /\ \A x : x \in Owners(h) <=> \/ x \in Slots /\ h \in tasks[x].held
                                         \/ x \in Slots /\ h \in tasks[x].closing
                                         \/ x = Shell /\ h \in sh.mask
           /\ \A x : x \in Owners(h)' <=> \/ x \in Slots /\ h \in tasks'[x].held
                                          \/ x \in Slots /\ h \in tasks'[x].closing
                                          \/ x = Shell /\ h \in sh'.mask
BY DEF Owners

\* If nobody gets or loses the end its owners are the same.
LEMMA OwnersSame ==
    ASSUME NEW h,
           \A s \in Slots : (h \in tasks'[s].held \/ h \in tasks'[s].closing)
                            <=> (h \in tasks[s].held \/ h \in tasks[s].closing),
           h \in sh'.mask <=> h \in sh.mask
    PROVE  Owners(h)' = Owners(h)
<1>1. \A x : x \in Owners(h)' <=> x \in Owners(h)
  BY OwnerIs
<1> QED BY <1>1

\* The owners of an end are finitely many, and the shell is none of the slots.
LEMMA OwnersFinite ==
    ASSUME NEW h
    PROVE  /\ IsFiniteSet(Owners(h)) /\ IsFiniteSet(Owners(h)')
           /\ Cardinality(Owners(h)) \in Nat /\ Cardinality(Owners(h)') \in Nat
           /\ Shell \notin Slots
<1>1. IsFiniteSet(0..NTasks)
  BY PipeAssumption, FS_Interval
<1>2. Owners(h) \subseteq 0..NTasks /\ Owners(h)' \subseteq 0..NTasks
  BY PipeAssumption DEF Owners, Slots, Shell
<1>3. IsFiniteSet(Owners(h)) /\ IsFiniteSet(Owners(h)')
  BY <1>1, <1>2, FS_Subset
<1>4. Shell \notin Slots
  BY PipeAssumption DEF Slots, Shell
<1> QED BY <1>3, <1>4, FS_CardinalityType

\* An end that someone has is counted, so its pipe is in use.
LEMMA OwnedUsed ==
    ASSUME TypeOK, Cover, NEW h \in Handles, Owners(h) # {}
    PROVE  pipes[SlotOf(h)].used /\ Count(pipes, h) \in Nat /\ Count(pipes, h) > 0
<1>1. Cardinality(Owners(h)) \in Nat /\ Cardinality(Owners(h)) # 0
  BY OwnersFinite, FS_EmptySet
<1>2. SlotOf(h) \in Pipes
  BY HandleNames
<1>3. Count(pipes, h) \in Nat
  BY <1>2 DEF Count, TypeOK, PipeType
<1>4. Count(pipes, h) > 0
  BY <1>1, <1>3 DEF Cover
<1>5. pipes[SlotOf(h)] # FreshPipe
  BY <1>4 DEF Count, FreshPipe
<1> QED BY <1>2, <1>3, <1>4, <1>5 DEF TypeOK

\* A pipe that is not in use has no owners and is counted as such.
LEMMA FreeUnowned ==
    ASSUME TypeOK, Cover, NEW h \in Handles, ~pipes[SlotOf(h)].used
    PROVE  Owners(h) = {} /\ Count(pipes, h) = 0
<1>1. Owners(h) = {}
  BY OwnedUsed
<1>2. pipes[SlotOf(h)] = FreshPipe
  BY HandleNames DEF TypeOK
<1> QED BY <1>1, <1>2 DEF Count, FreshPipe

\* Cover is kept by every step of one of these shapes, Match in an orderly system.
LEMMA ShapeKeeps ==
    ASSUME TypeOK, TypeOK', NEW h \in Handles, Shape(h)
    PROVE  /\ Count(pipes, h) >= Cardinality(Owners(h))
                 => Count(pipes', h) >= Cardinality(Owners(h)')
           /\ Orderly /\ Count(pipes, h) = Cardinality(Owners(h))
                 => Count(pipes', h) = Cardinality(Owners(h)')
<1> DEFINE O == Owners(h)
           Q == Owners(h)'
           c == Count(pipes, h)
           d == Count(pipes', h)
<1>1. IsFiniteSet(O) /\ IsFiniteSet(Q) /\ Cardinality(O) \in Nat /\ Cardinality(Q) \in Nat
  BY OwnersFinite
<1>2. c \in Nat /\ d \in Nat
  BY HandleNames DEF TypeOK, PipeType, Count
<1>3. CASE Kept(h)
  <2>1. Cardinality(Q) <= Cardinality(O)
    BY <1>1, <1>3, FS_Subset DEF Kept
  <2> QED BY <1>1, <1>2, <1>3, <2>1 DEF Kept
<1>4. CASE Closed(h)
  <2>1. PICK x \in O : Q = O \ {x} /\ (c > 0 => d = c - 1)
    BY <1>4 DEF Closed
  <2>2. Cardinality(Q) = Cardinality(O) - 1
    BY <1>1, <2>1, FS_RemoveElement
  <2> HIDE DEF O, Q, c, d
  <2>3. (c >= Cardinality(O) => d >= Cardinality(Q)) /\ (c = Cardinality(O) => d = Cardinality(Q))
    BY <1>1, <1>2, <2>1, <2>2
  <2> QED BY <2>3 DEF O, Q, c, d
<1>5. CASE Added(h)
  <2>1. PICK x : x \notin O /\ Q = O \cup {x} /\ d = c + 1
    BY <1>5 DEF Added
  <2>2. Cardinality(Q) = Cardinality(O) + 1
    BY <1>1, <2>1, FS_AddElement
  <2> QED BY <1>1, <1>2, <2>1, <2>2
<1>6. CASE Moved(h)
  <2>0. PICK x : \E r \in O : /\ Q \subseteq (O \ {r}) \cup {x}
                              /\ Orderly => (x = r \/ x \notin O) /\ Q = (O \ {r}) \cup {x}
    BY <1>6 DEF Moved
  <2>1. PICK r \in O : /\ Q \subseteq (O \ {r}) \cup {x}
                       /\ Orderly => (x = r \/ x \notin O) /\ Q = (O \ {r}) \cup {x}
    BY <2>0
  <2> DEFINE M == O \ {r}
  <2>2. IsFiniteSet(M) /\ Cardinality(M) = Cardinality(O) - 1
    BY <1>1, FS_RemoveElement
  <2>3. /\ IsFiniteSet(M \cup {x})
        /\ Cardinality(M \cup {x}) = IF x \in M THEN Cardinality(M) ELSE Cardinality(M) + 1
    BY <2>2, FS_AddElement
  <2>4. Cardinality(Q) <= Cardinality(M \cup {x})
    BY <2>1, <2>3, FS_Subset
  <2>5. Orderly => x \notin M /\ Q = M \cup {x}
    BY <2>1
  <2>6. c = d
    BY <1>6 DEF Moved
  <2> HIDE DEF O, Q, c, d, M
  <2>7. Cardinality(M) \in Nat /\ Cardinality(M \cup {x}) \in Nat
    BY <2>2, <2>3, FS_CardinalityType
  <2>8. Cardinality(Q) <= Cardinality(O)
    BY <1>1, <2>2, <2>3, <2>4, <2>7
  <2>9. Orderly => Cardinality(Q) = Cardinality(O)
    BY <1>1, <2>2, <2>3, <2>5, <2>7
  <2>10. c >= Cardinality(O) => d >= Cardinality(Q)
    BY <1>1, <1>2, <2>6, <2>8
  <2> QED BY <2>6, <2>9, <2>10 DEF O, Q, c, d
<1> QED BY <1>3, <1>4, <1>5, <1>6 DEF Shape

\* Programs cannot both make pipes and fork.
NotBoth == "pipe" \notin Abilities \/ "fork" \notin Abilities

\* Every step of a task changes the owners of an end in one of the four ways.
LEMMA TaskShape ==
    ASSUME TypeOK, EndsInv, Cover, NotBoth, NEW t \in Slots,
           \/ Step(t) \/ BeginWrite(t) \/ BeginRead(t) \/ SysPipe(t) \/ PipeClose(t)
           \/ Fork(t) \/ Clone(t) \/ Exit(t) \/ ThreadExit(t) \/ Signal(t),
           NEW h \in Handles
    PROVE  Shape(h)
<1>a. /\ tasks \in [Slots -> TaskType] /\ tasks[t] \in TaskType /\ TableOK(pipes)
      /\ \A s \in Slots : TaskEnds(tasks[s])
      /\ \A s \in Slots : tasks[s] \in TaskType
      /\ SlotOf(h) \in Pipes
  BY HandleNames DEF TypeOK, EndsInv, TableOK
<1>b. /\ tasks[t].mask \in SUBSET Handles /\ tasks[t].closing \in SUBSET Handles
      /\ tasks[t].held \in SUBSET Handles
  BY <1>a DEF TaskType
<1>k. ASSUME \A s \in Slots : tasks'[s].held = tasks[s].held /\ tasks'[s].closing = tasks[s].closing,
             sh'.mask = sh.mask, Count(pipes', h) = Count(pipes, h)
      PROVE  Shape(h)
  <2>1. Owners(h)' = Owners(h)
    BY <1>k, OwnersSame
  <2> QED BY <1>k, <2>1 DEF Shape, Kept
<1>o. \A x : /\ [tasks[t] EXCEPT !.op = x].held = tasks[t].held
             /\ [tasks[t] EXCEPT !.op = x].closing = tasks[t].closing
             /\ [tasks[t] EXCEPT !.op = x, !.done = TRUE].held = tasks[t].held
             /\ [tasks[t] EXCEPT !.op = x, !.done = TRUE].closing = tasks[t].closing
  BY <1>a DEF TaskType
<1>h. ASSUME NEW r, r.held = tasks[t].held, r.closing = tasks[t].closing,
             tasks' = [tasks EXCEPT ![t] = r]
      PROVE  \A s \in Slots : tasks'[s].held = tasks[s].held /\ tasks'[s].closing = tasks[s].closing
  BY <1>a, <1>h
<1>s. \A S : [sh EXCEPT !.spawned = S].mask = sh.mask
  BY DEF TypeOK, ShellType
<1>1. ASSUME WriteStep(t) PROVE Shape(h)
  <2> DEFINE op == tasks[t].op
             p == SlotOf(op.h)
             n == Least(Cap - pipes[p].len, Len(op.data))
             d == SubSeq(op.data, 1, n)
  <2>1. \A s \in Slots : tasks'[s].held = tasks[s].held /\ tasks'[s].closing = tasks[s].closing
    <3> DEFINE rest == SubSeq(op.data, n + 1, Len(op.data))
               y == AfterPass(t, rest)
    <3>0. \/ tasks' = [tasks EXCEPT ![t].op = y]
          \/ tasks' = [tasks EXCEPT ![t].op = NoOp, ![t].done = TRUE]
      BY <1>1 DEF WriteStep
    <3> HIDE DEF y, rest, n, p, op
    <3>1. \/ \E x : tasks' = [tasks EXCEPT ![t] = [tasks[t] EXCEPT !.op = x]]
          \/ tasks' = [tasks EXCEPT ![t] = [tasks[t] EXCEPT !.op = NoOp, !.done = TRUE]]
      BY <3>0
    <3>2. ASSUME NEW x, tasks' = [tasks EXCEPT ![t] = [tasks[t] EXCEPT !.op = x]]
          PROVE  \A s \in Slots : /\ tasks'[s].held = tasks[s].held
                                  /\ tasks'[s].closing = tasks[s].closing
      BY <1>h, <1>o, <3>2
    <3>3. ASSUME tasks' = [tasks EXCEPT ![t] = [tasks[t] EXCEPT !.op = NoOp, !.done = TRUE]]
          PROVE  \A s \in Slots : /\ tasks'[s].held = tasks[s].held
                                  /\ tasks'[s].closing = tasks[s].closing
      BY <1>h, <1>o, <3>3
    <3> QED BY <3>1, <3>2, <3>3
  <2>2. CASE pipes' = pipes
    BY <1>1, <1>k, <2>1, <2>2 DEF WriteStep
  <2>3. CASE pipes' = [pipes EXCEPT ![p] = Pushed(pipes[p], d)]
    <3>1. op.h \in Handles /\ op.data \in Seq(Bytes) /\ p \in Pipes
      BY <1>1, OpShape, HandleNames DEF WriteStep
    <3>2. pipes[p] \in PipeType /\ pipes[p].len \in 0..Cap /\ Cap \in Nat
      BY <3>1, RingAssumption DEF TypeOK, PipeType
    <3>3. d \in Seq(Bytes) /\ Len(d) <= Cap - pipes[p].len
      BY <3>1, <3>2 DEF Least
    <3> DEFINE c == Pushed(pipes[p], d)
    <3>4. c.readers = pipes[p].readers /\ c.writers = pipes[p].writers
      BY <3>2, <3>3, PassOK
    <3>5. pipes' = [pipes EXCEPT ![p] = c]
      BY <2>3
    <3> HIDE DEF c, p, op
    <3>6. Count(pipes', h) = Count(pipes, h)
      BY <1>a, <3>1, <3>4, <3>5 DEF Count, TableOK
    <3> QED BY <1>1, <1>k, <2>1, <3>6 DEF WriteStep
  <2> QED BY <1>1, <2>2, <2>3 DEF WriteStep
<1>2. ASSUME ReadStep(t) PROVE Shape(h)
  <2> DEFINE op == tasks[t].op
             p == SlotOf(op.h)
             n == Least(pipes[p].len, op.len)
  <2>1. \A s \in Slots : tasks'[s].held = tasks[s].held /\ tasks'[s].closing = tasks[s].closing
    <3>0. \/ tasks' = [tasks EXCEPT ![t].op = NoOp]
          \/ tasks' = [tasks EXCEPT ![t].op = NoOp, ![t].done = TRUE]
      BY <1>2 DEF ReadStep
    <3>1. \/ \E x : tasks' = [tasks EXCEPT ![t] = [tasks[t] EXCEPT !.op = x]]
          \/ tasks' = [tasks EXCEPT ![t] = [tasks[t] EXCEPT !.op = NoOp, !.done = TRUE]]
      BY <3>0
    <3>2. ASSUME NEW x, tasks' = [tasks EXCEPT ![t] = [tasks[t] EXCEPT !.op = x]]
          PROVE  \A s \in Slots : /\ tasks'[s].held = tasks[s].held
                                  /\ tasks'[s].closing = tasks[s].closing
      BY <1>h, <1>o, <3>2
    <3>3. ASSUME tasks' = [tasks EXCEPT ![t] = [tasks[t] EXCEPT !.op = NoOp, !.done = TRUE]]
          PROVE  \A s \in Slots : /\ tasks'[s].held = tasks[s].held
                                  /\ tasks'[s].closing = tasks[s].closing
      BY <1>h, <1>o, <3>3
    <3> QED BY <3>1, <3>2, <3>3
  <2>2. CASE pipes' = pipes
    BY <1>2, <1>k, <2>1, <2>2 DEF ReadStep
  <2>3. CASE pipes' = [pipes EXCEPT ![p] = Drained(pipes[p], n)]
    <3>1. op.h \in Handles /\ op.len \in 1..Cap /\ p \in Pipes
      BY <1>2, OpShape, HandleNames, PipeAssumption DEF ReadStep
    <3>2. pipes[p] \in PipeType /\ pipes[p].len \in 0..Cap /\ Cap \in Nat
      BY <3>1, RingAssumption DEF TypeOK, PipeType
    <3>3. n \in 0..Cap /\ n <= pipes[p].len
      BY <3>1, <3>2 DEF Least
    <3> DEFINE c == Drained(pipes[p], n)
    <3>4. c.readers = pipes[p].readers /\ c.writers = pipes[p].writers
      BY <3>2, <3>3, PassOK
    <3>5. pipes' = [pipes EXCEPT ![p] = c]
      BY <2>3
    <3> HIDE DEF c, p, op, n
    <3>6. Count(pipes', h) = Count(pipes, h)
      BY <1>a, <3>1, <3>4, <3>5 DEF Count, TableOK
    <3> QED BY <1>2, <1>k, <2>1, <3>6 DEF ReadStep
  <2> QED BY <1>2, <2>2, <2>3 DEF ReadStep
<1>3. ASSUME CloseNext(t) PROVE Shape(h)
  <2> DEFINE g == First(tasks[t].closing)
  <2>0. tasks[t].life = "Exiting" /\ sh' = sh
    BY <1>3 DEF CloseNext
  <2>1. CASE /\ tasks[t].closing # {} /\ pipes' = CloseEnd(pipes, g)
             /\ tasks' = [tasks EXCEPT ![t].closing = @ \ {g}]
    <3>1. g \in tasks[t].closing /\ g \in Handles
      BY <1>b, <2>1, FirstEnd
    <3> HIDE DEF g
    <3>2. /\ tasks'[t].closing = tasks[t].closing \ {g} /\ tasks'[t].held = tasks[t].held
          /\ \A s \in Slots : s # t => tasks'[s] = tasks[s]
      BY <1>a, <2>1 DEF TaskType
    <3>3. tasks[t].held = {}
      BY <1>a, <2>0 DEF TaskEnds
    <3>4. CASE h = g
      <4>1. t \in Owners(h) /\ Owners(h)' = Owners(h) \ {t}
        BY <2>0, <3>1, <3>2, <3>3, <3>4, OwnerIs, OwnersFinite
      <4>2. Count(pipes, h) > 0 => Count(pipes', h) = Count(pipes, h) - 1
        BY <1>a, <2>1, <3>1, <3>4, CloseEndTable
      <4> QED BY <4>1, <4>2 DEF Shape, Closed
    <3>5. CASE h # g
      <4>1. Owners(h)' = Owners(h)
        BY <2>0, <3>1, <3>2, <3>3, <3>5, OwnerIs
      <4>2. Count(pipes', h) = Count(pipes, h)
        BY <1>a, <2>1, <3>1, <3>5, CloseEndTable
      <4> QED BY <4>1, <4>2 DEF Shape, Kept
    <3> QED BY <3>4, <3>5
  <2>2. CASE tasks[t].closing = {} /\ tasks' = [tasks EXCEPT ![t] = NoTask] /\ UNCHANGED pipes
    <3>1. tasks[t].held = {} /\ NoTask.held = {} /\ NoTask.closing = {}
      BY <1>a, <2>0 DEF TaskEnds, NoTask
    <3>2. \A s \in Slots : tasks'[s].held = tasks[s].held /\ tasks'[s].closing = tasks[s].closing
      BY <1>a, <2>2, <3>1
    <3> QED BY <1>k, <2>0, <2>2, <3>2 DEF Count
  <2> QED BY <1>3, <2>1, <2>2 DEF CloseNext
<1>4. ASSUME DieMarked(t) \/ ThreadExit(t) PROVE Shape(h)
  <2>1. /\ tasks' = [tasks EXCEPT ![t] = Leaving(tasks[t].mask)] /\ pipes' = pipes
        /\ tasks[t].life = "Live"
    BY <1>4 DEF DieMarked, ThreadExit, Ring3, Live
  <2>2. sh'.mask = sh.mask
    BY <1>4, <1>s DEF DieMarked, ThreadExit
  <2>3. /\ tasks'[t].held = {} /\ tasks'[t].closing = tasks[t].mask
        /\ tasks[t].closing = {} /\ tasks[t].mask \subseteq tasks[t].held
        /\ Orderly => tasks[t].mask = tasks[t].held
        /\ \A s \in Slots : s # t => tasks'[s] = tasks[s]
    BY <1>a, <1>b, <2>1, LeavingEnds DEF TaskEnds, Orderly
  <2>4. Owners(h)' \subseteq Owners(h)
    BY <2>2, <2>3, OwnerIs
  <2>5. Orderly => Owners(h)' = Owners(h)
    BY <2>2, <2>3, OwnersSame
  <2> QED BY <2>1, <2>4, <2>5 DEF Shape, Kept
<1>5. ASSUME Terminate(t) PROVE Shape(h)
  <2>1. /\ tasks' = [tasks EXCEPT ![t] = NoTask] /\ pipes' = pipes /\ ~Orderly
    BY <1>5 DEF Terminate, Orderly
  <2>2. sh'.mask = sh.mask
    BY <1>5, <1>s DEF Terminate
  <2>3. /\ tasks'[t].held = {} /\ tasks'[t].closing = {}
        /\ \A s \in Slots : s # t => tasks'[s] = tasks[s]
    BY <1>a, <2>1 DEF NoTask
  <2>4. Owners(h)' \subseteq Owners(h)
    BY <2>2, <2>3, OwnerIs
  <2> QED BY <2>1, <2>4 DEF Shape, Kept
<1>6. ASSUME BeginWrite(t) \/ BeginRead(t) \/ Signal(t) PROVE Shape(h)
  <2>1. \A s \in Slots : tasks'[s].held = tasks[s].held /\ tasks'[s].closing = tasks[s].closing
    <3>1. \/ \E x : tasks' = [tasks EXCEPT ![t] = [tasks[t] EXCEPT !.op = x]]
          \/ tasks' = [tasks EXCEPT ![t] = [tasks[t] EXCEPT !.signalled = TRUE]]
      BY <1>6 DEF BeginWrite, BeginRead, Signal
    <3> QED BY <1>a, <3>1 DEF TaskType
  <2>2. pipes' = pipes /\ sh' = sh
    BY <1>6 DEF BeginWrite, BeginRead, Signal
  <2> QED BY <1>k, <2>1, <2>2
<1>8. ASSUME SysPipe(t) PROVE Shape(h)
  <2> DEFINE p == First(FreePipes)
             r == [tasks[t] EXCEPT !.held = @ \cup {ReadEnd(p), WriteEnd(p)}]
  <2>1. tasks' = [tasks EXCEPT ![t] = r] /\ sh' = sh
    BY <1>8 DEF SysPipe
  <2>2. r.held = tasks[t].held \cup {ReadEnd(p), WriteEnd(p)} /\ r.closing = tasks[t].closing
    BY <1>a DEF TaskType
  <2>3. p \in Pipes /\ ~pipes[p].used /\ Opened(p)
    BY <1>8, FreeFound DEF SysPipe
  <2> HIDE DEF p, r
  <2>4. /\ tasks'[t].held = tasks[t].held \cup {ReadEnd(p), WriteEnd(p)}
        /\ tasks'[t].closing = tasks[t].closing
        /\ \A s \in Slots : s # t => tasks'[s] = tasks[s]
    BY <1>a, <2>1, <2>2
  <2>5. h \in {ReadEnd(p), WriteEnd(p)} <=> SlotOf(h) = p
    BY <2>3, HandleNames
  <2>6. Count(pipes', h) = IF SlotOf(h) = p THEN 1 ELSE Count(pipes, h)
    BY <1>a, <2>3, OpenedTable
  <2>7. CASE SlotOf(h) = p
    <3>1. Owners(h) = {} /\ Count(pipes, h) = 0
      BY <2>3, <2>7, FreeUnowned
    <3>2. Owners(h)' = Owners(h) \cup {t}
      BY <2>1, <2>4, <2>5, <2>7, OwnerIs
    <3> QED BY <2>6, <2>7, <3>1, <3>2 DEF Shape, Added
  <2>8. CASE SlotOf(h) # p
    <3>1. Owners(h)' = Owners(h)
      BY <2>1, <2>4, <2>5, <2>8, OwnersSame
    <3> QED BY <2>6, <2>8, <3>1 DEF Shape, Kept
  <2> QED BY <2>7, <2>8
<1>9. ASSUME PipeClose(t) PROVE Shape(h)
  <2>1. PICK g \in tasks[t].held :
           /\ tasks' = [tasks EXCEPT ![t] = [tasks[t] EXCEPT !.mask = @ \ {g}, !.held = @ \ {g}]]
           /\ pipes' = CloseEnd(pipes, g)
    BY <1>9 DEF PipeClose
  <2>2. sh' = sh /\ tasks[t].life = "Live" /\ g \in Handles
    BY <1>9, <1>b DEF PipeClose, Ring3, Live
  <2>3. /\ tasks'[t].held = tasks[t].held \ {g} /\ tasks'[t].closing = {} /\ tasks[t].closing = {}
        /\ \A s \in Slots : s # t => tasks'[s] = tasks[s]
    BY <1>a, <2>1, <2>2 DEF TaskType, TaskEnds
  <2>4. CASE h = g
    <3>1. t \in Owners(h) /\ Owners(h)' = Owners(h) \ {t}
      BY <2>1, <2>2, <2>3, <2>4, OwnerIs, OwnersFinite
    <3>2. Count(pipes, h) > 0 => Count(pipes', h) = Count(pipes, h) - 1
      BY <1>a, <2>1, <2>2, <2>4, CloseEndTable
    <3> QED BY <3>1, <3>2 DEF Shape, Closed
  <2>5. CASE h # g
    <3>1. Owners(h)' = Owners(h)
      BY <2>2, <2>3, <2>5, OwnersSame
    <3>2. Count(pipes', h) = Count(pipes, h)
      BY <1>a, <2>1, <2>2, <2>5, CloseEndTable
    <3> QED BY <3>1, <3>2 DEF Shape, Kept
  <2> QED BY <2>4, <2>5
<1>10. ASSUME Fork(t) PROVE Shape(h)
  <2> DEFINE c == First(FreeSlots)
             f == [NoTask EXCEPT !.life = "Live", !.group = c,
                                 !.out = tasks[t].out, !.in = tasks[t].in, !.forked = TRUE,
                                 !.mask = tasks[t].mask, !.held = tasks[t].held]
             u == [tasks[t] EXCEPT !.forked = TRUE]
  <2>1. /\ c \in Slots /\ tasks[c].life = "Dead" /\ tasks[t].life = "Live"
        /\ "pipe" \notin Abilities /\ sh' = sh
        /\ pipes' = AcquireEnds(pipes, tasks[t].mask)
        /\ tasks' = [tasks EXCEPT ![t] = u, ![c] = f]
    BY <1>10, FreeFound DEF Fork, NotBoth, Ring3, Live
  <2>2. /\ f.held = tasks[t].held /\ f.closing = {}
        /\ u.held = tasks[t].held /\ u.closing = tasks[t].closing
    BY <1>a DEF NoTask, TaskType
  <2>3. /\ tasks[c].held = {} /\ tasks[c].closing = {} /\ tasks[t].mask = tasks[t].held
    BY <1>a, <2>1 DEF TaskEnds
  <2>4. c # t
    BY <2>1
  <2> HIDE DEF c, f, u
  <2>5. /\ tasks'[c].held = tasks[t].held /\ tasks'[c].closing = {}
        /\ tasks'[t].held = tasks[t].held /\ tasks'[t].closing = tasks[t].closing
        /\ \A s \in Slots : s # t /\ s # c => tasks'[s] = tasks[s]
    BY <1>a, <2>1, <2>2, <2>4
  <2>6. CASE h \in tasks[t].held
    <3>1. t \in Owners(h) /\ c \notin Owners(h)
      BY <2>1, <2>3, <2>6, OwnerIs, OwnersFinite
    <3>2. \A x : x \in Owners(h)' <=> x \in Owners(h) \/ x = c
      BY <2>1, <2>3, <2>5, <2>6, OwnerIs
    <3>5. Owners(h)' = Owners(h) \cup {c}
      BY <3>2
    <3>3. pipes[SlotOf(h)].used
      BY <3>1, OwnedUsed
    <3>4. Count(pipes', h) = Count(pipes, h) + 1
      BY <1>a, <1>b, <2>1, <2>3, <2>6, <3>3, AcquireTable
    <3> QED BY <3>1, <3>4, <3>5 DEF Shape, Added
  <2>7. CASE h \notin tasks[t].held
    <3>1. Owners(h)' = Owners(h)
      BY <2>1, <2>3, <2>5, <2>7, OwnersSame
    <3>2. Count(pipes', h) = Count(pipes, h) + 0
      BY <1>a, <1>b, <2>1, <2>3, <2>7, AcquireTable
    <3>3. Count(pipes, h) \in Nat
      BY <1>a DEF Count, TableOK, PipeType
    <3> QED BY <3>1, <3>2, <3>3 DEF Shape, Kept
  <2> QED BY <2>6, <2>7
<1>11. ASSUME Clone(t) PROVE Shape(h)
  <2> DEFINE c == First(FreeSlots)
             g == [NoTask EXCEPT !.life = "Live", !.group = tasks[t].group,
                                 !.out = tasks[t].out, !.in = tasks[t].in]
  <2>1. /\ c \in Slots /\ tasks[c].life = "Dead" /\ sh' = sh /\ pipes' = pipes
        /\ tasks' = [tasks EXCEPT ![c] = g]
    BY <1>11, FreeFound DEF Clone
  <2>2. g.held = {} /\ g.closing = {}
    BY DEF NoTask
  <2>3. tasks[c].held = {} /\ tasks[c].closing = {}
    BY <1>a, <2>1 DEF TaskEnds
  <2> HIDE DEF c, g
  <2>4. \A s \in Slots : tasks'[s].held = tasks[s].held /\ tasks'[s].closing = tasks[s].closing
    BY <1>a, <2>1, <2>2, <2>3
  <2> QED BY <1>k, <2>1, <2>4
<1>12. ASSUME Exit(t) PROVE Shape(h)
  <2> DEFINE others == {s \in Slots : s # t /\ Live(s) /\ tasks[s].group = tasks[t].group}
  <2>1. PICK parked \in SUBSET others :
          /\ tasks' = [s \in Slots |->
                         CASE s = t -> Leaving(UNION {tasks[r].mask : r \in parked \cup {t}})
                           [] s \in parked -> NoTask
                           [] s \in others \ parked -> [tasks[s] EXCEPT !.doomed = TRUE]
                           [] OTHER -> tasks[s]]
          /\ sh' = [sh EXCEPT !.spawned = @ \ (parked \cup {t})]
    BY <1>12 DEF Exit
  <2> DEFINE U == UNION {tasks[r].mask : r \in parked \cup {t}}
  <2>2. U \in SUBSET Handles
    BY <1>a DEF TaskType
  <2>3. pipes' = pipes /\ sh'.mask = sh.mask /\ tasks[t].life = "Live"
    BY <1>12, <1>s, <2>1 DEF Exit, Ring3, Live
  <2>4. parked \subseteq Slots /\ t \notin parked
    OBVIOUS
  <2>5. /\ tasks'[t] = Leaving(U)
        /\ \A s \in parked : tasks'[s] = NoTask
        /\ \A s \in Slots \ (parked \cup {t}) :
              tasks'[s] = tasks[s] \/ tasks'[s] = [tasks[s] EXCEPT !.doomed = TRUE]
    BY <2>1, <2>4
  <2>6. /\ tasks'[t].held = {} /\ tasks'[t].closing = U
        /\ \A s \in parked : tasks'[s].held = {} /\ tasks'[s].closing = {}
        /\ \A s \in Slots \ (parked \cup {t}) :
              tasks'[s].held = tasks[s].held /\ tasks'[s].closing = tasks[s].closing
    <3>1. \A s \in Slots : /\ [tasks[s] EXCEPT !.doomed = TRUE].held = tasks[s].held
                            /\ [tasks[s] EXCEPT !.doomed = TRUE].closing = tasks[s].closing
      BY <1>a DEF TaskType
    <3>2. NoTask.held = {} /\ NoTask.closing = {}
      BY DEF NoTask
    <3>3. tasks'[t].held = {} /\ tasks'[t].closing = U
      BY <2>2, <2>5, LeavingEnds
    <3> HIDE DEF U
    <3> QED BY <2>5, <3>1, <3>2, <3>3
  <2>7. /\ \A s \in parked \cup {t} : /\ tasks[s].closing = {} /\ tasks[s].mask \subseteq tasks[s].held
                                      /\ Orderly => tasks[s].mask = tasks[s].held
                                      /\ tasks[s].group = tasks[t].group
    BY <1>a, <2>3 DEF TaskEnds, Live, Orderly
  <2>8. U = UNION {tasks[r].mask : r \in parked \cup {t}}
    OBVIOUS
  <2> HIDE DEF U, others
  <2>9. CASE h \in U
    <3>1. PICK r \in parked \cup {t} : h \in tasks[r].mask
      BY <2>8, <2>9
    <3>2. r \in Owners(h) /\ r \in Slots
      BY <2>4, <2>7, <3>1, OwnerIs
    <3>3. \A x : x \in Owners(h)' => (x \in Owners(h) /\ x # r) \/ x = t
      BY <2>3, <2>4, <2>6, <3>1, OwnerIs, OwnersFinite
    <3>4. Owners(h)' \subseteq (Owners(h) \ {r}) \cup {t}
      BY <3>3
    <3>5. ASSUME Orderly PROVE (t = r \/ t \notin Owners(h)) /\ Owners(h)' = (Owners(h) \ {r}) \cup {t}
      <4>1. tasks[r].group = r /\ tasks[t].group = r
        BY <2>7, <3>1, <3>2, <3>5 DEF Orderly
      <4>2. \A s \in parked \cup {t} : h \in tasks[s].held => s = r
        BY <2>4, <2>7, <3>5, <4>1 DEF Orderly
      <4>3. t = r \/ t \notin Owners(h)
        BY <2>7, <4>2, OwnerIs, OwnersFinite
      <4>4. t \in Owners(h)'
        BY <2>6, <2>9, OwnerIs
      <4>5. \A x : x \in Owners(h) /\ x # r => x \in Owners(h)'
        BY <2>3, <2>6, <2>7, <4>2, OwnerIs, OwnersFinite
      <4> QED BY <3>4, <4>3, <4>4, <4>5
    <3> QED BY <2>3, <3>2, <3>4, <3>5 DEF Shape, Moved
  <2>10. CASE h \notin U
    <3>1. \A s \in parked \cup {t} : h \notin tasks[s].mask
      BY <2>8, <2>10
    <3>2. Owners(h)' \subseteq Owners(h)
      BY <2>3, <2>4, <2>6, <2>10, OwnerIs, OwnersFinite
    <3>3. Orderly => Owners(h)' = Owners(h)
      BY <2>3, <2>4, <2>6, <2>7, <2>10, <3>1, OwnersSame
    <3> QED BY <2>3, <3>2, <3>3 DEF Shape, Kept
  <2> QED BY <2>9, <2>10
<1> QED BY <1>1, <1>2, <1>3, <1>4, <1>5, <1>6, <1>8, <1>9, <1>10, <1>11, <1>12 DEF Step

\* Every step of the shell changes the owners of an end in one of the four ways.
LEMMA ShellShape ==
    ASSUME TypeOK, EndsInv, Cover, ShStart \/ ShStep, NEW h \in Handles
    PROVE  Shape(h)
<1>a. /\ tasks \in [Slots -> TaskType] /\ sh \in ShellType /\ TableOK(pipes)
      /\ \A s \in Slots : TaskEnds(tasks[s])
      /\ ShellEnds /\ SlotOf(h) \in Pipes
  BY HandleNames DEF TypeOK, EndsInv, TableOK
<1>b. /\ sh.mask \in SUBSET Handles /\ sh.ends \in Seq(Pipes)
  BY <1>a DEF ShellType
<1>k. ASSUME \A s \in Slots : tasks'[s].held = tasks[s].held /\ tasks'[s].closing = tasks[s].closing,
             sh'.mask = sh.mask, pipes' = pipes
      PROVE  Shape(h)
  <2>1. Owners(h)' = Owners(h)
    BY <1>k, OwnersSame
  <2> QED BY <1>k, <2>1 DEF Shape, Kept
<1>1. ASSUME ShStart \/ ShRunning \/ ShDone PROVE Shape(h)
  <2>2. /\ ShellIdle.mask = {}
        /\ \A n : [ShellIdle EXCEPT !.phase = "open", !.stages = n].mask = {}
        /\ [sh EXCEPT !.phase = "drop"].mask = sh.mask
    BY <1>a DEF ShellIdle, ShellType
  <2>1. sh'.mask = sh.mask
    BY <1>1, <1>a, <2>2 DEF ShStart, ShRunning, ShDone, ShellEnds
  <2> QED BY <1>1, <1>k, <2>1 DEF ShStart, ShRunning, ShDone
<1>2. ASSUME ShFail PROVE Shape(h)
  <2>1. sh'.mask = sh.mask /\ pipes' = pipes
    BY <1>2, <1>a DEF ShFail, ShellType
  <2>2. \A s \in Slots : /\ [tasks[s] EXCEPT !.signalled = TRUE].held = tasks[s].held
                         /\ [tasks[s] EXCEPT !.signalled = TRUE].closing = tasks[s].closing
    BY <1>a DEF TaskType
  <2>3. \A s \in Slots : tasks'[s].held = tasks[s].held /\ tasks'[s].closing = tasks[s].closing
    BY <1>2, <2>2 DEF ShFail
  <2> QED BY <1>k, <2>1, <2>3
<1>3. ASSUME ShDrop PROVE Shape(h)
  <2> DEFINE g == First(sh.mask)
  <2>1. /\ g \in sh.mask /\ g \in Handles
        /\ pipes' = CloseEnd(pipes, g) /\ sh' = [sh EXCEPT !.mask = @ \ {g}] /\ tasks' = tasks
    BY <1>3, <1>b, FirstEnd DEF ShDrop
  <2> HIDE DEF g
  <2>2. sh'.mask = sh.mask \ {g}
    BY <1>a, <2>1 DEF ShellType
  <2>3. CASE h = g
    <3>1. Shell \in Owners(h)
      BY <2>1, <2>3, OwnerIs
    <3>2. \A x : x \in Owners(h)' <=> x \in Owners(h) /\ x # Shell
      BY <2>1, <2>2, <2>3, OwnerIs, OwnersFinite
    <3>3. Owners(h)' = Owners(h) \ {Shell}
      BY <3>2
    <3>4. Count(pipes, h) > 0 => Count(pipes', h) = Count(pipes, h) - 1
      BY <1>a, <2>1, <2>3, CloseEndTable
    <3> QED BY <3>1, <3>3, <3>4 DEF Shape, Closed
  <2>4. CASE h # g
    <3>1. Owners(h)' = Owners(h)
      BY <2>1, <2>2, <2>4, OwnersSame
    <3>2. Count(pipes', h) = Count(pipes, h)
      BY <1>a, <2>1, <2>4, CloseEndTable
    <3> QED BY <3>1, <3>2 DEF Shape, Kept
  <2> QED BY <2>3, <2>4
<1>4. ASSUME ShOpen PROVE Shape(h)
  <2> DEFINE p == First(FreePipes)
  <2>1. p \in Pipes /\ ~pipes[p].used /\ Opened(p) /\ tasks' = tasks
    BY <1>4, FreeFound DEF ShOpen
  <2>2. sh' = [sh EXCEPT !.ends = Append(@, p), !.mask = @ \cup {ReadEnd(p), WriteEnd(p)}]
    BY <1>4 DEF ShOpen
  <2> HIDE DEF p
  <2>3. sh'.mask = sh.mask \cup {ReadEnd(p), WriteEnd(p)}
    BY <1>a, <2>2 DEF ShellType
  <2>4. h \in {ReadEnd(p), WriteEnd(p)} <=> SlotOf(h) = p
    BY <2>1, HandleNames
  <2>5. Count(pipes', h) = IF SlotOf(h) = p THEN 1 ELSE Count(pipes, h)
    BY <1>a, <2>1, OpenedTable
  <2>6. CASE SlotOf(h) = p
    <3>1. Owners(h) = {} /\ Count(pipes, h) = 0
      BY <2>1, <2>6, FreeUnowned
    <3>2. \A x : x \in Owners(h)' <=> x \in Owners(h) \/ x = Shell
      BY <2>1, <2>3, <2>4, <2>6, OwnerIs
    <3>3. Owners(h)' = Owners(h) \cup {Shell}
      BY <3>2
    <3> QED BY <2>5, <2>6, <3>1, <3>3 DEF Shape, Added
  <2>7. CASE SlotOf(h) # p
    <3>1. Owners(h)' = Owners(h)
      BY <2>1, <2>3, <2>4, <2>7, OwnersSame
    <3> QED BY <2>5, <2>7, <3>1 DEF Shape, Kept
  <2> QED BY <2>6, <2>7
<1>5. ASSUME ShSpawn PROVE Shape(h)
  <2> DEFINE ends == {StageIn(sh.next), StageOut(sh.next)} \ {NONE}
             t == First(FreeSlots)
             r == [NoTask EXCEPT !.life = "Live", !.group = t, !.mask = ends, !.held = ends,
                                 !.out = StageOut(sh.next), !.in = StageIn(sh.next)]
  <2>1. /\ t \in Slots /\ tasks[t].life = "Dead" /\ tasks' = [tasks EXCEPT ![t] = r]
        /\ pipes' = AcquireEnds(pipes, ends) /\ sh.phase = "open"
        /\ Len(sh.ends) = sh.stages - 1 /\ sh.next <= sh.stages
        /\ sh' = [sh EXCEPT !.next = @ + 1, !.spawned = @ \cup {t}]
    BY <1>5, FreeFound DEF ShSpawn
  <2>2. r.held = ends /\ r.closing = {} /\ tasks[t].held = {} /\ tasks[t].closing = {}
    BY <1>a, <2>1 DEF NoTask, TaskEnds
  <2>3. ends \in SUBSET Handles /\ ends \subseteq sh.mask
    <3>1. \A i \in 1..Len(sh.ends) : ReadEnd(sh.ends[i]) \in sh.mask /\ WriteEnd(sh.ends[i]) \in sh.mask
      BY <1>a, <2>1 DEF ShellEnds
    <3> QED BY <2>1, <3>1, StageEnds
  <2>4. sh'.mask = sh.mask
    BY <1>a, <2>1 DEF ShellType
  <2> HIDE DEF ends, t, r
  <2>5. /\ tasks'[t].held = ends /\ tasks'[t].closing = {}
        /\ \A s \in Slots : s # t => tasks'[s] = tasks[s]
    BY <1>a, <2>1, <2>2
  <2>6. CASE h \in ends
    <3>1. Shell \in Owners(h) /\ t \notin Owners(h)
      BY <2>1, <2>2, <2>3, <2>6, OwnerIs, OwnersFinite
    <3>2. \A x : x \in Owners(h)' <=> x \in Owners(h) \/ x = t
      BY <2>1, <2>2, <2>4, <2>5, <2>6, OwnerIs
    <3>3. Owners(h)' = Owners(h) \cup {t}
      BY <3>2
    <3>4. pipes[SlotOf(h)].used
      BY <3>1, OwnedUsed
    <3>5. Count(pipes', h) = Count(pipes, h) + 1
      BY <1>a, <2>1, <2>3, <2>6, <3>4, AcquireTable
    <3> QED BY <3>1, <3>3, <3>5 DEF Shape, Added
  <2>7. CASE h \notin ends
    <3>1. Owners(h)' = Owners(h)
      BY <2>1, <2>2, <2>4, <2>5, <2>7, OwnersSame
    <3>2. Count(pipes', h) = Count(pipes, h) + 0
      BY <1>a, <2>1, <2>3, <2>7, AcquireTable
    <3>3. Count(pipes, h) \in Nat
      BY <1>a DEF Count, TableOK, PipeType
    <3> QED BY <3>1, <3>2, <3>3 DEF Shape, Kept
  <2> QED BY <2>6, <2>7
<1> QED BY <1>1, <1>2, <1>3, <1>4, <1>5 DEF ShStep

\* So Cover is inductive where programs cannot both make pipes and fork.
LEMMA CoverStep ==
    ASSUME NotBoth
    PROVE  TypeOK /\ EndsInv /\ Cover /\ [Next]_vars => Cover'
<1> SUFFICES ASSUME TypeOK, EndsInv, Cover, [Next]_vars PROVE Cover'
  OBVIOUS
<1>1. CASE UNCHANGED vars
  BY <1>1 DEF vars, Cover, Count, Owners
<1>2. CASE Next
  <2>1. TypeOK'
    BY PipeStepType
  <2>2. \A h \in Handles : Shape(h)
    BY <1>2, TaskShape, ShellShape DEF Next
  <2> QED BY <2>1, <2>2, ShapeKeeps DEF Cover
<1> QED BY <1>1, <1>2

\* Nothing is counted at the start and nobody has an end.
LEMMA MatchInit == Init => Match
<1> SUFFICES ASSUME Init, NEW h \in Handles PROVE Count(pipes, h) = Cardinality(Owners(h))
  BY DEF Match
<1>1. Count(pipes, h) = 0
  BY HandleNames DEF Init, Count, FreshPipe
<1>2. \A x : x \notin Owners(h)
  BY OwnerIs DEF Init, NoTask, ShellIdle
<1> QED BY <1>1, <1>2, FS_EmptySet

(* "The end's refcount must cover every task that holds the handle, or a     *)
(* shell dropping its own copies would free a live pipe": for any number of  *)
(* pipes, tasks and stages, whatever exits, kills, closes and failed spawns  *)
(* interleave, as long as programs do not both call pipe() and fork: the     *)
(* ends of pipe() are not in the mask that fork counts, and PipeForked       *)
(* shows the counts then fall short.                                        *)
THEOREM EndsCovered ==
    ASSUME NotBoth
    PROVE  Spec => []RefsCover
<1>1. Init => EndsInv /\ Cover
  <2>1. Match => Cover
    <3> SUFFICES ASSUME Match, NEW h \in Handles PROVE Count(pipes, h) >= Cardinality(Owners(h))
      BY DEF Cover
    <3>1. Count(pipes, h) = Cardinality(Owners(h)) /\ Cardinality(Owners(h)) \in Nat
      BY OwnersFinite DEF Match
    <3> QED BY <3>1
  <2> QED BY <2>1, EndsInit, MatchInit
<1>2. TypeOK /\ EndsInv /\ [Next]_vars => EndsInv'
  BY EndsStep
<1>3. TypeOK /\ EndsInv /\ Cover /\ [Next]_vars => Cover'
  BY CoverStep
<1>4. TypeOK /\ EndsInv /\ Cover => RefsCover
  <2> SUFFICES ASSUME TypeOK, EndsInv, Cover PROVE RefsCover
    OBVIOUS
  <2> DEFINE recorded(h) == {t \in Slots : h \in tasks[t].mask \cup tasks[t].closing}
                               \cup (IF h \in sh.mask THEN {Shell} ELSE {})
  <2>1. ASSUME NEW h \in Handles PROVE Count(pipes, h) >= Cardinality(recorded(h))
    <3>1. recorded(h) \subseteq Owners(h)
      BY DEF EndsInv, TaskEnds, Owners
    <3>2. Cardinality(recorded(h)) <= Cardinality(Owners(h)) /\ Cardinality(recorded(h)) \in Nat
      BY <3>1, OwnersFinite, FS_Subset, FS_CardinalityType
    <3>3. Count(pipes, h) \in Nat /\ Count(pipes, h) >= Cardinality(Owners(h))
      BY HandleNames DEF Cover, Count, TypeOK, PipeType
    <3> HIDE DEF recorded
    <3> QED BY <3>2, <3>3, OwnersFinite
  <2> HIDE DEF recorded
  <2>2. \A p \in Pipes : /\ pipes[p].readers >= Cardinality(recorded(ReadEnd(p)))
                         /\ pipes[p].writers >= Cardinality(recorded(WriteEnd(p)))
    <3> TAKE p \in Pipes
    <3>1. Count(pipes, ReadEnd(p)) = pipes[p].readers /\ Count(pipes, WriteEnd(p)) = pipes[p].writers
      BY HandleNames DEF Count
    <3> QED BY <2>1, <3>1, HandleNames
  <2> QED BY <2>2 DEF RefsCover, recorded
<1> QED BY <1>1, <1>2, <1>3, <1>4, PipeTypeCorrect, PTL DEF Spec

TaskOrder(t) == ~tasks[t].signalled /\ (tasks[t].mask # {} => tasks[t].group = t)
ShellOrder == sh.phase = "open" /\ Len(sh.ends) < sh.stages - 1 => sh.spawned = {}

\* An orderly system stays orderly.
LEMMA OrderlyStep == TypeOK /\ Orderly /\ [Next]_vars => Orderly'
<1> SUFFICES ASSUME TypeOK, Orderly, [Next]_vars PROVE Orderly'
  OBVIOUS
<1>a. /\ tasks \in [Slots -> TaskType] /\ \A t \in Slots : tasks[t] \in TaskType
      /\ sh \in ShellType
      /\ \A t \in Slots : TaskOrder(t)
      /\ ShellOrder
      /\ Abilities \subseteq {"fork", "clone", "background"}
  BY DEF TypeOK, Orderly, TaskOrder, ShellOrder
<1>b. ASSUME \A t \in Slots : TaskOrder(t)', ShellOrder'
      PROVE  Orderly'
  BY <1>a, <1>b DEF Orderly, TaskOrder, ShellOrder
<1>c. ASSUME NEW S \in SUBSET sh.spawned, sh' = [sh EXCEPT !.spawned = S]
      PROVE  ShellOrder'
  BY <1>a, <1>c DEF ShellOrder, ShellType
<1>d. ASSUME NEW t \in Slots, NEW r, tasks' = [tasks EXCEPT ![t] = r],
             ~r.signalled, r.mask # {} => r.group = t
      PROVE  \A s \in Slots : TaskOrder(s)'
  BY <1>a, <1>d DEF TaskOrder
<1>e. ~NoTask.signalled /\ NoTask.mask = {} /\ \A H : ~Leaving(H).signalled /\ Leaving(H).mask = {}
  BY DEF NoTask, Leaving
<1>f. sh' = sh => ShellOrder'
  BY <1>a DEF ShellOrder
<1>1. ASSUME NEW t \in Slots, Step(t) \/ BeginWrite(t) \/ BeginRead(t) \/ ThreadExit(t) \/ Clone(t)
      PROVE  Orderly'
  <2>1. CASE WriteStep(t) \/ ReadStep(t) \/ BeginWrite(t) \/ BeginRead(t) \/ CloseNext(t)
    <3> DEFINE k == [tasks[t] EXCEPT !.closing = @ \ {First(tasks[t].closing)}]
               d == [tasks[t] EXCEPT !.op = NoOp, !.done = TRUE]
    <3>1. sh' = sh
      BY <2>1 DEF WriteStep, ReadStep, BeginWrite, BeginRead, CloseNext
    <3>2. \E r : /\ tasks' = [tasks EXCEPT ![t] = r]
                 /\ r = d \/ r = k \/ r = NoTask \/ \E x : r = [tasks[t] EXCEPT !.op = x]
      <4>1. \/ \E x : tasks' = [tasks EXCEPT ![t] = [tasks[t] EXCEPT !.op = x]]
            \/ tasks' = [tasks EXCEPT ![t] = d]
            \/ tasks' = [tasks EXCEPT ![t] = k]
            \/ tasks' = [tasks EXCEPT ![t] = NoTask]
        BY <2>1 DEF WriteStep, ReadStep, BeginWrite, BeginRead, CloseNext
      <4> HIDE DEF k, d
      <4> QED BY <4>1
    <3>3. \A x : [tasks[t] EXCEPT !.op = x].signalled = tasks[t].signalled
                 /\ [tasks[t] EXCEPT !.op = x].mask = tasks[t].mask
                 /\ [tasks[t] EXCEPT !.op = x].group = tasks[t].group
      BY <1>a DEF TaskType
    <3>4. /\ d.signalled = tasks[t].signalled /\ d.mask = tasks[t].mask /\ d.group = tasks[t].group
          /\ k.signalled = tasks[t].signalled /\ k.mask = tasks[t].mask /\ k.group = tasks[t].group
      BY <1>a DEF TaskType
    <3> HIDE DEF k, d
    <3>5. PICK r : /\ tasks' = [tasks EXCEPT ![t] = r]
                   /\ r = d \/ r = k \/ r = NoTask \/ \E x : r = [tasks[t] EXCEPT !.op = x]
      BY <3>2
    <3>6. ~r.signalled /\ (r.mask # {} => r.group = t)
      BY <1>a, <1>e, <3>3, <3>4, <3>5 DEF TaskOrder
    <3> QED BY <1>b, <1>d, <1>f, <3>1, <3>5, <3>6
  <2>2. CASE DieMarked(t) \/ ThreadExit(t)
    <3>1. tasks' = [tasks EXCEPT ![t] = Leaving(tasks[t].mask)]
      BY <2>2 DEF DieMarked, ThreadExit
    <3>2. sh' = [sh EXCEPT !.spawned = @ \ {t}] \/ sh' = sh
      BY <2>2 DEF DieMarked, ThreadExit
    <3>3. ShellOrder'
      BY <1>c, <1>f, <3>2
    <3>4. \A s \in Slots : TaskOrder(s)'
      BY <1>d, <1>e, <3>1
    <3> QED BY <1>b, <3>3, <3>4
  <2>3. CASE Terminate(t)
    BY <1>a, <2>3 DEF Terminate, TaskOrder
  <2>4. CASE Clone(t)
    <3> DEFINE c == First(FreeSlots)
               g == [NoTask EXCEPT !.life = "Live", !.group = tasks[t].group,
                                   !.out = tasks[t].out, !.in = tasks[t].in]
    <3>1. c \in Slots /\ tasks' = [tasks EXCEPT ![c] = g] /\ sh' = sh
      BY <2>4, FreeFound DEF Clone
    <3>2. ~g.signalled /\ g.mask = {}
      BY DEF NoTask
    <3> HIDE DEF c, g
    <3> QED BY <1>b, <1>d, <1>f, <3>1, <3>2
  <2> QED BY <1>1, <2>1, <2>2, <2>3, <2>4 DEF Step
<1>2. ASSUME NEW t \in Slots, SysPipe(t) \/ PipeClose(t) \/ Signal(t)
      PROVE  Orderly'
  BY <1>a, <1>2 DEF SysPipe, PipeClose, Signal
<1>3. ASSUME NEW t \in Slots, Fork(t)
      PROVE  Orderly'
  <2> DEFINE c == First(FreeSlots)
             f == [NoTask EXCEPT !.life = "Live", !.group = c,
                                 !.out = tasks[t].out, !.in = tasks[t].in, !.forked = TRUE,
                                 !.mask = tasks[t].mask, !.held = tasks[t].held]
             u == [tasks[t] EXCEPT !.forked = TRUE]
  <2>1. c \in Slots /\ tasks' = [tasks EXCEPT ![t] = u, ![c] = f] /\ sh' = sh
    BY <1>3, FreeFound DEF Fork
  <2>2. ~f.signalled /\ f.group = c
    BY DEF NoTask
  <2>3. u.signalled = tasks[t].signalled /\ u.mask = tasks[t].mask /\ u.group = tasks[t].group
    BY <1>a DEF TaskType
  <2> HIDE DEF c, f, u
  <2>4. \A s \in Slots : TaskOrder(s)'
    BY <1>a, <2>1, <2>2, <2>3 DEF TaskOrder
  <2> QED BY <1>b, <1>f, <2>1, <2>4
<1>4. ASSUME NEW t \in Slots, Exit(t)
      PROVE  Orderly'
  <2> DEFINE others == {s \in Slots : s # t /\ Live(s) /\ tasks[s].group = tasks[t].group}
  <2>1. PICK parked \in SUBSET others :
          /\ tasks' = [s \in Slots |->
                         CASE s = t -> Leaving(UNION {tasks[r].mask : r \in parked \cup {t}})
                           [] s \in parked -> NoTask
                           [] s \in others \ parked -> [tasks[s] EXCEPT !.doomed = TRUE]
                           [] OTHER -> tasks[s]]
          /\ sh' = [sh EXCEPT !.spawned = @ \ (parked \cup {t})]
    BY <1>4 DEF Exit
  <2> DEFINE U == UNION {tasks[r].mask : r \in parked \cup {t}}
             m(s) == [tasks[s] EXCEPT !.doomed = TRUE]
  <2>2. \A s \in Slots : \/ tasks'[s] = Leaving(U) \/ tasks'[s] = NoTask
                         \/ tasks'[s] = m(s) \/ tasks'[s] = tasks[s]
    BY <2>1
  <2>3. \A s \in Slots : /\ m(s).signalled = tasks[s].signalled /\ m(s).mask = tasks[s].mask
                         /\ m(s).group = tasks[s].group
    BY <1>a DEF TaskType
  <2> HIDE DEF U, m, others
  <2>4. \A s \in Slots : TaskOrder(s)'
    BY <1>a, <1>e, <2>2, <2>3 DEF TaskOrder
  <2>5. ShellOrder'
    BY <1>c, <2>1
  <2> QED BY <1>b, <2>4, <2>5
<1>5. ASSUME ShStart PROVE Orderly'
  <2>1. tasks' = tasks /\ \E n \in 2..MaxStages : sh' = [ShellIdle EXCEPT !.phase = "open", !.stages = n]
    BY <1>5 DEF ShStart
  <2>2. sh'.spawned = {}
    BY <2>1 DEF ShellIdle
  <2>3. \A s \in Slots : TaskOrder(s)'
    BY <1>a, <2>1 DEF TaskOrder
  <2> QED BY <1>b, <2>2, <2>3 DEF ShellOrder
<1>6. ASSUME ShOpen PROVE Orderly'
  <2>1. /\ tasks' = tasks /\ sh.phase = "open" /\ Len(sh.ends) < sh.stages - 1
        /\ \E p : \E M : sh' = [sh EXCEPT !.ends = Append(@, p), !.mask = M]
    BY <1>6 DEF ShOpen
  <2>2. sh'.spawned = {}
    BY <1>a, <2>1 DEF ShellOrder, ShellType
  <2>3. \A s \in Slots : TaskOrder(s)'
    BY <1>a, <2>1 DEF TaskOrder
  <2> QED BY <1>b, <2>2, <2>3 DEF ShellOrder
<1>7. ASSUME ShSpawn PROVE Orderly'
  <2> DEFINE ends == {StageIn(sh.next), StageOut(sh.next)} \ {NONE}
             t == First(FreeSlots)
             r == [NoTask EXCEPT !.life = "Live", !.group = t, !.mask = ends, !.held = ends,
                                 !.out = StageOut(sh.next), !.in = StageIn(sh.next)]
  <2>1. /\ t \in Slots /\ tasks' = [tasks EXCEPT ![t] = r]
        /\ Len(sh.ends) = sh.stages - 1
        /\ sh' = [sh EXCEPT !.next = @ + 1, !.spawned = @ \cup {t}]
    BY <1>7, FreeFound DEF ShSpawn
  <2>2. ~r.signalled /\ r.group = t
    BY DEF NoTask
  <2> HIDE DEF ends, t, r
  <2>3. sh'.ends = sh.ends /\ sh'.stages = sh.stages /\ sh.stages \in Int
    BY <1>a, <2>1, PipeAssumption DEF ShellType
  <2>4. ~(Len(sh'.ends) < sh'.stages - 1)
    BY <2>1, <2>3
  <2>5. \A s \in Slots : TaskOrder(s)'
    BY <1>d, <2>1, <2>2
  <2> QED BY <1>b, <2>4, <2>5 DEF ShellOrder
<1>8. ASSUME ShFail PROVE Orderly'
  <2>1. sh.spawned = {}
    BY <1>8, <1>a DEF ShFail, ShellOrder
  <2>2. \A s \in Slots : tasks'[s] = tasks[s]
    BY <1>8, <2>1 DEF ShFail
  <2>3. \A s \in Slots : TaskOrder(s)'
    BY <1>a, <2>2 DEF TaskOrder
  <2>4. sh'.phase = "clean"
    BY <1>8, <1>a DEF ShFail, ShellType
  <2> QED BY <1>b, <2>3, <2>4 DEF ShellOrder
<1>9. ASSUME ShRunning \/ ShDone \/ ShDrop PROVE Orderly'
  <2>1. tasks' = tasks
    BY <1>9 DEF ShRunning, ShDone, ShDrop
  <2>2. sh'.phase # "open"
    BY <1>9, <1>a DEF ShRunning, ShDone, ShDrop, ShellIdle, ShellType
  <2>3. \A s \in Slots : TaskOrder(s)'
    BY <1>a, <2>1 DEF TaskOrder
  <2> QED BY <1>b, <2>2, <2>3 DEF ShellOrder
<1>10. CASE UNCHANGED vars
  BY <1>10 DEF vars, Orderly
<1> QED BY <1>1, <1>2, <1>3, <1>4, <1>5, <1>6, <1>7, <1>8, <1>9, <1>10 DEF Next, ShStep

(* "Task exit releases the task's ends": for any number of pipes, tasks and  *)
(* stages the counts of a pipe are exactly the numbers of those who have its *)
(* ends, so it is freed when the last one leaves and never leaked, however   *)
(* exits of threads and processes, forks and the shell's own closing         *)
(* interleave.  Nobody is killed by a signal, no stage fails to spawn and    *)
(* programs do not call pipe(); PipeLeak shows what a failed spawn leaks.    *)
THEOREM EndsMatched ==
    ASSUME Abilities \subseteq {"fork", "clone", "background"}
    PROVE  Spec => []RefsMatch
<1>1. Init => EndsInv /\ Match /\ Orderly
  <2>1. Init => Orderly
    BY DEF Init, Orderly, NoTask, ShellIdle
  <2> QED BY <2>1, EndsInit, MatchInit
<1>2. TypeOK /\ EndsInv /\ [Next]_vars => EndsInv'
  BY EndsStep
<1>3. TypeOK /\ Orderly /\ [Next]_vars => Orderly'
  BY OrderlyStep
<1>4. TypeOK /\ EndsInv /\ Orderly /\ Match /\ [Next]_vars => Match'
  <2> SUFFICES ASSUME TypeOK, EndsInv, Orderly, Match, [Next]_vars PROVE Match'
    OBVIOUS
  <2>1. CASE UNCHANGED vars
    BY <2>1 DEF vars, Match, Count, Owners
  <2>2. CASE Next
    <3>1. TypeOK' /\ NotBoth
      BY PipeStepType DEF NotBoth
    <3>2. Cover
      <4> SUFFICES ASSUME NEW h \in Handles PROVE Count(pipes, h) >= Cardinality(Owners(h))
        BY DEF Cover
      <4> QED BY OwnersFinite DEF Match
    <3>3. \A h \in Handles : Shape(h)
      BY <2>2, <3>1, <3>2, TaskShape, ShellShape DEF Next
    <3> QED BY <3>1, <3>3, ShapeKeeps DEF Match
  <2> QED BY <2>1, <2>2
<1>5. Match => RefsMatch
  BY HandleNames DEF Match, RefsMatch, Count
<1> QED BY <1>1, <1>2, <1>3, <1>4, <1>5, PipeTypeCorrect, PTL DEF Spec

-----------------------------------------------------------------------------
(* End of file.                                                             *)

(* A program writes to ends it was given; it has no others when it neither   *)
(* makes nor closes ends and is no thread of another program.               *)
OwnOut(r) ==
    /\ r.out # NONE => r.out \in r.held /\ IsWriteEnd(r.out)
    /\ r.op.kind = "write" => r.op.h \in r.held /\ IsWriteEnd(r.op.h)

EofInv ==
    /\ \A t \in Slots : OwnOut(tasks[t])
    /\ \A p \in Pipes : eof[p] => pipes[p].writers = 0

NoSharedEnds == "clone" \notin Abilities /\ "pipe" \notin Abilities

\* A slot without a program writes to nothing.
LEMMA NoOut == OwnOut(NoTask) /\ \A H : OwnOut(Leaving(H))
BY DEF OwnOut, NoTask, Leaving, NoOp

\* Every step of a task keeps what it may write to.
LEMMA OutStep ==
    ASSUME TypeOK, EndsInv, EofInv, NoSharedEnds, [Next]_vars
    PROVE  \A s \in Slots : OwnOut(tasks'[s])
<1>a. /\ tasks \in [Slots -> TaskType] /\ \A t \in Slots : tasks[t] \in TaskType
      /\ \A t \in Slots : OwnOut(tasks[t])
      /\ \A t \in Slots : tasks[t].held \in SUBSET Handles
  BY DEF TypeOK, EofInv, TaskType
<1>b. ASSUME NEW t \in Slots, NEW r, tasks' = [tasks EXCEPT ![t] = r], OwnOut(r)
      PROVE  \A s \in Slots : OwnOut(tasks'[s])
  BY <1>a, <1>b
<1>c. \A t \in Slots : /\ OwnOut([tasks[t] EXCEPT !.op = NoOp])
                       /\ OwnOut([tasks[t] EXCEPT !.op = NoOp, !.done = TRUE])
                       /\ OwnOut([tasks[t] EXCEPT !.closing = @ \ {First(tasks[t].closing)}])
                       /\ OwnOut([tasks[t] EXCEPT !.signalled = TRUE])
                       /\ OwnOut([tasks[t] EXCEPT !.doomed = TRUE])
                       /\ OwnOut([tasks[t] EXCEPT !.forked = TRUE])
  BY <1>a DEF OwnOut, TaskType, NoOp
<1>1. ASSUME NEW t \in Slots, WriteStep(t)
      PROVE  \A s \in Slots : OwnOut(tasks'[s])
  <2> DEFINE op == tasks[t].op
             p == SlotOf(op.h)
             n == Least(Cap - pipes[p].len, Len(op.data))
             rest == SubSeq(op.data, n + 1, Len(op.data))
             o == AfterPass(t, rest)
             r == [tasks[t] EXCEPT !.op = o]
  <2>1. \/ tasks' = [tasks EXCEPT ![t] = [tasks[t] EXCEPT !.op = NoOp]]
        \/ tasks' = [tasks EXCEPT ![t] = [tasks[t] EXCEPT !.op = NoOp, !.done = TRUE]]
        \/ tasks' = [tasks EXCEPT ![t] = r]
    BY <1>1 DEF WriteStep
  <2>2. op.kind = "write" /\ rest \in Seq(Bytes)
    <3>1. op.data \in Seq(Bytes) /\ op.h \in Handles /\ op.kind = "write"
      BY <1>1, OpShape DEF WriteStep
    <3>2. pipes[p] \in PipeType /\ Cap \in Nat
      BY <3>1, HandleNames, RingAssumption DEF TypeOK
    <3>3. Cap - pipes[p].len \in Nat /\ Len(op.data) \in Nat
      BY <3>1, <3>2 DEF PipeType
    <3>4. n \in Nat
      BY <3>3, LeastIs
    <3> HIDE DEF n
    <3> QED BY <3>1, <3>4
  <2>3. o = NoOp \/ (o.kind = "write" /\ o.h = op.h)
    BY <2>2, AfterPassIs
  <2> HIDE DEF op, p, n, rest, o
  <2>4. r.held = tasks[t].held /\ r.out = tasks[t].out /\ r.op = o
    BY <1>a DEF TaskType
  <2> HIDE DEF r
  <2>5. OwnOut(r)
    BY <1>a, <2>2, <2>3, <2>4 DEF OwnOut, op, NoOp
  <2> QED BY <1>b, <1>c, <2>1, <2>5
<1>2. ASSUME NEW t \in Slots, ReadStep(t)
      PROVE  \A s \in Slots : OwnOut(tasks'[s])
  <2>1. \/ tasks' = [tasks EXCEPT ![t] = [tasks[t] EXCEPT !.op = NoOp]]
        \/ tasks' = [tasks EXCEPT ![t] = [tasks[t] EXCEPT !.op = NoOp, !.done = TRUE]]
    BY <1>2 DEF ReadStep
  <2> QED BY <1>b, <1>c, <2>1
<1>3. ASSUME NEW t \in Slots, CloseNext(t)
      PROVE  \A s \in Slots : OwnOut(tasks'[s])
  <2>1. \/ tasks' = [tasks EXCEPT ![t] = [tasks[t] EXCEPT !.closing = @ \ {First(tasks[t].closing)}]]
        \/ tasks' = [tasks EXCEPT ![t] = NoTask]
    BY <1>3 DEF CloseNext
  <2> QED BY <1>b, <1>c, <2>1, NoOut
<1>4. ASSUME NEW t \in Slots, DieMarked(t) \/ ThreadExit(t) \/ Terminate(t) \/ Signal(t)
      PROVE  \A s \in Slots : OwnOut(tasks'[s])
  <2>1. \/ tasks' = [tasks EXCEPT ![t] = Leaving(tasks[t].mask)]
        \/ tasks' = [tasks EXCEPT ![t] = NoTask]
        \/ tasks' = [tasks EXCEPT ![t] = [tasks[t] EXCEPT !.signalled = TRUE]]
    BY <1>4 DEF DieMarked, ThreadExit, Terminate, Signal
  <2> QED BY <1>b, <1>c, <2>1, NoOut
<1>5. ASSUME NEW t \in Slots, BeginWrite(t)
      PROVE  \A s \in Slots : OwnOut(tasks'[s])
  <2>1. PICK h \in Targets(t), m \in Messages :
           tasks' = [tasks EXCEPT ![t].op = Feeding(h, m, ChunkOf(t, h))]
    BY <1>5 DEF BeginWrite
  <2>2. h \in tasks[t].held /\ IsWriteEnd(h)
    BY <1>a DEF Targets, OwnOut
  <2> DEFINE o == Feeding(h, m, ChunkOf(t, h))
  <2>3. o.h = h
    BY DEF Feeding
  <2>4. tasks' = [tasks EXCEPT ![t] = [tasks[t] EXCEPT !.op = o]]
    BY <2>1
  <2> HIDE DEF o
  <2>5. OwnOut([tasks[t] EXCEPT !.op = o])
    BY <1>a, <2>2, <2>3 DEF OwnOut, TaskType
  <2> QED BY <1>b, <2>4, <2>5
<1>6. ASSUME NEW t \in Slots, BeginRead(t)
      PROVE  \A s \in Slots : OwnOut(tasks'[s])
  <2>1. PICK h \in Sources(t), n \in ReadLens :
           tasks' = [tasks EXCEPT ![t].op = [kind |-> "read", h |-> h, len |-> n]]
    BY <1>6 DEF BeginRead
  <2> DEFINE o == [kind |-> "read", h |-> h, len |-> n]
  <2>3. o.kind # "write"
    OBVIOUS
  <2>4. tasks' = [tasks EXCEPT ![t] = [tasks[t] EXCEPT !.op = o]]
    BY <2>1
  <2> HIDE DEF o
  <2>5. OwnOut([tasks[t] EXCEPT !.op = o])
    BY <1>a, <2>3 DEF OwnOut, TaskType
  <2> QED BY <1>b, <2>4, <2>5
<1>7. ASSUME NEW t \in Slots, Fork(t)
      PROVE  \A s \in Slots : OwnOut(tasks'[s])
  <2> DEFINE c == First(FreeSlots)
             f == [NoTask EXCEPT !.life = "Live", !.group = c,
                                 !.out = tasks[t].out, !.in = tasks[t].in, !.forked = TRUE,
                                 !.mask = tasks[t].mask, !.held = tasks[t].held]
             u == [tasks[t] EXCEPT !.forked = TRUE]
  <2>1. c \in Slots /\ tasks' = [tasks EXCEPT ![t] = u, ![c] = f]
    BY <1>7, FreeFound DEF Fork
  <2>2. f.out = tasks[t].out /\ f.held = tasks[t].held /\ f.op.kind = "none"
    BY DEF NoTask, NoOp
  <2>3. OwnOut(f) /\ OwnOut(u)
    BY <1>a, <1>c, <2>2 DEF OwnOut
  <2> HIDE DEF c, f, u
  <2> QED BY <1>a, <2>1, <2>3
<1>8. ASSUME NEW t \in Slots, Exit(t)
      PROVE  \A s \in Slots : OwnOut(tasks'[s])
  <2> DEFINE others == {s \in Slots : s # t /\ Live(s) /\ tasks[s].group = tasks[t].group}
  <2>1. PICK parked \in SUBSET others :
          tasks' = [s \in Slots |->
                      CASE s = t -> Leaving(UNION {tasks[r].mask : r \in parked \cup {t}})
                        [] s \in parked -> NoTask
                        [] s \in others \ parked -> [tasks[s] EXCEPT !.doomed = TRUE]
                        [] OTHER -> tasks[s]]
    BY <1>8 DEF Exit
  <2> DEFINE U == UNION {tasks[r].mask : r \in parked \cup {t}}
  <2>2. \A s \in Slots : \/ tasks'[s] = Leaving(U) \/ tasks'[s] = NoTask
                         \/ tasks'[s] = [tasks[s] EXCEPT !.doomed = TRUE] \/ tasks'[s] = tasks[s]
    BY <2>1
  <2> HIDE DEF U, others
  <2> QED BY <1>a, <1>c, <2>2, NoOut
<1>9. ASSUME NEW t \in Slots, SysPipe(t) \/ PipeClose(t) \/ Clone(t)
      PROVE  \A s \in Slots : OwnOut(tasks'[s])
  BY <1>9 DEF SysPipe, PipeClose, Clone, NoSharedEnds
<1>10. ASSUME ShSpawn
       PROVE  \A s \in Slots : OwnOut(tasks'[s])
  <2> DEFINE i == StageIn(sh.next)
             o == StageOut(sh.next)
             ends == {i, o} \ {NONE}
             t == First(FreeSlots)
             r == [NoTask EXCEPT !.life = "Live", !.group = t, !.mask = ends, !.held = ends,
                                 !.out = o, !.in = i]
  <2>1. /\ t \in Slots /\ tasks' = [tasks EXCEPT ![t] = r]
        /\ Len(sh.ends) = sh.stages - 1 /\ sh.next <= sh.stages
    BY <1>10, FreeFound DEF ShSpawn
  <2>2. o # NONE => IsWriteEnd(o)
    BY <2>1, StageEnds, HandleNames DEF TypeOK, ShellType
  <2>3. r.out = o /\ r.held = ends /\ r.op.kind = "none"
    BY DEF NoTask, NoOp
  <2>4. OwnOut(r)
    BY <2>2, <2>3 DEF OwnOut
  <2> HIDE DEF i, o, ends, t, r
  <2> QED BY <1>b, <2>1, <2>4
<1>11. ASSUME ShFail
       PROVE  \A s \in Slots : OwnOut(tasks'[s])
  <2>1. \A s \in Slots : \/ tasks'[s] = [tasks[s] EXCEPT !.signalled = TRUE] \/ tasks'[s] = tasks[s]
    BY <1>11 DEF ShFail
  <2> QED BY <1>a, <1>c, <2>1
<1>12. CASE UNCHANGED tasks
  BY <1>a, <1>12
<1> QED BY <1>1, <1>2, <1>3, <1>4, <1>5, <1>6, <1>7, <1>8, <1>9, <1>10, <1>11, <1>12
        DEF Next, Step, ShStep, ShStart, ShOpen, ShRunning, ShDrop, ShDone, vars

\* A pipe that ended gets no new writer and no byte.
LEMMA EofKept ==
    ASSUME TypeOK, EndsInv, Cover, EofInv, NoSharedEnds, [Next]_vars, NEW p \in Pipes
    PROVE  /\ eof'[p] => pipes'[p].writers = 0
           /\ eof[p] /\ eof'[p] => sent'[p] = sent[p]
<1> DEFINE e == WriteEnd(p)
           Goal == /\ eof'[p] => pipes'[p].writers = 0
                   /\ eof[p] /\ eof'[p] => sent'[p] = sent[p]
<1>a. /\ e \in Handles /\ SlotOf(e) = p /\ TableOK(pipes)
      /\ Count(pipes, e) = pipes[p].writers /\ Count(pipes', e) = pipes'[p].writers
      /\ eof[p] => Count(pipes, e) = 0
      /\ eof \in [Pipes -> BOOLEAN] /\ sent \in [Pipes -> Seq(Bytes)]
  BY HandleNames DEF Count, EofInv, TableOK, TypeOK
<1>b. ASSUME eof[p] PROVE Owners(e) = {}
  BY <1>a, <1>b, OwnedUsed
<1>c. ASSUME eof'[p] => Count(pipes', e) = Count(pipes, e) /\ eof[p], sent'[p] = sent[p]
      PROVE  Goal
  BY <1>a, <1>c
<1>d. ASSUME NEW h \in Handles, pipes' = CloseEnd(pipes, h), UNCHANGED history
      PROVE  Goal
  <2>1. Count(pipes, e) = 0 => Count(pipes', e) = 0
    BY <1>a, <1>d, CloseEndTable
  <2>2. eof' = eof /\ sent' = sent
    BY <1>d DEF history
  <2> QED BY <1>a, <2>1, <2>2
<1>e. ASSUME NEW H \in SUBSET Handles, e \in H => Owners(e) # {},
             pipes' = AcquireEnds(pipes, H), UNCHANGED history
      PROVE  Goal
  <2>1. eof' = eof /\ sent' = sent
    BY <1>e DEF history
  <2>2. ASSUME eof[p] PROVE Count(pipes', e) = 0
    <3>1. e \notin H
      BY <1>b, <1>e, <2>2
    <3>2. Count(pipes', e) = Count(pipes, e) + 0
      BY <1>a, <1>e, <3>1, AcquireTable
    <3> QED BY <1>a, <2>2, <3>2
  <2> QED BY <1>a, <2>1, <2>2
<1>f. ASSUME NEW q \in Pipes, Opened(q)
      PROVE  Goal
  <2>1. /\ eof' = [eof EXCEPT ![q] = FALSE] /\ sent' = [sent EXCEPT ![q] = <<>>]
    BY <1>f DEF Opened
  <2>2. Count(pipes', e) = IF p = q THEN 1 ELSE Count(pipes, e)
    BY <1>a, <1>f, OpenedTable
  <2>3. p = q => ~eof'[p]
    BY <1>a, <2>1
  <2>4. p # q => eof'[p] = eof[p] /\ sent'[p] = sent[p]
    BY <1>a, <2>1
  <2> QED BY <1>a, <2>2, <2>3, <2>4
<1>g. ASSUME UNCHANGED <<pipes, sent, eof>>
      PROVE  Goal
  BY <1>a, <1>g
<1>h. ASSUME NEW t \in Slots
      PROVE  /\ tasks[t].mask \in SUBSET Handles /\ tasks[t].held \in SUBSET Handles
             /\ tasks[t].closing \in SUBSET Handles /\ tasks[t].mask = tasks[t].held
             /\ \A h \in tasks[t].held : Owners(h) # {}
  <2>1. tasks[t] \in TaskType
    BY DEF TypeOK
  <2>2. \A h : h \in tasks[t].held => t \in Owners(h)
    BY OwnerIs
  <2> QED BY <2>1, <2>2 DEF TaskType, EndsInv, TaskEnds, NoSharedEnds
<1>1. ASSUME NEW t \in Slots, WriteStep(t) PROVE Goal
  <2> DEFINE op == tasks[t].op
             q == SlotOf(op.h)
             n == Least(Cap - pipes[q].len, Len(op.data))
             d == SubSeq(op.data, 1, n)
  <2>1. op.h \in tasks[t].held /\ IsWriteEnd(op.h) /\ op.h \in Handles
    BY <1>1, OpShape DEF WriteStep, EofInv, OwnOut
  <2>2. q \in Pipes /\ op.h = WriteEnd(q)
    BY <2>1, HandleNames
  <2>3. eof' = eof /\ rcvd' = rcvd
    BY <1>1 DEF WriteStep
  <2>4. CASE UNCHANGED <<pipes, sent>>
    BY <1>g, <2>3, <2>4
  <2>5. CASE /\ pipes' = [pipes EXCEPT ![q] = Pushed(pipes[q], d)]
             /\ sent' = [sent EXCEPT ![q] = @ \o d]
    <3>1. CASE p = q
      <4>1. ~eof[p]
        BY <1>b, <1>h, <2>1, <2>2, <3>1
      <4> QED BY <2>3, <4>1
    <3>2. CASE p # q
      <4>1. pipes'[p] = pipes[p] /\ sent'[p] = sent[p]
        BY <1>a, <2>2, <2>5, <3>2 DEF TableOK
      <4>2. Count(pipes', e) = Count(pipes, e)
        BY <1>a, <4>1
      <4> QED BY <1>c, <2>3, <4>1, <4>2
    <3> QED BY <3>1, <3>2
  <2> HIDE DEF Goal
  <2> QED BY <1>1, <2>4, <2>5 DEF WriteStep
<1>2. ASSUME NEW t \in Slots, ReadStep(t) PROVE Goal
  <2> DEFINE op == tasks[t].op
             q == SlotOf(op.h)
             n == Least(pipes[q].len, op.len)
  <2>1. op.h \in Handles /\ op.len \in 1..Cap /\ q \in Pipes
    BY <1>2, OpShape, HandleNames, PipeAssumption DEF ReadStep
  <2>2. sent' = sent
    BY <1>2 DEF ReadStep
  <2>3. CASE UNCHANGED <<pipes, rcvd, eof>>
    BY <1>g, <2>2, <2>3
  <2>4. CASE pipes' = [pipes EXCEPT ![q] = Drained(pipes[q], n)] /\ UNCHANGED eof
    <3>1. pipes[q] \in PipeType /\ pipes[q].len \in 0..Cap /\ Cap \in Nat
      BY <2>1, RingAssumption DEF TypeOK, PipeType
    <3>2. n \in 0..Cap /\ n <= pipes[q].len
      BY <2>1, <3>1 DEF Least
    <3> DEFINE c == Drained(pipes[q], n)
    <3>3. c.writers = pipes[q].writers
      BY <3>1, <3>2, PassOK
    <3>4. pipes' = [pipes EXCEPT ![q] = c]
      BY <2>4
    <3> HIDE DEF c, q
    <3>5. pipes'[p].writers = pipes[p].writers
      BY <1>a, <2>1, <3>3, <3>4 DEF TableOK
    <3> QED BY <1>a, <2>2, <2>4, <3>5
  <2>5. CASE AtEof(pipes[q]) /\ eof' = [eof EXCEPT ![q] = TRUE] /\ UNCHANGED <<pipes, rcvd>>
    <3>1. pipes[q].writers = 0
      BY <2>5 DEF AtEof
    <3> QED BY <1>a, <2>1, <2>2, <2>5, <3>1
  <2> HIDE DEF Goal
  <2> QED BY <1>2, <2>3, <2>4, <2>5 DEF ReadStep
<1>3. ASSUME NEW t \in Slots, CloseNext(t) PROVE Goal
  <2>1. CASE tasks[t].closing # {} /\ pipes' = CloseEnd(pipes, First(tasks[t].closing))
    <3>1. First(tasks[t].closing) \in Handles
      BY <1>h, <2>1, FirstEnd
    <3> QED BY <1>3, <1>d, <2>1, <3>1 DEF CloseNext
  <2> QED BY <1>3, <1>g, <2>1 DEF CloseNext, history
<1>4. ASSUME NEW t \in Slots, Fork(t) PROVE Goal
  <2>1. pipes' = AcquireEnds(pipes, tasks[t].mask) /\ UNCHANGED history
    BY <1>4 DEF Fork
  <2> QED BY <1>e, <1>h, <2>1
<1>5. ASSUME NEW t \in Slots, SysPipe(t) \/ PipeClose(t) \/ Clone(t) PROVE Goal
  BY <1>5 DEF SysPipe, PipeClose, Clone, NoSharedEnds
<1>6. ASSUME ShOpen PROVE Goal
  <2>1. First(FreePipes) \in Pipes /\ Opened(First(FreePipes))
    BY <1>6, FreeFound DEF ShOpen
  <2> QED BY <1>f, <2>1
<1>7. ASSUME ShSpawn PROVE Goal
  <2> DEFINE ends == {StageIn(sh.next), StageOut(sh.next)} \ {NONE}
  <2>1. /\ pipes' = AcquireEnds(pipes, ends) /\ sh.phase = "open" /\ UNCHANGED history
        /\ Len(sh.ends) = sh.stages - 1 /\ sh.next <= sh.stages
    BY <1>7 DEF ShSpawn
  <2>2. ends \in SUBSET Handles /\ ends \subseteq sh.mask
    <3>1. \A i \in 1..Len(sh.ends) : ReadEnd(sh.ends[i]) \in sh.mask /\ WriteEnd(sh.ends[i]) \in sh.mask
      BY <2>1 DEF ShellEnds, EndsInv
    <3> QED BY <2>1, <3>1, StageEnds
  <2> HIDE DEF ends
  <2>3. e \in ends => Shell \in Owners(e)
    BY <2>2, OwnerIs
  <2> QED BY <1>e, <2>1, <2>2, <2>3
<1>8. ASSUME ShDrop PROVE Goal
  <2>1. First(sh.mask) \in Handles
    BY <1>8, FirstEnd DEF ShDrop, TypeOK, ShellType
  <2> QED BY <1>8, <1>d, <2>1 DEF ShDrop
<1>11. ASSUME NEW t \in Slots, BeginWrite(t) \/ BeginRead(t) \/ Exit(t) \/ ThreadExit(t)
                               \/ DieMarked(t) \/ Terminate(t) \/ Signal(t)
       PROVE  Goal
  <2>1. UNCHANGED <<pipes, history>>
    BY <1>11 DEF BeginWrite, BeginRead, Exit, ThreadExit, DieMarked, Terminate, Signal
  <2> QED BY <1>g, <2>1 DEF history
<1>12. ASSUME ShStart \/ ShFail \/ ShRunning \/ ShDone PROVE Goal
  <2>1. UNCHANGED <<pipes, history>>
    BY <1>12 DEF ShStart, ShFail, ShRunning, ShDone
  <2> QED BY <1>g, <2>1 DEF history
<1>13. ASSUME UNCHANGED vars PROVE Goal
  BY <1>13, <1>g DEF vars, history
<1> HIDE DEF Goal
<1>10. Goal
  BY <1>1, <1>2, <1>3, <1>4, <1>5, <1>6, <1>7, <1>8, <1>11, <1>12, <1>13
     DEF Next, Step, ShStep
<1> QED BY <1>10 DEF Goal

(* "Downstream stages see a clean end-of-stream exactly when every upstream  *)
(* stage is gone": for any number of pipes, tasks and stages, once a reader  *)
(* was told end of file no byte enters that pipe any more, although stages   *)
(* exit, are killed, fork and fail to spawn in any order.  Threads and       *)
(* pipe() are excluded: a thread writes to its process's output without      *)
(* owning an end of it, which PipeEof shows.                                *)
THEOREM EndOfFileFinal ==
    ASSUME NoSharedEnds
    PROVE  Spec => EofIsFinal
<1>1. Init => EndsInv /\ Cover /\ EofInv
  <2>1. Match => Cover
    <3> SUFFICES ASSUME Match, NEW h \in Handles PROVE Count(pipes, h) >= Cardinality(Owners(h))
      BY DEF Cover
    <3> QED BY OwnersFinite DEF Match
  <2>2. Init => EofInv
    BY NoOut DEF Init, EofInv
  <2> QED BY <2>1, <2>2, EndsInit, MatchInit
<1>2. TypeOK /\ EndsInv /\ [Next]_vars => EndsInv'
  BY EndsStep
<1>3. TypeOK /\ EndsInv /\ Cover /\ [Next]_vars => Cover'
  BY CoverStep DEF NotBoth, NoSharedEnds
<1>4. TypeOK /\ EndsInv /\ Cover /\ EofInv /\ [Next]_vars => EofInv'
  BY OutStep, EofKept DEF EofInv
<1>5. TypeOK /\ EndsInv /\ Cover /\ EofInv /\ [Next]_vars
         => [\A p \in Pipes : eof[p] /\ eof'[p] => sent'[p] = sent[p]]_vars
  BY EofKept
<1> QED BY <1>1, <1>2, <1>3, <1>4, <1>5, PipeTypeCorrect, PTL DEF Spec, EofIsFinal

-----------------------------------------------------------------------------
(* The stream of a pipe.                                                    *)

\* Readers got the beginning of what was written, and the ring has the rest.
Behind(p) ==
    /\ Len(rcvd[p]) <= Len(sent[p]) /\ rcvd[p] = SubSeq(sent[p], 1, Len(rcvd[p]))
    /\ pipes[p].used => sent[p] = rcvd[p] \o Pulled(pipes[p], pipes[p].len)

StreamInv == \A p \in Pipes : ~mixed[p] => Behind(p)

\* The beginning of a concatenation.
LEMMA Beginning ==
    ASSUME NEW a \in Seq(Bytes), NEW b \in Seq(Bytes)
    PROVE  Len(a) <= Len(a \o b) /\ a = SubSeq(a \o b, 1, Len(a))
OBVIOUS

\* A remainder of a position less than twice around the ring, as a case distinction.
LEMMA WrapIs ==
    ASSUME NEW x \in Nat, x < Cap + Cap
    PROVE  x % Cap = IF x < Cap THEN x ELSE x - Cap
<1>1. CASE x < Cap
  BY <1>1, Wrap
<1>2. CASE ~(x < Cap)
  <2>1. x >= Cap
    BY <1>2, RingAssumption
  <2> QED BY <1>2, <2>1, Wrap
<1> QED BY <1>1, <1>2

\* What is pushed on an empty ring is what can be pulled from it.
LEMMA PushedBack ==
    ASSUME NEW c \in PipeType, c.len = 0, NEW d \in Seq(Bytes), Len(d) <= Cap
    PROVE  Pushed(c, d).len = Len(d) /\ Pulled(Pushed(c, d), Len(d)) = d
<1> DEFINE h == c.head
           n == Len(d)
           b == Store(c.buf, h, d)
<1>1. /\ c.buf \in [Ring -> Bytes] /\ h \in Ring /\ h \in Nat /\ h < Cap /\ n \in 0..Cap
      /\ n \in Nat /\ n <= Cap /\ Cap \in Nat \ {0}
  BY RingAssumption DEF PipeType, Ring
<1>2. b \in [Ring -> Bytes]
  BY <1>1, StoreType
<1>3. PICK g : g = (h + n) % Cap
  OBVIOUS
<1>4. (h + c.len) % Cap = h
  BY <1>1, Wrap
<1>5. Pushed(c, d) = [c EXCEPT !.buf = b, !.head = g, !.len = n]
  <2>1. c.len + n = n
    BY <1>1
  <2> QED BY <1>3, <1>4, <2>1, Zenon DEF Pushed
<1>6. Pushed(c, d).buf = b /\ Pushed(c, d).head = g /\ Pushed(c, d).len = n
  BY <1>5 DEF PipeType
<1>7. g \in Ring /\ (g + Cap - n) % Cap = h
  <2>1. h + n < Cap + Cap /\ h + n \in Nat
    BY <1>1
  <2>2. g = IF h + n < Cap THEN h + n ELSE h + n - Cap
    <3>1. PICK y \in Nat : y = h + n /\ y < Cap + Cap
      BY <2>1
    <3>2. y % Cap = IF y < Cap THEN y ELSE y - Cap
      BY <3>1, WrapIs
    <3>3. g = y % Cap
      BY <1>3, <3>1, Zenon
    <3>4. g = IF y < Cap THEN y ELSE y - Cap
      BY <3>2, <3>3, Zenon
    <3> QED BY <1>1, <3>1, <3>4
  <2>3. g \in Ring /\ g \in Nat
    BY <1>1, <2>2 DEF Ring
  <2>4. g + Cap - n = IF h + n < Cap THEN h + Cap ELSE h
    BY <1>1, <2>2
  <2>5. (h + Cap) % Cap = h /\ h % Cap = h
    <3>1. PICK y \in Nat : y = h + Cap /\ y < Cap + Cap /\ ~(y < Cap) /\ y - Cap = h /\ h < Cap + Cap
      BY <1>1
    <3>2. y % Cap = h
      BY <3>1, WrapIs, Zenon
    <3>3. h % Cap = h
      BY <1>1, <3>1, WrapIs, Zenon
    <3> QED BY <3>1, <3>2, <3>3, Zenon
  <2> QED BY <2>3, <2>4, <2>5
<1>8. Pulled(Pushed(c, d), n) = Load(b, h, n)
  BY <1>6, <1>7 DEF Pulled
<1>9. /\ Load(b, h, n) \in Seq(Bytes) /\ Len(Load(b, h, n)) = n
      /\ \A i \in 1..n : Load(b, h, n)[i] = b[(h + i - 1) % Cap]
  BY <1>1, <1>2, LoadType
<1>10. ASSUME NEW i \in 1..n
       PROVE  b[(h + i - 1) % Cap] = d[i]
  <2>1. PICK j : j = (h + i - 1) % Cap
    OBVIOUS
  <2>2. h + i - 1 \in Nat /\ h + i - 1 < Cap + Cap /\ i \in Nat /\ i - 1 < n /\ i - 1 < Cap
        /\ i - 1 \in Nat
    BY <1>1
  <2>3. PICK y \in Nat : y = h + i - 1 /\ y < Cap + Cap
    BY <2>2
  <2>4. j = (IF y < Cap THEN y ELSE y - Cap) /\ j \in Ring
    <3>1. y % Cap = (IF y < Cap THEN y ELSE y - Cap) /\ y % Cap \in Ring
      BY <2>3, WrapIs, Wrap
    <3>2. j = y % Cap
      BY <2>1, <2>3, Zenon
    <3> QED BY <3>1, <3>2, Zenon
  <2>5. (j + Cap - h) % Cap = i - 1
    <3>1. j + Cap - h = IF y < Cap THEN i - 1 + Cap ELSE i - 1
      BY <1>1, <2>2, <2>3, <2>4
    <3>2. (i - 1) % Cap = i - 1
      BY <2>2, <1>1, Wrap
    <3>3. PICK z \in Nat : z = i - 1 + Cap /\ z < Cap + Cap /\ ~(z < Cap) /\ z - Cap = i - 1
      BY <1>1, <2>2
    <3>4. (i - 1 + Cap) % Cap = i - 1
      BY <3>3, WrapIs, Zenon
    <3> QED BY <3>1, <3>2, <3>4
  <2>6. b[j] = IF (j + Cap - h) % Cap < n THEN d[((j + Cap - h) % Cap) + 1] ELSE c.buf[j]
    BY <2>4 DEF Store
  <2>7. i - 1 + 1 = i
    BY <2>2
  <2> QED BY <2>1, <2>2, <2>5, <2>6, <2>7
<1> HIDE DEF n, b, h
<1>11. Load(b, h, n) = d
  BY <1>9, <1>10 DEF n
<1> QED BY <1>6, <1>8, <1>11 DEF n

\* A ring that was read empty holds nothing.
LEMMA DrainedAll ==
    ASSUME NEW c \in PipeType
    PROVE  /\ Drained(c, c.len).len = 0
           /\ Pulled(Drained(c, c.len), 0) = <<>>
<1>1. c.len \in 0..Cap /\ c.len \in Nat
  BY RingAssumption DEF PipeType
<1>2. c.len <= c.len /\ c.len - c.len = 0
  BY <1>1
<1>3. Drained(c, c.len) \in PipeType
  BY <1>1, <1>2, PassOK
<1>4. Drained(c, c.len).len = 0
  BY <1>2 DEF Drained, PipeType
<1> QED BY <1>4 DEF Pulled, Load


\* A ring as it was, or one given up.
SameRing(q, c) ==
    q.used => c.used /\ q.buf = c.buf /\ q.head = c.head /\ q.len = c.len

\* Closing and counting ends touches no byte.
LEMMA EndsKeepRings ==
    ASSUME NEW P, TableOK(P)
    PROVE  /\ \A h \in Handles : \A p \in Pipes : SameRing(CloseEnd(P, h)[p], P[p])
           /\ \A H : \A p \in Pipes : SameRing(AcquireEnds(P, H)[p], P[p])
<1>1. ASSUME NEW h \in Handles, NEW p \in Pipes
      PROVE  SameRing(CloseEnd(P, h)[p], P[p])
  <2> DEFINE c == P[SlotOf(h)]
             q == IF IsWriteEnd(h) THEN [c EXCEPT !.writers = @ - 1] ELSE [c EXCEPT !.readers = @ - 1]
             r == IF q.readers = 0 /\ q.writers = 0 THEN FreshPipe ELSE q
  <2>1. P \in [Pipes -> PipeType] /\ P[p] \in PipeType /\ SlotOf(h) \in Pipes /\ c \in PipeType
    BY HandleNames DEF TableOK
  <2>2. CloseEnd(P, h) = P \/ CloseEnd(P, h) = [P EXCEPT ![SlotOf(h)] = r]
    BY DEF CloseEnd
  <2>3. SameRing(q, c) /\ SameRing(FreshPipe, c)
    BY <2>1 DEF SameRing, PipeType, FreshPipe
  <2>4. SameRing(r, c) /\ SameRing(P[p], P[p])
    <3> HIDE DEF q, c
    <3> QED BY <2>3 DEF SameRing
  <2> HIDE DEF r, q
  <2> QED BY <2>1, <2>2, <2>4
<1>2. ASSUME NEW H, NEW p \in Pipes
      PROVE  SameRing(AcquireEnds(P, H)[p], P[p])
  <2>1. P[p] \in PipeType
    BY DEF TableOK
  <2> QED BY <2>1 DEF AcquireEnds, SameRing, PipeType
<1> QED BY <1>1, <1>2

\* What a step that moves no bytes does.
Still == /\ UNCHANGED <<sent, rcvd, mixed>>
         /\ \A p \in Pipes : SameRing(pipes'[p], pipes[p])

LEMMA StillKeeps ==
    ASSUME StreamInv, Still
    PROVE  StreamInv'
BY DEF StreamInv, Still, Behind, SameRing, Pulled

\* A pass of a write: into an empty ring, or the pipe counts as mixed.
LEMMA WriteKeeps ==
    ASSUME TypeOK, StreamInv, NEW t \in Slots, WriteStep(t)
    PROVE  StreamInv'
<1>a. PICK op : op = tasks[t].op
  OBVIOUS
<1>b. PICK p \in Pipes : p = SlotOf(op.h)
  BY <1>a, OpShape, HandleNames DEF WriteStep
<1>c. PICK c : c = pipes[p]
  OBVIOUS
<1>d. PICK n : n = Least(Cap - c.len, Len(op.data))
  OBVIOUS
<1>e. PICK d : d = SubSeq(op.data, 1, n)
  OBVIOUS
<1>1. op.kind = "write" /\ op.data \in Seq(Bytes)
  BY <1>a, OpShape DEF WriteStep
<1>2. /\ c \in PipeType /\ pipes \in [Pipes -> PipeType] /\ sent \in [Pipes -> Seq(Bytes)]
      /\ rcvd \in [Pipes -> Seq(Bytes)] /\ rcvd' = rcvd /\ mixed \in [Pipes -> BOOLEAN]
  BY <1>c DEF TypeOK, WriteStep
<1>3. c.len \in 0..Cap /\ c.len \in Nat /\ Cap \in Nat \ {0} /\ Len(op.data) \in Nat
  BY <1>1, <1>2, RingAssumption DEF PipeType
<1>4. CASE UNCHANGED <<pipes, sent, mixed>>
  <2>1. Still
    BY <1>2, <1>4 DEF Still, SameRing
  <2> QED BY <2>1, StillKeeps
<1>5. CASE /\ c.used
           /\ pipes' = [pipes EXCEPT ![p] = Pushed(c, d)]
           /\ sent' = [sent EXCEPT ![p] = @ \o d]
           /\ mixed' = [mixed EXCEPT ![p] = @ \/ c.len > 0]
  <2>1. /\ pipes'[p] = Pushed(c, d) /\ \A q \in Pipes : q # p => pipes'[q] = pipes[q]
        /\ sent'[p] = sent[p] \o d /\ \A q \in Pipes : q # p => sent'[q] = sent[q]
    BY <1>2, <1>5
  <2>2. /\ mixed'[p] = (mixed[p] \/ c.len > 0)
        /\ \A q \in Pipes : q # p => mixed'[q] = mixed[q]
    BY <1>2, <1>5
  <2>3. ASSUME NEW q \in Pipes, q # p, ~mixed'[q]
        PROVE  Behind(q)'
    <3>1. Behind(q) /\ pipes'[q] = pipes[q] /\ sent'[q] = sent[q]
      BY <2>1, <2>2, <2>3 DEF StreamInv
    <3> QED BY <1>2, <3>1 DEF Behind
  <2>4. ASSUME ~mixed'[p]
        PROVE  Behind(p)'
    <3>1. Behind(p) /\ ~(c.len > 0)
      BY <2>2, <2>4 DEF StreamInv
    <3>2. c.len = 0
      BY <1>3, <3>1
    <3>3. n \in Nat /\ n <= Cap /\ n <= Len(op.data)
      <4>1. Cap - c.len = Cap /\ Cap \in Nat
        BY <1>3, <3>2
      <4> QED BY <1>d, <1>3, <4>1, LeastIs
    <3>4. d \in Seq(Bytes) /\ Len(d) = n
      BY <1>1, <1>e, <3>3
    <3>5. Pushed(c, d).len = n /\ Pulled(Pushed(c, d), n) = d
      BY <1>2, <3>2, <3>3, <3>4, PushedBack
    <3>6. sent[p] = rcvd[p] /\ rcvd[p] \in Seq(Bytes)
      <4>1. sent[p] = rcvd[p] \o Pulled(c, 0) /\ Pulled(c, 0) = <<>>
        BY <1>c, <1>5, <3>1, <3>2 DEF Behind, Pulled, Load
      <4>2. rcvd[p] \o <<>> = rcvd[p] /\ rcvd[p] \in Seq(Bytes)
        BY <1>2
      <4> QED BY <4>1, <4>2
    <3>7. sent'[p] = rcvd'[p] \o d /\ rcvd'[p] = rcvd[p]
      BY <1>2, <2>1, <3>6
    <3> QED BY <2>1, <3>4, <3>5, <3>6, <3>7, Beginning DEF Behind
  <2> QED BY <2>3, <2>4 DEF StreamInv
<1> QED BY <1>a, <1>b, <1>c, <1>d, <1>e, <1>4, <1>5 DEF WriteStep

\* A pass of a read: it takes all there is, or the pipe counts as mixed.
LEMMA ReadKeeps ==
    ASSUME TypeOK, StreamInv, NEW t \in Slots, ReadStep(t)
    PROVE  StreamInv'
<1>a. PICK op : op = tasks[t].op
  OBVIOUS
<1>b. PICK p \in Pipes : p = SlotOf(op.h)
  BY <1>a, OpShape, HandleNames DEF ReadStep
<1>c. PICK c : c = pipes[p]
  OBVIOUS
<1>d. PICK n : n = Least(c.len, op.len)
  OBVIOUS
<1>1. op.len \in 1..Cap
  BY <1>a, OpShape, PipeAssumption DEF ReadStep
<1>2. /\ c \in PipeType /\ pipes \in [Pipes -> PipeType] /\ sent \in [Pipes -> Seq(Bytes)]
      /\ rcvd \in [Pipes -> Seq(Bytes)] /\ sent' = sent /\ mixed \in [Pipes -> BOOLEAN]
  BY <1>c DEF TypeOK, ReadStep
<1>3. c.len \in Nat /\ op.len \in Nat /\ n \in Nat /\ n <= c.len
  <2>1. c.len \in Nat /\ op.len \in Nat
    BY <1>1, <1>2, RingAssumption DEF PipeType
  <2> QED BY <1>d, <2>1, LeastIs
<1>4. CASE UNCHANGED <<pipes, rcvd, mixed>>
  <2>1. Still
    BY <1>2, <1>4 DEF Still, SameRing
  <2> QED BY <2>1, StillKeeps
<1>5. CASE /\ c.used /\ pipes' = [pipes EXCEPT ![p] = Drained(c, n)]
           /\ rcvd' = [rcvd EXCEPT ![p] = @ \o Pulled(c, n)]
           /\ mixed' = [mixed EXCEPT ![p] = @ \/ n < c.len]
  <2>1. /\ pipes'[p] = Drained(c, n) /\ \A q \in Pipes : q # p => pipes'[q] = pipes[q]
        /\ rcvd'[p] = rcvd[p] \o Pulled(c, n) /\ \A q \in Pipes : q # p => rcvd'[q] = rcvd[q]
    BY <1>2, <1>5
  <2>2. /\ mixed'[p] = (mixed[p] \/ n < c.len)
        /\ \A q \in Pipes : q # p => mixed'[q] = mixed[q]
    BY <1>2, <1>5
  <2>3. ASSUME NEW q \in Pipes, q # p, ~mixed'[q]
        PROVE  Behind(q)'
    <3>1. Behind(q) /\ pipes'[q] = pipes[q] /\ rcvd'[q] = rcvd[q]
      BY <2>1, <2>2, <2>3 DEF StreamInv
    <3> QED BY <1>2, <3>1 DEF Behind
  <2>4. ASSUME ~mixed'[p]
        PROVE  Behind(p)'
    <3>1. Behind(p) /\ ~(n < c.len)
      BY <2>2, <2>4 DEF StreamInv
    <3>2. n = c.len
      BY <1>3, <3>1
    <3>3. Drained(c, n).len = 0 /\ Pulled(Drained(c, n), 0) = <<>>
      BY <1>2, <3>2, DrainedAll
    <3>4. rcvd'[p] = sent'[p] /\ sent'[p] \in Seq(Bytes)
      BY <1>c, <1>2, <1>5, <2>1, <3>1, <3>2 DEF Behind
    <3>5. PICK m \in Seq(Bytes) : m = sent'[p] /\ m = rcvd'[p]
      BY <3>4
    <3>6. Len(m) <= Len(m) /\ m = SubSeq(m, 1, Len(m)) /\ m = m \o <<>>
      OBVIOUS
    <3> QED BY <2>1, <3>3, <3>5, <3>6 DEF Behind
  <2> QED BY <2>3, <2>4 DEF StreamInv
<1> QED BY <1>a, <1>b, <1>c, <1>d, <1>4, <1>5 DEF ReadStep

\* A pipe just opened has no stream yet.
LEMMA OpenKeeps ==
    ASSUME TypeOK, StreamInv, NEW p \in Pipes, Opened(p)
    PROVE  StreamInv'
<1>1. /\ pipes \in [Pipes -> PipeType] /\ sent \in [Pipes -> Seq(Bytes)]
      /\ rcvd \in [Pipes -> Seq(Bytes)] /\ mixed \in [Pipes -> BOOLEAN]
  BY DEF TypeOK
<1>2. /\ pipes'[p].len = 0 /\ sent'[p] = <<>> /\ rcvd'[p] = <<>>
      /\ \A q \in Pipes : q # p => /\ pipes'[q] = pipes[q] /\ sent'[q] = sent[q]
                                   /\ rcvd'[q] = rcvd[q] /\ mixed'[q] = mixed[q]
  BY <1>1 DEF Opened, FreshPipe
<1>3. ASSUME NEW q \in Pipes, ~mixed'[q]
      PROVE  Behind(q)'
  <2>1. CASE q # p
    BY <1>2, <1>3, <2>1 DEF StreamInv, Behind
  <2>2. CASE q = p
    <3>1. Pulled(pipes'[p], 0) = <<>>
      BY DEF Pulled, Load
    <3>2. Len(<<>>) <= Len(<<>>) /\ <<>> = SubSeq(<<>>, 1, Len(<<>>)) /\ <<>> = <<>> \o <<>>
      OBVIOUS
    <3> QED BY <1>2, <2>2, <3>1, <3>2 DEF Behind
  <2> QED BY <2>1, <2>2
<1> QED BY <1>3 DEF StreamInv

\* Every other step of a task leaves rings and streams alone, or opens a pipe.
LEMMA TaskKeeps ==
    ASSUME TypeOK, StreamInv, NEW t \in Slots,
           \/ CloseNext(t) \/ DieMarked(t) \/ Terminate(t) \/ BeginWrite(t) \/ BeginRead(t)
           \/ SysPipe(t) \/ PipeClose(t) \/ Fork(t) \/ Clone(t) \/ Exit(t) \/ ThreadExit(t)
           \/ Signal(t)
    PROVE  StreamInv'
<1>a. /\ TableOK(pipes) /\ tasks[t].held \in SUBSET Handles
      /\ tasks[t].closing \in SUBSET Handles
  BY DEF TypeOK, TableOK, TaskType
<1>b. \A p \in Pipes : SameRing(pipes[p], pipes[p])
  BY DEF SameRing
<1>c. ASSUME UNCHANGED history, \A p \in Pipes : SameRing(pipes'[p], pipes[p])
      PROVE  StreamInv'
  BY <1>c, StillKeeps DEF Still, history
<1>1. ASSUME CloseNext(t) PROVE StreamInv'
  <2>1. CASE tasks[t].closing # {} /\ pipes' = CloseEnd(pipes, First(tasks[t].closing))
    <3>1. First(tasks[t].closing) \in Handles
      BY <1>a, <2>1, FirstEnd
    <3> QED BY <1>1, <1>a, <1>c, <2>1, <3>1, EndsKeepRings DEF CloseNext
  <2>2. CASE UNCHANGED pipes
    BY <1>1, <1>b, <1>c, <2>2 DEF CloseNext
  <2> QED BY <1>1, <2>1, <2>2 DEF CloseNext
<1>2. ASSUME SysPipe(t) PROVE StreamInv'
  BY <1>2, FreeFound, OpenKeeps DEF SysPipe
<1>3. ASSUME PipeClose(t) PROVE StreamInv'
  <2>1. PICK h \in Handles : pipes' = CloseEnd(pipes, h)
    BY <1>3, <1>a DEF PipeClose
  <2> QED BY <1>3, <1>a, <1>c, <2>1, EndsKeepRings DEF PipeClose
<1>4. ASSUME Fork(t) PROVE StreamInv'
  BY <1>4, <1>a, <1>c, EndsKeepRings DEF Fork
<1>5. ASSUME \/ DieMarked(t) \/ ThreadExit(t) \/ Terminate(t) \/ BeginWrite(t) \/ BeginRead(t)
             \/ Clone(t) \/ Exit(t) \/ Signal(t)
      PROVE  StreamInv'
  <2>1. UNCHANGED pipes /\ UNCHANGED history
    BY <1>5 DEF DieMarked, ThreadExit, Terminate, BeginWrite, BeginRead, Clone, Exit, Signal
  <2> QED BY <1>b, <1>c, <2>1
<1> QED BY <1>1, <1>2, <1>3, <1>4, <1>5

\* So does every step of the shell.
LEMMA ShellKeeps ==
    ASSUME TypeOK, StreamInv, ShStart \/ ShStep
    PROVE  StreamInv'
<1>a. TableOK(pipes) /\ sh.mask \in SUBSET Handles
  BY DEF TypeOK, TableOK, ShellType
<1>b. \A p \in Pipes : SameRing(pipes[p], pipes[p])
  BY DEF SameRing
<1>c. ASSUME UNCHANGED history, \A p \in Pipes : SameRing(pipes'[p], pipes[p])
      PROVE  StreamInv'
  BY <1>c, StillKeeps DEF Still, history
<1>1. ASSUME ShStart \/ ShFail \/ ShRunning \/ ShDone PROVE StreamInv'
  <2>1. UNCHANGED pipes /\ UNCHANGED history
    BY <1>1 DEF ShStart, ShFail, ShRunning, ShDone
  <2> QED BY <1>b, <1>c, <2>1
<1>2. ASSUME ShOpen PROVE StreamInv'
  BY <1>2, FreeFound, OpenKeeps DEF ShOpen
<1>3. ASSUME ShSpawn PROVE StreamInv'
  BY <1>3, <1>a, <1>c, EndsKeepRings DEF ShSpawn
<1>4. ASSUME ShDrop PROVE StreamInv'
  <2>1. First(sh.mask) \in Handles
    BY <1>4, <1>a, FirstEnd DEF ShDrop
  <2> QED BY <1>4, <1>a, <1>c, <2>1, EndsKeepRings DEF ShDrop
<1> QED BY <1>1, <1>2, <1>3, <1>4 DEF ShStep

\* Readers get the beginning of what was written, chunk after chunk and whatever the
\* sizes of chunks, reads and the ring, as long as no chunk was pushed on bytes still
\* in the ring and no read left some behind; once one of the two happened the code
\* keeps no such promise (write_kernel and read_kernel of fs/pipe.rs move head on
\* both sides). Pipes opened anew, forks, kills and closes do not disturb it.
THEOREM StreamKept == Spec => []StreamIntact
<1>1. Init => StreamInv
  <2> SUFFICES ASSUME Init, NEW p \in Pipes PROVE Behind(p)
    BY DEF StreamInv
  <2>1. ~pipes[p].used /\ sent[p] = <<>> /\ rcvd[p] = <<>>
    BY DEF Init, FreshPipe
  <2>2. Len(<<>>) <= Len(<<>>) /\ <<>> = SubSeq(<<>>, 1, Len(<<>>))
    OBVIOUS
  <2> QED BY <2>1, <2>2 DEF Behind
<1>2. TypeOK /\ StreamInv /\ [Next]_vars => StreamInv'
  <2> SUFFICES ASSUME TypeOK, StreamInv, [Next]_vars PROVE StreamInv'
    OBVIOUS
  <2>1. CASE UNCHANGED vars
    <3>1. Still
      BY <2>1 DEF vars, Still, SameRing
    <3> QED BY <3>1, StillKeeps
  <2>2. CASE ShStart \/ ShStep
    BY <2>2, ShellKeeps
  <2>3. ASSUME NEW t \in Slots,
               \/ Step(t) \/ BeginWrite(t) \/ BeginRead(t) \/ SysPipe(t) \/ PipeClose(t)
               \/ Fork(t) \/ Clone(t) \/ Exit(t) \/ ThreadExit(t) \/ Signal(t)
        PROVE  StreamInv'
    BY <2>3, WriteKeeps, ReadKeeps, TaskKeeps DEF Step
  <2> QED BY <2>1, <2>2, <2>3 DEF Next
<1>3. StreamInv => StreamIntact
  BY DEF StreamInv, Behind, StreamIntact, InOrder
<1> QED BY <1>1, <1>2, <1>3, PipeTypeCorrect, PTL DEF Spec
=============================================================================
