------------------------------ MODULE IpcProof ------------------------------
(***************************************************************************)
(* Proofs about Ipc: type correctness, that the rings implement the        *)
(* bounded byte streams of ByteStream, and that no wakeup is lost where a  *)
(* channel has one sender and one receiver and user buffers are good.      *)
(***************************************************************************)
EXTENDS Ipc, WellFoundedInduction, TLAPS

-----------------------------------------------------------------------------
(* What storing and loading do to the bytes of a ring.                      *)

\* A remainder of a position less than twice around the ring.
LEMMA Wrap ==
    ASSUME NEW x \in Nat, x < Cap + Cap
    PROVE  /\ x % Cap \in Ring
           /\ x < Cap => x % Cap = x
           /\ x >= Cap => x % Cap = x - Cap
BY RingAssumption DEF Ring

\* Store writes bytes into the ring.
LEMMA StoreType ==
    ASSUME NEW buf \in [Ring -> Bytes], NEW pos \in Ring, NEW data \in Seq(Bytes)
    PROVE  Store(buf, pos, data) \in [Ring -> Bytes]
<1> SUFFICES ASSUME NEW j \in Ring
             PROVE  (LET k == (j + Cap - pos) % Cap
                     IN  IF k < Len(data) THEN data[k + 1] ELSE buf[j]) \in Bytes
  BY DEF Store
<1> DEFINE k == (j + Cap - pos) % Cap
<1>1. j + Cap - pos \in Nat /\ j + Cap - pos < Cap + Cap
  BY RingAssumption DEF Ring
<1>2. k \in Nat
  BY <1>1, Wrap, RingAssumption DEF Ring
<1> HIDE DEF k
<1>3. k < Len(data) => data[k + 1] \in Bytes
  BY <1>2
<1>4. buf[j] \in Bytes
  OBVIOUS
<1>5. (IF k < Len(data) THEN data[k + 1] ELSE buf[j]) \in Bytes
  BY <1>3, <1>4
<1> QED BY <1>5 DEF k

\* Load reads a sequence of bytes.
LEMMA LoadType ==
    ASSUME NEW buf \in [Ring -> Bytes], NEW pos \in Ring, NEW n \in 0..Cap
    PROVE  /\ Load(buf, pos, n) \in Seq(Bytes) /\ Len(Load(buf, pos, n)) = n
           /\ \A i \in 1..n : Load(buf, pos, n)[i] = buf[(pos + i - 1) % Cap]
<1>1. n \in Nat
  BY RingAssumption
<1>2. \A i \in 1..n : pos + i - 1 \in Nat /\ pos + i - 1 < Cap + Cap
  BY RingAssumption DEF Ring
<1>3. \A i \in 1..n : buf[(pos + i - 1) % Cap] \in Bytes
  BY <1>2, Wrap
<1>4. Load(buf, pos, n) \in [1..n -> Bytes]
  BY <1>3 DEF Load
<1> QED BY <1>1, <1>4 DEF Load

\* Two sequences with the same length and entries are the same.
LEMMA SameSeq ==
    ASSUME NEW s \in Seq(Bytes), NEW t \in Seq(Bytes), Len(s) = Len(t),
           \A i \in 1..Len(s) : s[i] = t[i]
    PROVE  s = t
OBVIOUS

-----------------------------------------------------------------------------
(* The contents of a channel's ring.                                        *)

\* The content of a ring is a sequence of count bytes.
LEMMA ContentsType ==
    ASSUME NEW c \in Chan
    PROVE  Contents(c) \in Seq(Bytes) /\ Len(Contents(c)) = c.count
<1>1. /\ c.buf \in [Ring -> Bytes] /\ c.head \in Ring /\ c.count \in 0..Cap
  BY DEF Chan
<1>2. TailOf(c.head, c.count) \in Ring
  <2>1. c.head + Cap - c.count \in Nat /\ c.head + Cap - c.count < Cap + Cap
    BY <1>1, RingAssumption DEF Ring
  <2> QED BY <2>1, Wrap DEF TailOf
<1> QED BY <1>1, <1>2, LoadType DEF Contents

\* A byte at offset i of the content is i cells behind the tail.
LEMMA ContentsAt ==
    ASSUME NEW c \in Chan, NEW i \in 1..c.count
    PROVE  Contents(c)[i] =
              c.buf[IF c.head + i <= c.count THEN c.head + Cap - c.count + i - 1
                    ELSE c.head - c.count + i - 1]
<1> DEFINE h == c.head
           n == c.count
           t == TailOf(h, n)
<1>1. /\ c.buf \in [Ring -> Bytes] /\ h \in 0..(Cap - 1) /\ n \in 0..Cap
      /\ h \in Nat /\ n \in Nat /\ Cap \in Nat \ {0} /\ i \in Nat
  BY RingAssumption DEF Chan, Ring
<1>2. Contents(c)[i] = c.buf[(t + i - 1) % Cap]
  BY DEF Contents, Load
<1> HIDE DEF h, n
<1>3. t = IF h < n THEN h + Cap - n ELSE h - n
  <2>1. h + Cap - n \in Nat /\ h + Cap - n < Cap + Cap
    BY <1>1
  <2> QED BY <1>1, <2>1, Wrap DEF TailOf
<1>4. t + i - 1 \in Nat /\ t + i - 1 < Cap + Cap /\ i <= n
  BY <1>1, <1>3 DEF n
<1> HIDE DEF t
<1>5. (t + i - 1) % Cap = IF h + i <= n THEN h + Cap - n + i - 1 ELSE h - n + i - 1
  BY <1>1, <1>3, <1>4, Wrap
<1> QED BY <1>2, <1>5 DEF h, n

\* A send leaves a well-typed channel with its bytes appended to the content.
LEMMA SentAppends ==
    ASSUME NEW c \in Chan, NEW data \in Seq(Bytes), Fits(c, data)
    PROVE  Sent(c, data) \in Chan /\ Contents(Sent(c, data)) = Contents(c) \o data
<1> DEFINE h == c.head
           n == c.count
           l == Len(data)
           b == Store(c.buf, h, data)
           hh == (h + l) % Cap
           d == Sent(c, data)
<1>1. /\ c.buf \in [Ring -> Bytes] /\ h \in Ring /\ h \in 0..(Cap - 1) /\ n \in 0..Cap
      /\ h \in Nat /\ n \in Nat /\ Cap \in Nat \ {0} /\ l \in Nat /\ n + l <= Cap
  BY RingAssumption DEF Chan, Ring, Fits
<1>2. b \in [Ring -> Bytes]
  BY <1>1, StoreType
<1>3. hh \in Ring /\ hh = IF h + l < Cap THEN h + l ELSE h + l - Cap
  <2> HIDE DEF h, l
  <2>1. h + l \in Nat /\ h + l < Cap + Cap
    BY <1>1 DEF n
  <2> DEFINE x == h + l
  <2> HIDE DEF x
  <2>2. x \in Nat /\ x < Cap + Cap /\ Cap \in Nat /\ hh = x % Cap
    BY <1>1, <2>1 DEF x
  <2>3. x % Cap \in Ring /\ (x < Cap => x % Cap = x) /\ (x >= Cap => x % Cap = x - Cap)
    BY <2>2, Wrap
  <2>4. hh = IF x < Cap THEN x ELSE x - Cap
    BY <2>2, <2>3
  <2> HIDE DEF hh
  <2>5. hh \in Ring
    BY <2>2, <2>3
  <2>6. hh = IF h + l < Cap THEN h + l ELSE h + l - Cap
    BY <1>1, <2>4 DEF x
  <2> QED BY <2>5, <2>6
<1>4. d \in Chan /\ d.head = hh /\ d.count = n + l /\ d.buf = b
  <2> HIDE DEF hh, b
  <2>1. d = [c EXCEPT !.buf = b, !.head = hh, !.count = n + l, !.wait_recv = NONE]
    BY DEF Sent, b, hh
  <2>2. n + l \in 0..Cap
    BY <1>1
  <2> QED BY <1>2, <1>3, <2>1, <2>2 DEF Chan
<1>5. Contents(c) \in Seq(Bytes) /\ Len(Contents(c)) = n
  BY ContentsType
<1>6. Contents(d) \in Seq(Bytes) /\ Len(Contents(d)) = n + l
  BY <1>4, ContentsType
<1> HIDE DEF d, hh
<1>7. ASSUME NEW i \in 1..(n + l)
      PROVE  Contents(d)[i] = (Contents(c) \o data)[i]
  <2> DEFINE j == IF hh + i <= n + l THEN hh + Cap - (n + l) + i - 1
                  ELSE hh - (n + l) + i - 1
             e == IF h + i <= n THEN h + Cap - n + i - 1 ELSE h - n + i - 1
  <2>1. Contents(d)[i] = b[j]
    BY <1>4, ContentsAt
  <2>2. i \in Nat /\ i >= 1 /\ i <= n + l
    BY <1>1
  <2>3. j \in Ring
    <3> HIDE DEF h, n, l
    <3> QED BY <1>1, <1>3, <2>2 DEF Ring
  <2>4. b[j] = LET k == (j + Cap - h) % Cap
               IN  IF k < l THEN data[k + 1] ELSE c.buf[j]
    BY <2>3 DEF Store
  <2>5. (j + Cap - h) % Cap = IF i > n THEN i - n - 1 ELSE Cap - n + i - 1
    <3>1. j + Cap - h \in Nat /\ j + Cap - h < Cap + Cap
      <4> HIDE DEF h, n, l, j
      <4> QED BY <1>1, <2>3 DEF Ring
    <3>2. j + Cap - h = IF i > n THEN (IF i - n - 1 + h < Cap THEN Cap + i - n - 1 ELSE i - n - 1)
                        ELSE (IF h + i <= n THEN Cap + Cap - n + i - 1 ELSE Cap - n + i - 1)
      <4> HIDE DEF h, n, l
      <4>1. CASE h + l < Cap
        <5>1. hh = h + l
          BY <1>3, <4>1
        <5> QED BY <1>1, <2>2, <4>1, <5>1
      <4>2. CASE ~(h + l < Cap)
        <5>1. hh = h + l - Cap
          BY <1>3, <4>2
        <5> QED BY <1>1, <2>2, <4>2, <5>1
      <4> QED BY <4>1, <4>2
    <3> DEFINE x == j + Cap - h
    <3> HIDE DEF h, n, l, j, x
    <3>3. (x < Cap => x % Cap = x) /\ (x >= Cap => x % Cap = x - Cap)
      BY <3>1, Wrap DEF x
    <3>4. x = IF i > n THEN (IF i - n - 1 + h < Cap THEN Cap + i - n - 1 ELSE i - n - 1)
              ELSE (IF h + i <= n THEN Cap + Cap - n + i - 1 ELSE Cap - n + i - 1)
      BY <3>2 DEF x
    <3>5. x % Cap = IF i > n THEN i - n - 1 ELSE Cap - n + i - 1
      BY <1>1, <2>2, <3>3, <3>4
    <3> QED BY <3>5 DEF x
  <2>6. CASE i > n
    <3>1. i - n - 1 < l /\ i - n - 1 + 1 = i - n
      BY <1>1, <2>2, <2>6
    <3>2. b[j] = data[i - n]
      BY <2>4, <2>5, <2>6, <3>1
    <3>3. (Contents(c) \o data)[i] = data[i - n]
      BY <1>5, <1>1, <2>2, <2>6
    <3> QED BY <2>1, <3>2, <3>3
  <2>7. CASE i <= n
    <3>1. ~(Cap - n + i - 1 < l) /\ i \in 1..n
      BY <1>1, <2>2, <2>7
    <3>2. b[j] = c.buf[j]
      BY <1>1, <2>2, <2>4, <2>5, <2>7, <3>1
    <3>3. Contents(c)[i] = c.buf[e]
      BY <3>1, ContentsAt
    <3>4. j = e
      <4> HIDE DEF h, n, l
      <4> QED BY <1>1, <1>3, <2>2, <2>7
    <3>5. (Contents(c) \o data)[i] = Contents(c)[i]
      BY <1>5, <3>1
    <3> QED BY <2>1, <3>2, <3>3, <3>4, <3>5
  <2>8. i > n \/ i <= n
    BY <1>1, <2>2
  <2> QED BY <2>6, <2>7, <2>8
<1>8. Contents(c) \o data \in Seq(Bytes) /\ Len(Contents(c) \o data) = n + l
  BY <1>5
<1> HIDE DEF n, l
<1>9. Contents(d) = Contents(c) \o data
  BY <1>6, <1>7, <1>8, SameSeq
<1> QED BY <1>4, <1>9 DEF d

\* A recv hands out the oldest n bytes and leaves the others.
LEMMA RecvTakes ==
    ASSUME NEW c \in Chan, NEW n \in 1..c.count, NEW d \in Chan,
           d.buf = c.buf, d.head = c.head, d.count = c.count - n
    PROVE  /\ Load(c.buf, TailOf(c.head, c.count), n) = SubSeq(Contents(c), 1, n)
           /\ Contents(d) = SubSeq(Contents(c), n + 1, Len(Contents(c)))
<1> DEFINE q == Contents(c)
           m == c.count
           t == TailOf(c.head, m)
<1>1. /\ m \in Nat /\ m <= Cap /\ n \in Nat /\ n >= 1 /\ n <= m /\ c.head \in 0..(Cap - 1)
      /\ Cap \in Nat \ {0} /\ c.buf \in [Ring -> Bytes]
  BY RingAssumption DEF Chan, Ring
<1>2. q \in Seq(Bytes) /\ Len(q) = m
  BY ContentsType
<1>3. t \in Ring
  <2>1. c.head + Cap - m \in Nat /\ c.head + Cap - m < Cap + Cap
    BY <1>1
  <2> QED BY <2>1, Wrap DEF TailOf
<1>4. /\ Load(c.buf, t, n) \in Seq(Bytes) /\ Len(Load(c.buf, t, n)) = n
      /\ \A i \in 1..n : Load(c.buf, t, n)[i] = c.buf[(t + i - 1) % Cap]
  <2>1. n \in 0..Cap
    BY <1>1
  <2> HIDE DEF t
  <2> QED BY <1>1, <1>3, <2>1, LoadType
<1>5. \A i \in 1..m : q[i] = c.buf[(t + i - 1) % Cap]
  BY DEF Contents, Load
<1> HIDE DEF q, t, m
<1>6. Load(c.buf, t, n) = SubSeq(q, 1, n)
  <2>1. SubSeq(q, 1, n) \in Seq(Bytes) /\ Len(SubSeq(q, 1, n)) = n
    BY <1>1, <1>2
  <2>2. \A i \in 1..n : SubSeq(q, 1, n)[i] = q[i]
    BY <1>1, <1>2
  <2>3. \A i \in 1..n : i \in 1..m
    BY <1>1
  <2>4. \A i \in 1..n : Load(c.buf, t, n)[i] = SubSeq(q, 1, n)[i]
    BY <1>4, <1>5, <2>2, <2>3
  <2> QED BY <1>4, <2>1, <2>4, SameSeq
<1>7. Contents(d) = SubSeq(q, n + 1, m)
  <2>1. SubSeq(q, n + 1, m) \in Seq(Bytes) /\ Len(SubSeq(q, n + 1, m)) = m - n
    BY <1>1, <1>2
  <2>2. \A i \in 1..(m - n) : SubSeq(q, n + 1, m)[i] = q[n + i]
    BY <1>1, <1>2
  <2>3. Contents(d) \in Seq(Bytes) /\ Len(Contents(d)) = m - n
    BY ContentsType DEF m
  <2>4. ASSUME NEW i \in 1..(m - n) PROVE Contents(d)[i] = q[n + i]
    <3>1. i \in Nat /\ n + i \in 1..m /\ i \in 1..d.count
      BY <1>1 DEF m
    <3>2. Contents(d)[i] =
              c.buf[IF c.head + i <= m - n THEN c.head + Cap - (m - n) + i - 1
                    ELSE c.head - (m - n) + i - 1]
      BY <3>1, ContentsAt DEF m
    <3>3. q[n + i] =
              c.buf[IF c.head + (n + i) <= m THEN c.head + Cap - m + (n + i) - 1
                    ELSE c.head - m + (n + i) - 1]
      BY <3>1, ContentsAt DEF q, m
    <3>4. /\ c.head + i <= m - n <=> c.head + (n + i) <= m
          /\ c.head + Cap - (m - n) + i - 1 = c.head + Cap - m + (n + i) - 1
          /\ c.head - (m - n) + i - 1 = c.head - m + (n + i) - 1
      BY <1>1, <3>1
    <3> QED BY <3>2, <3>3, <3>4
  <2> DEFINE r == SubSeq(q, n + 1, m)
  <2>5. r \in Seq(Bytes) /\ Len(r) = m - n /\ \A i \in 1..(m - n) : Contents(d)[i] = r[i]
    BY <2>1, <2>2, <2>4
  <2> HIDE DEF r
  <2>6. Contents(d) = r
    BY <2>3, <2>5, SameSeq
  <2> QED BY <2>6 DEF r
<1> QED BY <1>2, <1>6, <1>7 DEF q, t, m

-----------------------------------------------------------------------------
(* Types.                                                                   *)

\* Every program makes calls within the limits of the channels.
LEMMA CallShape ==
    ASSUME TypeOK, NEW s \in Slots, call[s].kind \in {"send", "recv"}
    PROVE  /\ call[s] \in Programs[s] /\ call[s].id \in Ids
           /\ call[s].kind = "send" => call[s].data \in Seq(Bytes) /\ Len(call[s].data) \in 1..MaxMsg
           /\ call[s].kind = "recv" => call[s].len \in 1..MaxMsg
<1>1. call[s] # NoCall
  BY DEF NoCall
<1> QED BY <1>1, IpcAssumption DEF TypeOK

\* A channel whose byte count drops stays a channel.
LEMMA TakenType ==
    ASSUME NEW c \in Chan, NEW len \in 1..MaxMsg, c.count > 0
    PROVE  LET n == Taken(c, len)
           IN  /\ n \in 1..c.count /\ n \in 1..MaxMsg
               /\ [c EXCEPT !.count = c.count - n] \in Chan
               /\ [c EXCEPT !.count = c.count - n, !.wait_send = NONE] \in Chan
<1> DEFINE n == Taken(c, len)
<1>1. c.count \in 0..Cap /\ Cap \in Nat /\ MaxMsg \in Nat
  BY RingAssumption, IpcAssumption DEF Chan
<1>2. n \in 1..c.count /\ n \in 1..MaxMsg
  BY <1>1 DEF Taken
<1>3. c.count - n \in 0..Cap
  BY <1>1, <1>2
<1> HIDE DEF n
<1>4. /\ [c EXCEPT !.count = c.count - n] \in Chan
      /\ [c EXCEPT !.count = c.count - n, !.wait_send = NONE] \in Chan
  BY <1>3 DEF Chan
<1> QED BY <1>2, <1>4 DEF n

\* A fresh channel is a channel.
LEMMA FreshType == Fresh \in Chan
BY RingAssumption DEF Fresh, Chan, FreshRing, Ring

\* The boot state is well typed.
LEMMA IpcInitType == Init => TypeOK
<1> SUFFICES ASSUME Init PROVE TypeOK
  OBVIOUS
<1>1. chans \in [Ids -> Chan]
  BY FreshType DEF Init
<1>2. got \in [Slots -> Seq(Bytes)]
  <2>1. <<>> \in Seq(Bytes)
    OBVIOUS
  <2> QED BY <2>1 DEF Init
<1>3. /\ call \in [Slots -> (UNION {Programs[s] : s \in Slots}) \cup {NoCall}]
      /\ \A s \in Slots : call[s] \in Programs[s] \cup {NoCall}
  <2> DEFINE A == (UNION {Programs[s] : s \in Slots}) \cup {NoCall}
  <2>1. NoCall \in A
    OBVIOUS
  <2> HIDE DEF A
  <2>2. call \in [Slots -> A] /\ \A s \in Slots : call[s] = NoCall
    BY <2>1 DEF Init
  <2> QED BY <2>2 DEF A
<1> QED BY <1>1, <1>2, <1>3 DEF Init, TypeOK

\* Every step keeps every variable in its type.
LEMMA IpcStepType == TypeOK /\ [Next]_vars => TypeOK'
<1> SUFFICES ASSUME TypeOK, [Next]_vars PROVE TypeOK'
  OBVIOUS
<1> DEFINE AllCalls == (UNION {Programs[s] : s \in Slots}) \cup {NoCall}
<1>a. /\ chans \in [Ids -> Chan] /\ state \in [Slots -> {"Ready", "BlockedChan", "Dead"}]
      /\ call \in [Slots -> AllCalls] /\ \A s \in Slots : call[s] \in Programs[s] \cup {NoCall}
      /\ waking \in [Slots -> Slots \cup {NONE}] /\ got \in [Slots -> Seq(Bytes)]
      /\ deaths \in Nat
  BY DEF TypeOK
<1>e. NoCall \in AllCalls /\ \A s \in Slots : \A c \in Programs[s] : c \in AllCalls
  OBVIOUS
<1>f. ASSUME call' \in [Slots -> AllCalls],
             \A r \in Slots : call'[r] \in Programs[r] \cup {NoCall},
             chans' \in [Ids -> Chan], state' \in [Slots -> {"Ready", "BlockedChan", "Dead"}],
             waking' \in [Slots -> Slots \cup {NONE}], got' \in [Slots -> Seq(Bytes)],
             deaths' \in Nat
      PROVE  TypeOK'
  BY <1>f DEF TypeOK
<1> HIDE DEF AllCalls
<1>b. ASSUME NEW s \in Slots, Answer(s)
      PROVE  call' \in [Slots -> AllCalls] /\ \A r \in Slots : call'[r] \in Programs[r] \cup {NoCall}
  BY <1>a, <1>b, <1>e DEF Answer
<1>c. \A c \in Chan : c.wait_recv \in Slots \cup {NONE} /\ c.wait_send \in Slots \cup {NONE}
  BY DEF Chan
<1>1. ASSUME NEW s \in Slots, NEW key \in Keys, Open(s, key) PROVE TypeOK'
  <2> DEFINE f == [Fresh EXCEPT !.used = TRUE, !.key = key]
             i == First({j \in Ids : ~chans[j].used})
  <2>1. f \in Chan
    <3>1. key \in Nat
      BY IpcAssumption
    <3>2. \A t \in Chan : [t EXCEPT !.used = TRUE, !.key = key] \in Chan
      BY <3>1 DEF Chan
    <3> QED BY <3>2, FreshType
  <2>2. chans' = [chans EXCEPT ![i] = f] /\ UNCHANGED <<state, call, waking, got, deaths>>
    BY <1>1 DEF Open
  <2> HIDE DEF f, i
  <2>3. chans' \in [Ids -> Chan]
    BY <1>a, <2>1, <2>2
  <2> QED BY <1>a, <1>f, <2>2, <2>3
<1>2. ASSUME NEW s \in Slots, Begin(s) PROVE TypeOK'
  <2>1. PICK c \in Programs[s] : call' = [call EXCEPT ![s] = c]
    BY <1>2 DEF Begin
  <2>2. c \in AllCalls
    BY <1>e
  <2>3. call' \in [Slots -> AllCalls] /\ \A r \in Slots : call'[r] \in Programs[r] \cup {NoCall}
    BY <1>a, <2>1, <2>2
  <2> QED BY <1>a, <1>2, <1>f, <2>3 DEF Begin
<1>3. ASSUME NEW s \in Slots, Refuse(s) PROVE TypeOK'
  BY <1>a, <1>3, <1>b, <1>f DEF Refuse
<1>4. ASSUME NEW s \in Slots, Send(s) PROVE TypeOK'
  <2> DEFINE i == call[s].id
             c == chans[i]
             d == Sent(c, call[s].data)
  <2>1. i \in Ids /\ call[s].data \in Seq(Bytes) /\ Fits(c, call[s].data)
    BY <1>4, CallShape DEF Send
  <2>2. c \in Chan /\ d \in Chan
    BY <1>a, <2>1, SentAppends
  <2>3. /\ chans' = [chans EXCEPT ![i] = d] /\ waking' = [waking EXCEPT ![s] = c.wait_recv]
        /\ Answer(s) /\ UNCHANGED <<state, got, deaths>>
    BY <1>4 DEF Send
  <2> HIDE DEF d
  <2>4. chans' \in [Ids -> Chan] /\ waking' \in [Slots -> Slots \cup {NONE}]
    BY <1>a, <1>c, <2>2, <2>3
  <2> QED BY <1>a, <1>b, <1>f, <2>3, <2>4
<1>d. ASSUME NEW i \in Ids, NEW s \in Slots
      PROVE  /\ [chans[i] EXCEPT !.wait_send = s] \in Chan
             /\ [chans[i] EXCEPT !.wait_recv = s] \in Chan
  <2> DEFINE c == chans[i]
  <2>1. c \in Chan
    BY <1>a
  <2> HIDE DEF c
  <2>2. [c EXCEPT !.wait_send = s] \in Chan /\ [c EXCEPT !.wait_recv = s] \in Chan
    BY <2>1 DEF Chan
  <2> QED BY <2>2 DEF c
<1>5. ASSUME NEW s \in Slots, SendParks(s) PROVE TypeOK'
  <2> DEFINE i == call[s].id
             d == [chans[i] EXCEPT !.wait_send = s]
  <2>1. i \in Ids
    BY <1>5, CallShape DEF SendParks
  <2>2. d \in Chan
    BY <1>d, <2>1
  <2>3. chans' = [chans EXCEPT ![i] = d]
    BY <1>5 DEF SendParks
  <2> HIDE DEF d
  <2>4. chans' \in [Ids -> Chan]
    BY <1>a, <2>2, <2>3
  <2> QED BY <1>a, <1>5, <1>f, <2>4 DEF SendParks
<1>6. ASSUME NEW s \in Slots, Recv(s) PROVE TypeOK'
  <2> DEFINE i == call[s].id
             c == chans[i]
             n == Taken(c, call[s].len)
             d == [c EXCEPT !.count = c.count - n, !.wait_send = NONE]
             e == [c EXCEPT !.count = c.count - n]
             out == Load(c.buf, TailOf(c.head, c.count), n)
  <2>1. i \in Ids /\ call[s].len \in 1..MaxMsg /\ c.count > 0
    BY <1>6, CallShape DEF Recv
  <2>2. c \in Chan
    BY <1>a, <2>1
  <2>3. n \in 1..c.count /\ d \in Chan /\ e \in Chan
    BY <2>1, <2>2, TakenType
  <2>4. out \in Seq(Bytes)
    <3>1. c.buf \in [Ring -> Bytes] /\ c.head \in Ring /\ c.count \in 0..Cap
      BY <2>2 DEF Chan
    <3>2. c.head + Cap - c.count \in Nat /\ c.head + Cap - c.count < Cap + Cap
      BY <3>1, RingAssumption DEF Ring
    <3>3. TailOf(c.head, c.count) \in Ring
      BY <3>2, Wrap DEF TailOf
    <3>4. n \in 0..Cap
      <4> HIDE DEF n
      <4> QED BY <2>3, <3>1, RingAssumption
    <3> HIDE DEF n
    <3> QED BY <3>1, <3>3, <3>4, LoadType
  <2>5. /\ Answer(s) /\ UNCHANGED <<state, deaths>>
        /\ \/ /\ chans' = [chans EXCEPT ![i] = d] /\ got' = [got EXCEPT ![s] = out]
              /\ waking' = [waking EXCEPT ![s] = c.wait_send]
           \/ chans' = [chans EXCEPT ![i] = e] /\ UNCHANGED <<got, waking>>
    BY <1>6 DEF Recv
  <2> HIDE DEF d, e, out
  <2>6. /\ chans' \in [Ids -> Chan] /\ got' \in [Slots -> Seq(Bytes)]
        /\ waking' \in [Slots -> Slots \cup {NONE}]
    BY <1>a, <1>c, <2>2, <2>3, <2>4, <2>5
  <2> QED BY <1>a, <1>b, <1>f, <2>5, <2>6
<1>7. ASSUME NEW s \in Slots, RecvParks(s) PROVE TypeOK'
  <2> DEFINE i == call[s].id
             d == [chans[i] EXCEPT !.wait_recv = s]
  <2>1. i \in Ids
    BY <1>7, CallShape DEF RecvParks
  <2>2. d \in Chan
    BY <1>d, <2>1
  <2>3. chans' = [chans EXCEPT ![i] = d]
    BY <1>7 DEF RecvParks
  <2> HIDE DEF d
  <2>4. chans' \in [Ids -> Chan]
    BY <1>a, <2>2, <2>3
  <2> QED BY <1>a, <1>7, <1>f, <2>4 DEF RecvParks
<1>8. ASSUME NEW s \in Slots, Wake(s) PROVE TypeOK'
  BY <1>a, <1>8, <1>f DEF Wake
<1>9. ASSUME NEW s \in Slots, Signal(s) \/ Reuse(s) PROVE TypeOK'
  BY <1>a, <1>9, <1>f DEF Signal, Reuse
<1>10. ASSUME NEW s \in Slots, Die(s) PROVE TypeOK'
  BY <1>a, <1>10, <1>e, <1>f DEF Die
<1>11. CASE UNCHANGED vars
  BY <1>a, <1>11, <1>f DEF vars
<1> QED BY <1>1, <1>2, <1>3, <1>4, <1>5, <1>6, <1>7, <1>8, <1>9, <1>10, <1>11 DEF Next, Syscall

(* Every reachable state is well typed for every ring size and every set of  *)
(* programs: head and count never leave the ring.                           *)
THEOREM IpcTypeCorrect == Spec => []TypeOK
<1>1. Init => TypeOK
  BY IpcInitType
<1>2. TypeOK /\ [Next]_vars => TypeOK'
  BY IpcStepType
<1> QED BY <1>1, <1>2, PTL DEF Spec

-----------------------------------------------------------------------------
(* Refinement.                                                              *)

\* A channel nobody opened holds nothing, so opening it is no step of a stream.
UnusedFresh == \A i \in Ids : chans[i].used \/ chans[i] = Fresh

\* No call writes to a channel that is not open.
LEMMA UnusedStep == TypeOK /\ UnusedFresh /\ [Next]_vars => UnusedFresh'
<1> SUFFICES ASSUME TypeOK, UnusedFresh, [Next]_vars, NEW j \in Ids
             PROVE  chans'[j].used \/ chans'[j] = Fresh
  BY DEF UnusedFresh
<1>a. chans \in [Ids -> Chan] /\ (chans[j].used \/ chans[j] = Fresh)
  BY DEF TypeOK, UnusedFresh
<1>b. ASSUME NEW i \in Ids, NEW c, c.used, chans' = [chans EXCEPT ![i] = c]
      PROVE  chans'[j].used \/ chans'[j] = Fresh
  BY <1>a, <1>b
<1>c. \A c \in Chan : \A d \in Seq(Bytes) : Sent(c, d).used = c.used
  BY DEF Sent, Chan
<1>d. \A c \in Chan : \A x : /\ [c EXCEPT !.wait_send = x].used = c.used
                             /\ [c EXCEPT !.wait_recv = x].used = c.used
                             /\ [c EXCEPT !.count = x].used = c.used
                             /\ [c EXCEPT !.count = x, !.wait_send = NONE].used = c.used
  BY DEF Chan
<1>1. ASSUME NEW s \in Slots, NEW key \in Keys, Open(s, key)
      PROVE  chans'[j].used \/ chans'[j] = Fresh
  <2>1. [Fresh EXCEPT !.used = TRUE, !.key = key].used
    BY DEF Fresh
  <2> DEFINE f == [Fresh EXCEPT !.used = TRUE, !.key = key]
             i == First({k \in Ids : ~chans[k].used})
  <2>2. chans' = [chans EXCEPT ![i] = f]
    BY <1>1 DEF Open
  <2> HIDE DEF f, i
  <2> QED BY <1>a, <2>1, <2>2 DEF f
<1>2. ASSUME NEW s \in Slots, Send(s) PROVE chans'[j].used \/ chans'[j] = Fresh
  <2> DEFINE i == call[s].id
             d == Sent(chans[i], call[s].data)
  <2>1. i \in Ids /\ call[s].data \in Seq(Bytes) /\ chans[i].used
    BY <1>2, CallShape DEF Send
  <2>2. chans' = [chans EXCEPT ![i] = d] /\ d.used
    BY <1>2, <1>a, <1>c, <2>1 DEF Send
  <2> HIDE DEF d, i
  <2> QED BY <1>b, <2>1, <2>2
<1>3. ASSUME NEW s \in Slots, SendParks(s) PROVE chans'[j].used \/ chans'[j] = Fresh
  <2> DEFINE i == call[s].id
             d == [chans[i] EXCEPT !.wait_send = s]
  <2>1. i \in Ids /\ chans[i].used
    BY <1>3, CallShape DEF SendParks
  <2>2. chans' = [chans EXCEPT ![i] = d] /\ d.used
    BY <1>3, <1>a, <1>d, <2>1 DEF SendParks
  <2> HIDE DEF d, i
  <2> QED BY <1>b, <2>1, <2>2
<1>4. ASSUME NEW s \in Slots, RecvParks(s) PROVE chans'[j].used \/ chans'[j] = Fresh
  <2> DEFINE i == call[s].id
             d == [chans[i] EXCEPT !.wait_recv = s]
  <2>1. i \in Ids /\ chans[i].used
    BY <1>4, CallShape DEF RecvParks
  <2>2. chans' = [chans EXCEPT ![i] = d] /\ d.used
    BY <1>4, <1>a, <1>d, <2>1 DEF RecvParks
  <2> HIDE DEF d, i
  <2> QED BY <1>b, <2>1, <2>2
<1>5. ASSUME NEW s \in Slots, Recv(s) PROVE chans'[j].used \/ chans'[j] = Fresh
  <2> DEFINE i == call[s].id
             n == Taken(chans[i], call[s].len)
             d == [chans[i] EXCEPT !.count = chans[i].count - n, !.wait_send = NONE]
             e == [chans[i] EXCEPT !.count = chans[i].count - n]
  <2>1. i \in Ids /\ chans[i].used
    BY <1>5, CallShape DEF Recv
  <2>2. chans' = [chans EXCEPT ![i] = d] \/ chans' = [chans EXCEPT ![i] = e]
    BY <1>5 DEF Recv
  <2>3. d.used /\ e.used
    BY <1>a, <1>d, <2>1
  <2> HIDE DEF d, e, i
  <2> QED BY <1>b, <2>1, <2>2, <2>3
<1>6. CASE UNCHANGED chans
  BY <1>6, <1>a
<1> QED BY <1>1, <1>2, <1>3, <1>4, <1>5, <1>6
        DEF Next, Syscall, vars, Begin, Refuse, Wake, Signal, Die, Reuse

\* The content of a fresh channel is empty.
LEMMA FreshEmpty == Contents(Fresh) = <<>>
<1>1. Contents(Fresh) \in Seq(Bytes) /\ Len(Contents(Fresh)) = 0
  BY FreshType, ContentsType DEF Fresh
<1> QED BY <1>1

\* open takes a channel of the set it searches: the lowest index exists.
LEMMA FirstIn ==
    ASSUME NEW S \in SUBSET Ids, S # {}
    PROVE  First(S) \in S
<1>1. S \subseteq Nat
  BY IpcAssumption DEF Ids
<1>2. \E m \in S : \A j \in S : ~(<<j, m>> \in OpToRel(<, Nat))
  BY <1>1, NatLessThanWellFounded, WFMin
<1>3. PICK m \in S : \A j \in S : ~(<<j, m>> \in OpToRel(<, Nat))
  BY <1>2
<1>4. \A j \in S : m <= j
  <2> TAKE j \in S
  <2>1. ~(j < m)
    BY <1>1, <1>3 DEF OpToRel
  <2> QED BY <1>1, <2>1
<1> QED BY <1>3, <1>4 DEF First

\* Every step of the rings is a step of the streams or leaves them alone.
LEMMA StreamStep ==
    ASSUME TypeOK, UnusedFresh, [Next]_vars
    PROVE  [Streams!Next]_<<[i \in Ids |-> Contents(chans[i])], got>>
<1> DEFINE q == [i \in Ids |-> Contents(chans[i])]
<1>a. chans \in [Ids -> Chan] /\ got \in [Slots -> Seq(Bytes)]
  BY DEF TypeOK
<1>b. ASSUME NEW i \in Ids, NEW d, chans' = [chans EXCEPT ![i] = d],
             Contents(d) = Contents(chans[i])
      PROVE  q' = q
  <2>1. \A j \in Ids : Contents(chans'[j]) = Contents(chans[j])
    BY <1>a, <1>b
  <2> QED BY <2>1
<1>c. ASSUME NEW i \in Ids, NEW d, chans' = [chans EXCEPT ![i] = d]
      PROVE  q' = [q EXCEPT ![i] = Contents(d)]
  <2>1. \A j \in Ids : Contents(chans'[j]) = IF j = i THEN Contents(d) ELSE Contents(chans[j])
    BY <1>a, <1>c
  <2> QED BY <2>1
<1>1. ASSUME NEW s \in Slots, NEW key \in Keys, Open(s, key) PROVE q' = q /\ got' = got
  <2> DEFINE S == {k \in Ids : ~chans[k].used}
             f == [Fresh EXCEPT !.used = TRUE, !.key = key]
             i == First(S)
  <2>1. chans' = [chans EXCEPT ![i] = f] /\ got' = got /\ S # {}
    BY <1>1 DEF Open
  <2>2. Contents(f) = Contents(Fresh)
    BY DEF Contents, Fresh
  <2> HIDE DEF f
  <2>3. CASE i \in Ids /\ ~chans[i].used
    <3>1. chans[i] = Fresh
      BY <2>3 DEF UnusedFresh
    <3> HIDE DEF i
    <3> QED BY <1>b, <2>1, <2>2, <2>3, <3>1
  <2>4. i \in S
    BY <2>1, FirstIn
  <2> QED BY <2>3, <2>4
<1>2. ASSUME NEW s \in Slots, Send(s) PROVE Streams!Next
  <2> DEFINE i == call[s].id
             m == call[s].data
             d == Sent(chans[i], m)
  <2>1. i \in Ids /\ m \in Seq(Bytes) /\ Len(m) \in 1..MaxMsg /\ Fits(chans[i], m)
    BY <1>2, CallShape DEF Send
  <2>2. chans' = [chans EXCEPT ![i] = d] /\ got' = got
    BY <1>2 DEF Send
  <2>3. chans[i] \in Chan /\ Contents(d) = Contents(chans[i]) \o m
    BY <1>a, <2>1, SentAppends
  <2>4. Len(Contents(chans[i])) + Len(m) <= Cap
    BY <2>1, <2>3, ContentsType DEF Fits
  <2>5. m \in Streams!Messages
    <3>1. m \in [1..Len(m) -> Bytes]
      BY <2>1
    <3> QED BY <2>1, <3>1 DEF Streams!Messages
  <2> HIDE DEF d, i, m
  <2>6. q' = [q EXCEPT ![i] = Contents(d)]
    BY <1>c, <2>1, <2>2
  <2>7. q[i] = Contents(chans[i])
    BY <2>1
  <2> HIDE DEF q
  <2>8. Len(q[i]) + Len(m) <= Cap /\ q' = [q EXCEPT ![i] = q[i] \o m] /\ got' = got
    BY <2>2, <2>3, <2>4, <2>6, <2>7
  <2>9. Streams!Put(i, m)
    BY <2>8 DEF Streams!Put, q
  <2> QED BY <2>1, <2>5, <2>9 DEF Streams!Next
<1>3. ASSUME NEW s \in Slots, Recv(s) PROVE Streams!Next
  <2> DEFINE i == call[s].id
             c == chans[i]
             n == Taken(c, call[s].len)
             d == [c EXCEPT !.count = c.count - n, !.wait_send = NONE]
             e == [c EXCEPT !.count = c.count - n]
             out == Load(c.buf, TailOf(c.head, c.count), n)
  <2>1. i \in Ids /\ call[s].len \in 1..MaxMsg /\ c.count > 0
    BY <1>3, CallShape DEF Recv
  <2>2. c \in Chan
    BY <1>a, <2>1
  <2>3. n \in 1..c.count /\ n \in 1..MaxMsg /\ d \in Chan /\ e \in Chan
    BY <2>1, <2>2, TakenType
  <2>4. \/ chans' = [chans EXCEPT ![i] = d] /\ got' = [got EXCEPT ![s] = out]
        \/ chans' = [chans EXCEPT ![i] = e] /\ got' = got
    BY <1>3 DEF Recv
  <2>5. /\ d.buf = c.buf /\ d.head = c.head /\ d.count = c.count - n
        /\ e.buf = c.buf /\ e.head = c.head /\ e.count = c.count - n
    <3> HIDE DEF n, c
    <3> QED BY <2>2 DEF Chan
  <2> DEFINE p == Contents(c)
             rest == SubSeq(p, n + 1, Len(p))
  <2> HIDE DEF n, d, e
  <2>6. out = SubSeq(p, 1, n) /\ Contents(d) = rest /\ Contents(e) = rest
    BY <2>2, <2>3, <2>5, RecvTakes
  <2>7. n \in 1..Len(p)
    BY <2>2, <2>3, ContentsType
  <2> HIDE DEF out
  <2>8. q' = [q EXCEPT ![i] = rest]
    <3>1. CASE chans' = [chans EXCEPT ![i] = d]
      BY <1>c, <2>1, <2>6, <3>1
    <3>2. CASE chans' = [chans EXCEPT ![i] = e]
      BY <1>c, <2>1, <2>6, <3>2
    <3> QED BY <2>4, <3>1, <3>2
  <2>9. q[i] = p
    BY <2>1
  <2> HIDE DEF q, p, i, c
  <2>10. Streams!Take(i, n)
    <3>1. n \in 1..Len(q[i]) /\ q' = [q EXCEPT ![i] = SubSeq(q[i], n + 1, Len(q[i]))]
      BY <2>7, <2>8, <2>9
    <3> QED BY <3>1 DEF Streams!Take, q
  <2>11. got' = [got EXCEPT ![s] = SubSeq(q[i], 1, n)] \/ got' = got
    BY <2>4, <2>6, <2>9
  <2>12. Streams!Get(s, i, n) \/ Streams!Lose(i, n)
    BY <2>10, <2>11 DEF Streams!Get, Streams!Lose, q
  <2> QED BY <2>1, <2>3, <2>12 DEF Streams!Next
<1>4. ASSUME NEW s \in Slots, SendParks(s) PROVE q' = q /\ got' = got
  <2> DEFINE i == call[s].id
             d == [chans[i] EXCEPT !.wait_send = s]
  <2>1. i \in Ids
    BY <1>4, CallShape DEF SendParks
  <2>2. chans' = [chans EXCEPT ![i] = d] /\ got' = got
    BY <1>4 DEF SendParks
  <2>3. Contents(d) = Contents(chans[i])
    BY <1>a, <2>1 DEF Contents, Chan
  <2> HIDE DEF d, i
  <2> QED BY <1>b, <2>1, <2>2, <2>3
<1>5. ASSUME NEW s \in Slots, RecvParks(s) PROVE q' = q /\ got' = got
  <2> DEFINE i == call[s].id
             d == [chans[i] EXCEPT !.wait_recv = s]
  <2>1. i \in Ids
    BY <1>5, CallShape DEF RecvParks
  <2>2. chans' = [chans EXCEPT ![i] = d] /\ got' = got
    BY <1>5 DEF RecvParks
  <2>3. Contents(d) = Contents(chans[i])
    BY <1>a, <2>1 DEF Contents, Chan
  <2> HIDE DEF d, i
  <2> QED BY <1>b, <2>1, <2>2, <2>3
<1>6. CASE UNCHANGED <<chans, got>>
  <2>1. q' = q /\ got' = got
    BY <1>6
  <2> QED BY <2>1
<1>7. CASE q' = q /\ got' = got
  BY <1>7
<1> HIDE DEF q
<1>8. Streams!Next \/ (q' = q /\ got' = got) => [Streams!Next]_<<q, got>>
  OBVIOUS
<1>9. \/ \E s \in Slots : \E key \in Keys : Open(s, key)
      \/ \E s \in Slots : Send(s) \/ Recv(s) \/ SendParks(s) \/ RecvParks(s)
      \/ UNCHANGED <<chans, got>>
  BY DEF Next, Syscall, vars, Begin, Refuse, Wake, Signal, Die, Reuse
<1> QED BY <1>1, <1>2, <1>3, <1>4, <1>5, <1>6, <1>8, <1>9 DEF q

(* The channels of ipc.rs implement bounded byte streams, for every ring    *)
(* size, message limit and set of programs, with faulting buffers and dying *)
(* tasks: no byte is duplicated, reordered or invented, a message is sent   *)
(* whole, and bytes are lost only to a faulting receiver.                   *)
THEOREM StreamsImplemented == Spec => ImplementsStreams
<1>1. Init => UnusedFresh /\ Streams!Init
  <2> SUFFICES ASSUME Init PROVE UnusedFresh /\ Streams!Init
    OBVIOUS
  <2>1. \A i \in Ids : chans[i] = Fresh
    BY DEF Init
  <2>2. \A i \in Ids : Contents(chans[i]) = <<>>
    BY <2>1, FreshEmpty
  <2>3. [i \in Ids |-> Contents(chans[i])] = [i \in Ids |-> <<>>]
    BY <2>2
  <2> QED BY <2>1, <2>3 DEF UnusedFresh, Streams!Init, Init
<1>2. TypeOK /\ UnusedFresh /\ [Next]_vars => UnusedFresh'
  BY UnusedStep
<1>3. TypeOK /\ UnusedFresh /\ [Next]_vars
         => [Streams!Next]_<<[i \in Ids |-> Contents(chans[i])], got>>
  BY StreamStep
<1> QED BY <1>1, <1>2, <1>3, IpcTypeCorrect, PTL DEF Spec, ImplementsStreams, Streams!Spec

-----------------------------------------------------------------------------
(* Wakeups.                                                                 *)

(* A parked task that nobody is about to wake is registered in its channel,  *)
(* and the channel is still in the state it parked for.                     *)
Registered(s) ==
    /\ call[s].kind = "recv" => /\ chans[call[s].id].count = 0
                                /\ chans[call[s].id].wait_recv = s
    /\ call[s].kind = "send" /\ call[s].id \notin Faults
       => ~Fits(chans[call[s].id], call[s].data) /\ chans[call[s].id].wait_send = s

WakeInv == \A s \in Slots : state[s] = "BlockedChan" => BeingWoken(s) \/ Registered(s)

\* The two ends of a channel: who else calls on it, given one task per side.
LEMMA OtherSide ==
    ASSUME OneEach, TypeOK, NEW s \in Slots, NEW r \in Slots, s # r,
           call[s].kind \in {"send", "recv"}, call[r].kind \in {"send", "recv"},
           call[s].id = call[r].id
    PROVE  call[s].kind # call[r].kind
BY CallShape DEF OneEach

\* A step keeps the registration of every task that stays parked.
LEMMA WakeStep ==
    ASSUME OneEach, TypeOK, UnusedFresh, WakeInv, [Next]_vars
    PROVE  WakeInv'
<1> SUFFICES ASSUME NEW s \in Slots, state'[s] = "BlockedChan"
             PROVE  BeingWoken(s)' \/ Registered(s)'
  BY DEF WakeInv
<1> DEFINE k == call[s].id
<1>a. /\ chans \in [Ids -> Chan] /\ state \in [Slots -> {"Ready", "BlockedChan", "Dead"}]
      /\ waking \in [Slots -> Slots \cup {NONE}] /\ s # NONE
      /\ \A r \in Slots : r # NONE
      /\ call = [r \in Slots |-> call[r]]
  BY IpcAssumption DEF TypeOK, Slots, NONE
<1>b. state[s] = "BlockedChan" => BeingWoken(s) \/ Registered(s)
  BY DEF WakeInv
\* A step that only sets the waker of a running task loses no pending wakeup.
<1>c. ASSUME NEW r \in Slots, NEW x, waking[r] = NONE, waking' = [waking EXCEPT ![r] = x],
             BeingWoken(s)
      PROVE  BeingWoken(s)'
  <2>1. PICK t \in Slots : waking[t] = s
    BY <1>c DEF BeingWoken
  <2>2. t # r
    BY <1>a, <1>c, <2>1
  <2>3. waking'[t] = s
    BY <1>a, <1>c, <2>1, <2>2
  <2> QED BY <2>3 DEF BeingWoken
<1>d. ASSUME chans' = chans, call'[s] = call[s], waking' = waking, state[s] = "BlockedChan"
      PROVE  BeingWoken(s)' \/ Registered(s)'
  BY <1>b, <1>d DEF BeingWoken, Registered
<1>e. ASSUME NEW r \in Slots, Runs(r), Answer(r), state' = state
      PROVE  call'[s] = call[s] /\ state[s] = "BlockedChan" /\ s # r
  BY <1>a, <1>e DEF Runs, Answer
<1>1. ASSUME NEW r \in Slots, NEW key \in Keys, Open(r, key)
      PROVE  BeingWoken(s)' \/ Registered(s)'
  <2> DEFINE S == {j \in Ids : ~chans[j].used}
             i == First(S)
             f == [Fresh EXCEPT !.used = TRUE, !.key = key]
  <2>1. chans' = [chans EXCEPT ![i] = f] /\ UNCHANGED <<state, call, waking>> /\ S # {}
    BY <1>1 DEF Open
  <2>2. i \in S
    BY <2>1, FirstIn
  <2>3. chans[i] = Fresh
    BY <2>2 DEF UnusedFresh
  <2>4. Fresh.wait_recv = NONE /\ Fresh.wait_send = NONE
    BY DEF Fresh
  <2> HIDE DEF i, f
  <2>5. ASSUME k # i PROVE chans'[k] = chans[k]
    BY <2>1, <1>a, <2>5
  <2>6. CASE BeingWoken(s)
    BY <2>1, <2>6 DEF BeingWoken
  <2>7. CASE Registered(s)
    <3>1. (call[s].kind = "recv" \/ (call[s].kind = "send" /\ k \notin Faults)) => k # i
      BY <1>a, <2>3, <2>4, <2>7 DEF Registered
    <3>2. CASE k # i
      BY <2>1, <2>5, <2>7, <3>2 DEF Registered
    <3>3. CASE k = i
      <4>1. call'[s] = call[s] /\ call[s].kind # "recv"
            /\ ~(call[s].kind = "send" /\ call[s].id \notin Faults)
        BY <2>1, <3>1, <3>3
      <4> QED BY <4>1 DEF Registered
    <3> QED BY <3>2, <3>3
  <2> QED BY <1>b, <2>1, <2>6, <2>7
<1>2. ASSUME NEW r \in Slots, Begin(r) PROVE BeingWoken(s)' \/ Registered(s)'
  <2>1. s # r /\ state[s] = "BlockedChan"
    BY <1>2 DEF Begin, Runs
  <2>2. call'[s] = call[s]
    BY <1>2, <1>a, <2>1 DEF Begin
  <2> QED BY <1>2, <1>d, <2>1, <2>2 DEF Begin
<1>3. ASSUME NEW r \in Slots, Refuse(r) PROVE BeingWoken(s)' \/ Registered(s)'
  BY <1>3, <1>d, <1>e DEF Refuse
<1>4. ASSUME NEW r \in Slots, Send(r) PROVE BeingWoken(s)' \/ Registered(s)'
  <2> DEFINE i == call[r].id
             c == chans[i]
             m == call[r].data
             d == Sent(c, m)
  <2>1. /\ i \in Ids /\ m \in Seq(Bytes) /\ waking[r] = NONE
        /\ chans' = [chans EXCEPT ![i] = d] /\ waking' = [waking EXCEPT ![r] = c.wait_recv]
        /\ call'[s] = call[s] /\ state[s] = "BlockedChan" /\ s # r
    BY <1>4, <1>e, CallShape DEF Send, Runs
  <2>2. CASE BeingWoken(s)
    BY <1>c, <2>1, <2>2
  <2>3. CASE Registered(s) /\ call[s].kind = "recv" /\ k = i
    <3>1. waking'[r] = s
      BY <1>a, <2>1, <2>3 DEF Registered
    <3> QED BY <3>1 DEF BeingWoken
  <2>3a. CASE Registered(s) /\ call[s].kind = "send" /\ k \in Faults
    BY <2>1, <2>3a DEF Registered
  <2>4. CASE Registered(s) /\ call[s].kind = "send" /\ k = i /\ k \notin Faults
    <3>1. d.count = c.count + Len(m) /\ d.wait_send = c.wait_send /\ c.count \in Nat
          /\ Len(m) \in Nat /\ chans'[i] = d
      <4>1. c \in Chan /\ Len(m) \in Nat
        BY <1>a, <2>1
      <4>2. \A t \in Chan : \A v : /\ Sent(t, v).count = t.count + Len(v)
                                   /\ Sent(t, v).wait_send = t.wait_send
                                   /\ t.count \in Nat
        BY RingAssumption DEF Sent, Chan
      <4>3. chans'[i] = d
        <5> HIDE DEF d
        <5> QED BY <1>a, <2>1
      <4> QED BY <4>1, <4>2, <4>3
    <3>2. call[s].data \in Seq(Bytes)
      BY <2>4, CallShape
    <3>3. ~Fits(d, call[s].data)
      <4>1. Len(call[s].data) \in Nat /\ ~(c.count + Len(call[s].data) <= Cap) /\ Cap \in Nat
        BY <2>4, <3>2, RingAssumption DEF Registered, Fits
      <4> HIDE DEF d, c, m
      <4> QED BY <3>1, <4>1 DEF Fits
    <3> HIDE DEF d
    <3> QED BY <2>1, <2>4, <3>1, <3>3 DEF Registered
  <2>5. CASE Registered(s) /\ ~(call[s].kind \in {"send", "recv"} /\ k = i)
    <3> HIDE DEF d
    <3>1. call[s].kind \in {"send", "recv"} => chans'[k] = chans[k]
      BY <1>a, <2>1, <2>5
    <3> QED BY <2>1, <2>5, <3>1 DEF Registered
  <2> QED BY <1>b, <2>1, <2>2, <2>3, <2>3a, <2>4, <2>5
<1>5. ASSUME NEW r \in Slots, SendParks(r) PROVE BeingWoken(s)' \/ Registered(s)'
  <2> DEFINE i == call[r].id
             c == chans[i]
             d == [c EXCEPT !.wait_send = r]
  <2>1. /\ i \in Ids /\ chans' = [chans EXCEPT ![i] = d] /\ UNCHANGED <<waking, call>>
        /\ state' = [state EXCEPT ![r] = "BlockedChan"] /\ call[r].kind = "send"
        /\ ~Fits(c, call[r].data)
    BY <1>5, CallShape DEF SendParks
  <2>2. d.count = c.count /\ d.wait_recv = c.wait_recv /\ d.wait_send = r /\ chans'[i] = d
    BY <1>a, <2>1 DEF Chan
  <2> HIDE DEF d
  <2>3. CASE s = r
    <3>1. ~Fits(d, call[r].data)
      BY <2>1, <2>2 DEF Fits
    <3> QED BY <2>1, <2>2, <2>3, <3>1 DEF Registered
  <2>4. CASE s # r
    <3>1. state[s] = "BlockedChan"
      BY <1>a, <2>1, <2>4
    <3>2. CASE BeingWoken(s)
      BY <2>1, <3>2 DEF BeingWoken
    <3>3. CASE Registered(s) /\ call[s].kind = "recv" /\ k = i
      BY <2>1, <2>2, <3>3 DEF Registered
    <3>4. ~(call[s].kind = "send" /\ k = i)
      BY <2>1, <2>4, OtherSide
    <3>5. CASE Registered(s) /\ ~(call[s].kind \in {"send", "recv"} /\ k = i)
      <4>1. call[s].kind \in {"send", "recv"} => chans'[k] = chans[k]
        BY <1>a, <2>1, <3>5
      <4> QED BY <2>1, <3>5, <4>1 DEF Registered
    <3> QED BY <1>b, <3>1, <3>2, <3>3, <3>4, <3>5
  <2> QED BY <2>3, <2>4
<1>6. ASSUME NEW r \in Slots, Recv(r) PROVE BeingWoken(s)' \/ Registered(s)'
  <2> DEFINE i == call[r].id
             c == chans[i]
             n == Taken(c, call[r].len)
             d == [c EXCEPT !.count = c.count - n, !.wait_send = NONE]
             e == [c EXCEPT !.count = c.count - n]
  <2>1. /\ i \in Ids /\ c.count > 0 /\ waking[r] = NONE
        /\ \/ /\ chans' = [chans EXCEPT ![i] = d]
              /\ waking' = [waking EXCEPT ![r] = c.wait_send]
           \/ /\ i \in Faults /\ chans' = [chans EXCEPT ![i] = e] /\ waking' = waking
        /\ call'[s] = call[s] /\ state[s] = "BlockedChan" /\ s # r
    BY <1>6, <1>e, CallShape DEF Recv, Runs
  <2> HIDE DEF d, e
  <2>2. CASE BeingWoken(s)
    BY <1>c, <2>1, <2>2 DEF BeingWoken
  <2>3. CASE Registered(s) /\ call[s].kind = "send" /\ k = i /\ k \notin Faults
    <3>1. waking'[r] = s
      BY <1>a, <2>1, <2>3 DEF Registered
    <3> QED BY <3>1 DEF BeingWoken
  <2>3a. CASE Registered(s) /\ call[s].kind = "send" /\ k \in Faults
    BY <2>1, <2>3a DEF Registered
  <2>4. CASE Registered(s) /\ call[s].kind = "recv" /\ k = i
    BY <2>1, <2>4 DEF Registered
  <2>5. CASE Registered(s) /\ ~(call[s].kind \in {"send", "recv"} /\ k = i)
    <3>1. \A x : k # i => [chans EXCEPT ![i] = x][k] = chans[k]
      BY <1>a
    <3>2. call[s].kind \in {"send", "recv"} => chans'[k] = chans[k]
      BY <2>1, <2>5, <3>1
    <3> QED BY <2>1, <2>5, <3>2 DEF Registered
  <2> QED BY <1>b, <2>1, <2>2, <2>3, <2>3a, <2>4, <2>5
<1>7. ASSUME NEW r \in Slots, RecvParks(r) PROVE BeingWoken(s)' \/ Registered(s)'
  <2> DEFINE i == call[r].id
             c == chans[i]
             d == [c EXCEPT !.wait_recv = r]
  <2>1. /\ i \in Ids /\ chans' = [chans EXCEPT ![i] = d] /\ UNCHANGED <<waking, call>>
        /\ state' = [state EXCEPT ![r] = "BlockedChan"] /\ call[r].kind = "recv"
        /\ c.count = 0
    BY <1>7, CallShape DEF RecvParks
  <2>2. d.count = c.count /\ d.wait_send = c.wait_send /\ d.wait_recv = r /\ chans'[i] = d
    BY <1>a, <2>1 DEF Chan
  <2> HIDE DEF d
  <2>3. CASE s = r
    BY <2>1, <2>2, <2>3 DEF Registered
  <2>4. CASE s # r
    <3>1. state[s] = "BlockedChan"
      BY <1>a, <2>1, <2>4
    <3>2. CASE BeingWoken(s)
      BY <2>1, <3>2 DEF BeingWoken
    <3>3. CASE Registered(s) /\ call[s].kind = "send" /\ k = i
      <4>1. Fits(d, call[s].data) <=> Fits(c, call[s].data)
        BY <2>2 DEF Fits
      <4> QED BY <2>1, <2>2, <3>3, <4>1 DEF Registered
    <3>4. ~(call[s].kind = "recv" /\ k = i)
      BY <2>1, <2>4, OtherSide
    <3>5. CASE Registered(s) /\ ~(call[s].kind \in {"send", "recv"} /\ k = i)
      <4>1. call[s].kind \in {"send", "recv"} => chans'[k] = chans[k]
        BY <1>a, <2>1, <3>5
      <4> QED BY <2>1, <3>5, <4>1 DEF Registered
    <3> QED BY <1>b, <3>1, <3>2, <3>3, <3>4, <3>5
  <2> QED BY <2>3, <2>4
<1>8. ASSUME NEW r \in Slots, Wake(r) PROVE BeingWoken(s)' \/ Registered(s)'
  <2>1. /\ waking[r] \in Slots /\ UNCHANGED <<chans, call>>
        /\ state' = [state EXCEPT ![waking[r]] = IF state[waking[r]] = "BlockedChan"
                                                 THEN "Ready" ELSE state[waking[r]]]
        /\ waking' = [waking EXCEPT ![r] = NONE]
    BY <1>8, <1>a DEF Wake
  <2>2. s # waking[r] /\ state[s] = "BlockedChan"
    BY <1>a, <2>1
  <2>3. CASE Registered(s)
    BY <2>1, <2>3 DEF Registered
  <2>4. CASE BeingWoken(s)
    <3>1. PICK t \in Slots : waking[t] = s
      BY <2>4 DEF BeingWoken
    <3>2. waking'[t] = s
      BY <1>a, <2>1, <2>2, <3>1
    <3> QED BY <3>2 DEF BeingWoken
  <2> QED BY <1>b, <2>2, <2>3, <2>4
<1>9. ASSUME NEW r \in Slots, Signal(r) \/ Reuse(r) \/ Die(r)
      PROVE  BeingWoken(s)' \/ Registered(s)'
  <2>1. s # r /\ state[s] = "BlockedChan" /\ chans' = chans /\ waking' = waking
    BY <1>9, <1>a DEF Signal, Reuse, Die
  <2>2. call'[s] = call[s]
    BY <1>9, <1>a, <2>1 DEF Signal, Reuse, Die
  <2> QED BY <1>d, <2>1, <2>2
<1>10. CASE UNCHANGED vars
  BY <1>10, <1>d DEF vars
<1> QED BY <1>1, <1>2, <1>3, <1>4, <1>5, <1>6, <1>7, <1>8, <1>9, <1>10 DEF Next, Syscall

(* With one sender and one receiver per channel no task is ever parked on a *)
(* channel it could use without a peer about to wake it, however sends,     *)
(* receives, signals, deaths and late wakeups interleave; only a sender to  *)
(* a receiver with a bad buffer is excepted.  IpcTwoSenders and IpcFault    *)
(* show that both restrictions are needed.                                  *)
THEOREM WakeupsKept ==
    ASSUME OneEach
    PROVE  Spec => []NoLostWakeup
<1>1. Init => WakeInv /\ UnusedFresh
  BY DEF Init, WakeInv, UnusedFresh
<1>2. TypeOK /\ UnusedFresh /\ [Next]_vars => UnusedFresh'
  BY UnusedStep
<1>3. TypeOK /\ UnusedFresh /\ WakeInv /\ [Next]_vars => WakeInv'
  BY WakeStep
<1>4. WakeInv => NoLostWakeup
  BY DEF WakeInv, NoLostWakeup, ParkedIn, Registered
<1> QED BY <1>1, <1>2, <1>3, <1>4, IpcTypeCorrect, PTL DEF Spec

-----------------------------------------------------------------------------
(* Keys.                                                                    *)

\* No call but open changes which channels are open or what they are called.
LEMMA NamesKept ==
    ASSUME TypeOK, NEW s \in Slots,
           Send(s) \/ SendParks(s) \/ Recv(s) \/ RecvParks(s),
           NEW j \in Ids
    PROVE  chans'[j].used = chans[j].used /\ chans'[j].key = chans[j].key
<1>a. chans \in [Ids -> Chan]
  BY DEF TypeOK
<1>b. \A c \in Chan : \A d \in Seq(Bytes) : Sent(c, d).used = c.used /\ Sent(c, d).key = c.key
  BY DEF Sent, Chan
<1>c. \A c \in Chan : \A x :
         /\ [c EXCEPT !.wait_send = x].used = c.used /\ [c EXCEPT !.wait_send = x].key = c.key
         /\ [c EXCEPT !.wait_recv = x].used = c.used /\ [c EXCEPT !.wait_recv = x].key = c.key
         /\ [c EXCEPT !.count = x].used = c.used /\ [c EXCEPT !.count = x].key = c.key
         /\ [c EXCEPT !.count = x, !.wait_send = NONE].used = c.used
         /\ [c EXCEPT !.count = x, !.wait_send = NONE].key = c.key
  BY DEF Chan
<1> DEFINE i == call[s].id
<1>d. i \in Ids
  BY CallShape DEF Send, SendParks, Recv, RecvParks
<1>e. ASSUME NEW c, c.used = chans[i].used, c.key = chans[i].key, chans' = [chans EXCEPT ![i] = c]
      PROVE  chans'[j].used = chans[j].used /\ chans'[j].key = chans[j].key
  BY <1>a, <1>d, <1>e
<1>1. CASE Send(s)
  <2> DEFINE d == Sent(chans[i], call[s].data)
  <2>1. call[s].data \in Seq(Bytes)
    BY <1>1, CallShape DEF Send
  <2>2. chans' = [chans EXCEPT ![i] = d] /\ d.used = chans[i].used /\ d.key = chans[i].key
    BY <1>1, <1>a, <1>b, <1>d, <2>1 DEF Send
  <2> HIDE DEF d, i
  <2> QED BY <1>e, <2>2
<1>2. CASE SendParks(s)
  <2> DEFINE d == [chans[i] EXCEPT !.wait_send = s]
  <2>2. chans' = [chans EXCEPT ![i] = d] /\ d.used = chans[i].used /\ d.key = chans[i].key
    BY <1>2, <1>a, <1>c, <1>d DEF SendParks
  <2> HIDE DEF d, i
  <2> QED BY <1>e, <2>2
<1>3. CASE RecvParks(s)
  <2> DEFINE d == [chans[i] EXCEPT !.wait_recv = s]
  <2>2. chans' = [chans EXCEPT ![i] = d] /\ d.used = chans[i].used /\ d.key = chans[i].key
    BY <1>3, <1>a, <1>c, <1>d DEF RecvParks
  <2> HIDE DEF d, i
  <2> QED BY <1>e, <2>2
<1>4. CASE Recv(s)
  <2> DEFINE n == Taken(chans[i], call[s].len)
             d == [chans[i] EXCEPT !.count = chans[i].count - n, !.wait_send = NONE]
             e == [chans[i] EXCEPT !.count = chans[i].count - n]
  <2>2. chans' = [chans EXCEPT ![i] = d] \/ chans' = [chans EXCEPT ![i] = e]
    BY <1>4 DEF Recv
  <2>3. /\ d.used = chans[i].used /\ d.key = chans[i].key
        /\ e.used = chans[i].used /\ e.key = chans[i].key
    BY <1>a, <1>c, <1>d
  <2> HIDE DEF d, e, i
  <2> QED BY <1>e, <2>2, <2>3
<1> QED BY <1>1, <1>2, <1>3, <1>4

\* A key that is open is joined, so open never gives it to a second channel.
LEMMA KeyStep == TypeOK /\ OneChannelPerKey /\ [Next]_vars => OneChannelPerKey'
<1> SUFFICES ASSUME TypeOK, OneChannelPerKey, [Next]_vars PROVE OneChannelPerKey'
  OBVIOUS
<1>a. chans \in [Ids -> Chan]
  BY DEF TypeOK
<1>b. ASSUME \A j \in Ids : chans'[j].used = chans[j].used /\ chans'[j].key = chans[j].key
      PROVE  OneChannelPerKey'
  BY <1>b DEF OneChannelPerKey
<1>1. ASSUME NEW s \in Slots, NEW key \in Keys, Open(s, key)
      PROVE  OneChannelPerKey'
  <2> DEFINE f == [Fresh EXCEPT !.used = TRUE, !.key = key]
             u == {k \in Ids : ~chans[k].used}
             i == First(u)
  <2>1. chans' = [chans EXCEPT ![i] = f]
    BY <1>1 DEF Open
  <2>2. i \in u
    BY <1>1, FirstIn DEF Open
  <2>3. f.key = key
    BY DEF Fresh
  <2>4. \A j \in Ids : chans[j].used /\ key # 0 => chans[j].key # key
    BY <1>1 DEF Open
  <2>5. i \in Ids
    BY <2>2
  <2> HIDE DEF f, i, u
  <2>6. /\ chans'[i].key = key
        /\ \A j \in Ids : j # i => chans'[j] = chans[j]
    BY <1>a, <2>1, <2>3, <2>5
  <2> QED BY <2>4, <2>5, <2>6 DEF OneChannelPerKey
<1>2. ASSUME NEW s \in Slots, Send(s) \/ SendParks(s) \/ Recv(s) \/ RecvParks(s)
      PROVE  OneChannelPerKey'
  BY <1>b, <1>2, NamesKept
<1>3. CASE UNCHANGED chans
  BY <1>3, <1>b
<1> QED BY <1>1, <1>2, <1>3 DEF Next, Syscall, vars, Begin, Refuse, Wake, Signal, Die, Reuse

(* A key other than 0 names one channel, for any number of channels, tasks   *)
(* and keys and however opens, sends, receives and deaths interleave.       *)
THEOREM KeysUnique == Spec => []OneChannelPerKey
<1>1. Init => OneChannelPerKey
  BY DEF Init, OneChannelPerKey, Fresh
<1>2. TypeOK /\ OneChannelPerKey /\ [Next]_vars => OneChannelPerKey'
  BY KeyStep
<1> QED BY <1>1, <1>2, IpcTypeCorrect, PTL DEF Spec
=============================================================================
