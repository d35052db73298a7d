----------------------------- MODULE ByteStream -----------------------------
(***************************************************************************)
(* What a channel promises its users: a bounded FIFO of bytes.  A message  *)
(* enters whole or not at all, bytes leave in the order they entered, none *)
(* is duplicated or invented, and the only bytes ever lost are those of a  *)
(* receiver whose own buffer could not be written.                         *)
(***************************************************************************)
EXTENDS Integers, Sequences

CONSTANTS Ids,      \* the streams
          Users,    \* who sends and receives
          Bytes,    \* byte values
          Cap,      \* most bytes a stream holds
          MaxMsg    \* most bytes one call moves

VARIABLES queue,    \* the bytes in each stream, oldest first
          got       \* the bytes each user was last handed

Messages == UNION {[1..n -> Bytes] : n \in 1..MaxMsg}

Init == queue = [i \in Ids |-> <<>>] /\ got = [u \in Users |-> <<>>]

Put(i, m) ==
    /\ Len(queue[i]) + Len(m) <= Cap
    /\ queue' = [queue EXCEPT ![i] = @ \o m]
    /\ UNCHANGED got

Take(i, n) ==
    /\ n \in 1..Len(queue[i])
    /\ queue' = [queue EXCEPT ![i] = SubSeq(@, n + 1, Len(@))]

Get(u, i, n) == Take(i, n) /\ got' = [got EXCEPT ![u] = SubSeq(queue[i], 1, n)]

Lose(i, n) == Take(i, n) /\ UNCHANGED got

Next ==
    \/ \E i \in Ids : \E m \in Messages : Put(i, m)
    \/ \E i \in Ids : \E n \in 1..MaxMsg : (\E u \in Users : Get(u, i, n)) \/ Lose(i, n)

Spec == Init /\ [][Next]_<<queue, got>>
=============================================================================
