----------------------------- MODULE RingBuffer -----------------------------
(***************************************************************************)
(* The byte ring that a channel (src/src/ipc.rs) and a pipe                *)
(* (src/src/fs/pipe.rs) are built on: Cap cells, a position `head', a byte *)
(* count, and loops that touch buf[(position + k) % CAP].                  *)
(***************************************************************************)
EXTENDS Integers, Sequences

CONSTANTS Cap,   \* CAP: cells of a ring
          Bytes  \* the byte values that are told apart; 0 is what a fresh ring holds

ASSUME RingAssumption == Cap \in Nat \ {0} /\ 0 \in Bytes

Ring == 0..(Cap - 1)

FreshRing == [j \in Ring |-> 0]

\* for k in 0..len: buf[(pos + k) % CAP] = data[k]
Store(buf, pos, data) ==
    [j \in Ring |-> LET k == (j + Cap - pos) % Cap
                    IN  IF k < Len(data) THEN data[k + 1] ELSE buf[j]]

\* for k in 0..n: out[k] = buf[(pos + k) % CAP]
Load(buf, pos, n) == [i \in 1..n |-> buf[(pos + i - 1) % Cap]]

\* let tail = (head + CAP - count) % CAP
TailOf(head, count) == (head + Cap - count) % Cap
=============================================================================
