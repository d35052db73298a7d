------------------------------- MODULE MCIpc -------------------------------
(* Programs for model checking Ipc on small rings.                          *)
EXTENDS Ipc

send(i, m) == [kind |-> "send", id |-> i, data |-> m]
recv(i, n) == [kind |-> "recv", id |-> i, len |-> n]

\* Slot 1 sends on two channels; slots 2 and 3 receive from one each, in a loop.
TwoChannels ==
    <<{send(0, <<1, 0>>), send(1, <<1>>)}, {recv(0, 1), recv(0, 2)}, {recv(1, 1)}>>

\* Slot 1 sends and slot 2 receives in a loop.
OneWay ==
    [s \in Slots |-> IF s = 1 THEN {send(0, <<1>>), send(0, <<1, 0>>)}
                     ELSE {recv(0, 1), recv(0, 2)}]

\* Two senders share one channel and one receiver.
TwoSenders ==
    [s \in Slots |-> IF s = 1 THEN {recv(0, 1), recv(0, 2)} ELSE {send(0, <<1, 1>>)}]
=============================================================================
