------------------------------ MODULE MCFat32 ------------------------------
(* Small instances of Fat32 for TLC.                                        *)
EXTENDS Fat32

\* Two short names, and a long one whose 8.3 form is the first of them.
A == <<"a">>
B == <<"b">>
LongName == <<"a-long-name">>
D == <<"d">>

TwoNames == {A, LongName}
ThreeNames == {A, B, LongName}
OneDir == {D}
Truncate == [n \in {A, B, LongName, D} |-> IF n = LongName THEN A ELSE n]

\* An empty file, one cluster and two.
UpToTwo == {<<>>, <<1>>, <<2, 3>>}
=============================================================================
