----------------------------- MODULE MCSysfile -----------------------------
(* Small instances of Sysfile for TLC.                                      *)
EXTENDS Sysfile

F == <<"f">>
D == <<"d">>
DF == <<"d", "f">>
Tree == {F, D, DF}

Rel(parts) == [abs |-> FALSE, parts |-> parts]
Abs(parts) == [abs |-> TRUE, parts |-> parts]
Some == {Rel(F), Abs(D)}
Up == {Rel(<<"..", "f">>), Rel(F), Abs(D)}

CreateOrEdit == {{"CREATE"}, {"RDWR", "CREATE"}}
AllFlags == {{}, {"CREATE"}, {"RDWR"}, {"APPEND"}, {"RDWR", "CREATE"}, {"APPEND", "CREATE"}}
ModelFlags == {{"CREATE"}, {"APPEND"}, {"RDWR", "CREATE"}}
FromEnd == {-1}
PastEnd == {1}
=============================================================================
