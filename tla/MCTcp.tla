------------------------------- MODULE MCTcp -------------------------------
(* Small networks for model checking Tcp.                                   *)
EXTENDS Tcp

\* A client on machine a and a server on machine b.
TwoHosts == {"a", "b"}
ClientServer == {"client", "server"}
PlaceOf == [client |-> "a", server |-> "b"]
RoleOf == [client |-> "client", server |-> "server"]
PeerOf == [client |-> "b", server |-> "a"]

\* Two clients on machine a.
TwoClients == {"client", "other", "server"}
PlaceOfTwo == [client |-> "a", other |-> "a", server |-> "b"]
RoleOfTwo == [client |-> "client", other |-> "client", server |-> "server"]
PeerOfTwo == [client |-> "b", other |-> "b", server |-> "a"]
=============================================================================
