-------------------------- MODULE MCConnections --------------------------
(* Two connections of one IP, with a cap for one and a cap for both.        *)
EXTENDS Connections

CONSTANTS c1, c2, ip1

MCConns == {c1, c2}
MCIPs == {ip1}
MCIPOf == [c \in MCConns |-> ip1]
MCCaps == {1, 2}
MCNotifiers == {"vardiff"}
=============================================================================
