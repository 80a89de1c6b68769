----------------------------- MODULE MCTcpServer -----------------------------
(* A small instance of TcpServer for TLC: two places, three clients, and a *)
(* count that starts at nothing, below the limit, at it, or at its end.    *)
EXTENDS TcpServer, TLC

CONSTANTS k1, k2, k3

ThreeClients == {k1, k2, k3}
Garbage      == {0, 1, 2, CountRange - 1}
=============================================================================
