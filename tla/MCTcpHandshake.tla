--------------------------- MODULE MCTcpHandshake ---------------------------
(* An instance of TcpHandshake for TLC. *)
EXTENDS TcpHandshake

CONSTANT peer     \* the application that sends
=============================================================================
