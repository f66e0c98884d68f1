----------------------------- MODULE MCTcpServer -----------------------------
(***************************************************************************)
(* The TCP/IP server with two slots and three clients: the slots can all   *)
(* be in use with a client waiting, and a slot can be used again.          *)
(***************************************************************************)
EXTENDS TcpServer
=============================================================================
