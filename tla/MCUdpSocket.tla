----------------------------- MODULE MCUdpSocket -----------------------------
(***************************************************************************)
(* Instances of UdpSocket for TLC; the .cfg files give the constants their *)
(* values.                                                                 *)
(***************************************************************************)
EXTENDS UdpSocket
=============================================================================
