------------------------------ MODULE MCUdpLib ------------------------------
(* Instances of UdpLib for TLC. *)
EXTENDS UdpLib

CONSTANTS owner, listener, sender, hello
=============================================================================
