---------------------------- MODULE MCAudioSender ----------------------------
(* Instances of AudioSender for TLC. *)
EXTENDS AudioSender
=============================================================================
