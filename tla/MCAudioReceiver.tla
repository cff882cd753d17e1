--------------------------- MODULE MCAudioReceiver ---------------------------
(* Instances of AudioReceiver for TLC. *)
EXTENDS AudioReceiver
=============================================================================
