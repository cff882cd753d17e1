-------------------------- MODULE MCReceptionFlow --------------------------
(* Instances of ReceptionFlow for TLC. *)
EXTENDS ReceptionFlow

CONSTANTS u1, u2    \* two application threads
=============================================================================
