--------------------------- MODULE MCMediaLibrary ---------------------------
(* Instances of MediaLibrary for TLC. *)
EXTENDS MediaLibrary

CONSTANT shipped     \* the codec library's path
=============================================================================
