--------------------------- MODULE MCReliable ---------------------------
(* Instances of ReliableCommands for TLC. *)
EXTENDS ReliableCommands
=============================================================================
