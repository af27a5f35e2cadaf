------------------------------ MODULE MCBans ------------------------------
(* Instances of Bans for TLC. *)
EXTENDS Bans

\* One family, of two bits.
MCBits == [NA_IP |-> 2]
=============================================================================
