--------------------------- MODULE MCNetchan ---------------------------
(* Instances of Netchan for TLC. *)
EXTENDS Netchan

\* With the unit in front of it: a message of one packet, one of exactly
\* FRAGMENT_SIZE, one of two fragments and one of exactly two.
MCBodies == {<<>>, <<11>>, <<21, 22>>, <<31, 32, 33>>}

\* A message of one packet and one of the largest size.
LongBodies == {<<>>, <<41, 42, 43, 44, 45>>}
=============================================================================
