----------------------------- MODULE MCDemo -----------------------------
(* Instances of Demo for TLC. *)
EXTENDS Demo

\* No record of an entity depends on a player, nor the other way round; and what
\* is written of the player's state, of its commands and of another configstring
\* does not depend on each other.  Each is explored while the others are empty.
NoEntities == \A e \in Entity : Zero = world[e] /\ Zero = base[e]
                                /\ Zero = replay.world[e]
                                /\ e \notin replay.used
                                /\ Nowhere = replay.sector[e]
NoString(i) == "" = strings[i] /\ "" = replay.strings[i]
               /\ replay.stored[i] = <<>>
               /\ \A k \in DOMAIN file : "index" \in DOMAIN file[k] => i # file[k].index
NoPlayerState == ~ps /\ ~psBase /\ ~replay.ps /\ ~replay.playerState
NoCommand == 0 = cmdBase /\ 0 = replay.cmd /\ <<>> = given /\ ~replay.seen
Apart ==
    /\ \/ NoString("player") /\ NoString("other") /\ NoPlayerState /\ NoCommand
       \/ NoEntities /\ NoPlayerState /\ NoCommand
       \/ NoEntities /\ NoPlayerState /\ NoString("other")
       \/ NoEntities /\ NoCommand /\ NoString("other")
    /\ \A e \in Entity : replay.base[e].linkcount <= MaxLinks + 1
=============================================================================
