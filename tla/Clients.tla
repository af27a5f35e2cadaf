----------------------------- MODULE Clients -----------------------------
(***************************************************************************)
(* The slots of the clients: who is in which, from a connection until the  *)
(* slot is free again, through reconnections, drops, timeouts, changes of  *)
(* map and the replay of a server-side demo, which puts its players into   *)
(* the first slots.                                                        *)
(*                                                                         *)
(* An address with its qport is a player.  The states from CS_CONNECTED up *)
(* are one here; Session tells them apart.  Time is counted in frames; a   *)
(* change of map, 300 ms, takes none.  Left out are challenges, bans and   *)
(* the other reasons to refuse a connection without a change of state,     *)
(* bots, local clients, and demos that stand still.                        *)
(***************************************************************************)
EXTENDS Integers, FiniteSets, FiniteSetsExt

CONSTANTS
    Player,
    Nobody, Loopback,      \* no address; that of a recorded player
    NumSlots,              \* sv_maxclients
    sv_privateClients,
    Recorded,              \* the slots of the players in the demo
    sv_timeout,
    sv_zombietime,
    sv_reconnectlimit,
    MaxTimeoutCount        \* 5

ASSUME ClientsAssumption ==
    /\ {Nobody, Loopback} \cap Player = {} /\ Nobody # Loopback
    /\ NumSlots \in Nat \ {0}
    /\ sv_privateClients \in 0..NumSlots
    /\ Recorded \subseteq 0..(NumSlots - 2) /\ Recorded # {}
    /\ sv_zombietime < sv_timeout + MaxTimeoutCount
    /\ {sv_timeout, sv_zombietime, sv_reconnectlimit, MaxTimeoutCount} \subseteq Nat

VARIABLES
    clients,               \* svs.clients
    inGame,                \* the clients the game has
    demoState,             \* "DS_NONE", "pending" or "DS_PLAYBACK"
    channel,               \* the slot a player plays in, for all it knows
    kept,                  \* history: slots in use that a demo claimed, and
                           \* zombies it brought back
    ghosts                 \* history: slots a reconnecting client was refused

demo == <<demoState, kept>>
vars == <<clients, inGame, demo, channel, ghosts>>

-----------------------------------------------------------------------------
(* Slots *)

Slot == 0..(NumSlots - 1)
Nowhere == -1

\* What a free slot still holds is never looked at.
Free == [state |-> "CS_FREE", who |-> Nobody, silent |-> 0, connected |-> 0,
         timeoutCount |-> 0, demoClient |-> FALSE]

Used(i) == clients[i].state # "CS_FREE"
Connected(i) == clients[i].state = "CS_CONNECTED"

LongSilent == sv_timeout + MaxTimeoutCount

\* A client when time has passed; no more is told of it than it is looked at.
Older(c) ==
    IF c.state = "CS_FREE" THEN c
    ELSE [c EXCEPT !.silent = Min({@ + 1, LongSilent}),
                   !.connected = Min({@ + 1, sv_reconnectlimit})]

\* SV_DropClient.
Dropped(c) == [c EXCEPT !.state = "CS_ZOMBIE", !.demoClient = FALSE]

\* Mutation: a demo that has yet to start claims nothing.
ReservedWhenPlaying ==
    IF demoState = "DS_PLAYBACK" THEN Max(Recorded) + 1 ELSE 0

SV_DemoReservedClients ==
    IF demoState = "DS_NONE" THEN 0 ELSE Max(Recorded) + 1

-----------------------------------------------------------------------------
(* Connections *)

\* Mutation: a zombie's slot is not taken again.
OwnButZombie(p) ==
    {i \in Slot : Connected(i) /\ i >= SV_DemoReservedClients /\ clients[i].who = p}

\* The slots a player may take again.
Own(p) ==
    {i \in Slot : Used(i) /\ i >= SV_DemoReservedClients /\ clients[i].who = p}

\* The slots a player may be given, with the password or without.
Open(password) ==
    LET start == Max({IF password THEN 0 ELSE sv_privateClients,
                      SV_DemoReservedClients})
    IN  {i \in Slot : i >= start /\ ~Used(i)}

\* SV_DirectConnect: a player asks for a slot, and the game is asked about it.
\* The answer may be lost; the player then asks again.
SV_DirectConnect(p, password) ==
    /\ channel[p] = Nowhere
    /\ \A i \in Slot :
          (Used(i) /\ clients[i].who = p) => clients[i].connected >= sv_reconnectlimit
    /\ Own(p) \cup Open(password) # {}
    /\ LET i == IF Own(p) # {} THEN Min(Own(p)) ELSE Min(Open(password))
       IN  \/ /\ clients' = [clients EXCEPT
                      ![i] = [Free EXCEPT !.state = "CS_CONNECTED", !.who = p]]
              /\ inGame' = inGame \cup {i}
              /\ ghosts' = ghosts \ {i}
              /\ channel' \in {channel, [channel EXCEPT ![p] = i]}
              /\ UNCHANGED demo
           \/ \* the game refuses
              /\ clients' = [clients EXCEPT ![i] = Free]
              /\ kept' = kept \ {i}
              /\ ghosts' = IF i \in inGame THEN ghosts \cup {i} ELSE ghosts
              /\ UNCHANGED <<inGame, demoState, channel>>

\* A packet is for the first slot of its sender; only the channel it was sent
\* on takes it.
Reached(p) ==
    LET mine == {i \in Slot : Used(i) /\ clients[i].who = p}
    IN  {i \in mine : i = Min(mine) /\ i = channel[p]}

\* SV_PacketEvent.
SV_PacketEvent(p) ==
    \E i \in Reached(p) :
        /\ Connected(i)
        /\ clients' = [clients EXCEPT ![i].silent = 0]
        /\ UNCHANGED <<inGame, demo, channel, ghosts>>

\* SV_Disconnect_f: the last packet of a player.
SV_Disconnect_f(p) ==
    /\ channel' = [channel EXCEPT ![p] = Nowhere]
    /\ \E i \in Reached(p) :
          /\ Connected(i)
          /\ clients' = [clients EXCEPT ![i] = Dropped([@ EXCEPT !.silent = 0])]
          /\ inGame' = inGame \ {i}
    /\ UNCHANGED <<demo, ghosts>>

\* A player is gone without a word, or knows that it was dropped.
Leave(p) ==
    /\ channel[p] # Nowhere
    /\ channel' = [channel EXCEPT ![p] = Nowhere]
    /\ UNCHANGED <<clients, inGame, demo, ghosts>>

\* SV_Kick_f.  The zombie's time starts with the kick.
SV_Kick_f(i) ==
    /\ Connected(i)
    /\ clients' = [clients EXCEPT ![i] = Dropped([@ EXCEPT !.silent = 0])]
    /\ inGame' = inGame \ {i}
    /\ UNCHANGED <<demo, channel, ghosts>>

\* The game or a full command ring drops a client: the zombie's time started
\* when the client was last heard.
SV_DropClient(i) ==
    /\ Connected(i)
    /\ clients' = [clients EXCEPT ![i] = Dropped(@)]
    /\ inGame' = inGame \ {i}
    /\ UNCHANGED <<demo, channel, ghosts>>

-----------------------------------------------------------------------------
(* The frame *)

\* The players of a demo that appear in this frame are put into their slots.
\* Whoever is in a slot of the demo counts as heard, its player or not.
Replayed(cs, appear) ==
    [i \in Slot |->
        IF i \in appear
        THEN [cs[i] EXCEPT !.state = "CS_CONNECTED", !.who = Loopback,
                           !.demoClient = TRUE, !.silent = 0]
        ELSE IF i < SV_DemoReservedClients /\ cs[i].state # "CS_FREE"
        THEN [cs[i] EXCEPT !.silent = 0]
        ELSE cs[i]]

\* Mutation: the count starts again when it is full.
TimeoutCountRound(c) ==
    IF c.state = "CS_CONNECTED" /\ c.silent > sv_timeout
    THEN [c EXCEPT !.timeoutCount = (@ + 1) % (MaxTimeoutCount + 1)]
    ELSE [c EXCEPT !.timeoutCount = 0]

TimeoutCount(c) ==
    IF c.state = "CS_CONNECTED" /\ c.silent > sv_timeout
    THEN [c EXCEPT !.timeoutCount = @ + 1]
    ELSE [c EXCEPT !.timeoutCount = 0]

\* Mutation: one frame more.
TimedOutLate(c) == c.timeoutCount > MaxTimeoutCount + 1

TimedOut(c) == c.timeoutCount > MaxTimeoutCount

ZombieExpired(c) == c.state = "CS_ZOMBIE" /\ c.silent > sv_zombietime

\* SV_CheckTimeouts, at the end of a frame.
SV_CheckTimeouts(cs, game) ==
    LET counted == [i \in Slot |-> TimeoutCount(cs[i])]
        out == {i \in Slot : TimedOut(counted[i])}
        freed == out \cup {i \in Slot : ZombieExpired(cs[i])}
    IN  /\ clients' = [i \in Slot |-> IF i \in freed THEN Free ELSE counted[i]]
        /\ inGame' = game \ out
        /\ kept' = kept \ freed

\* SV_Frame.
SV_Frame ==
    LET old == [i \in Slot |-> Older(clients[i])]
    IN  /\ IF demoState = "DS_PLAYBACK"
           THEN \E appear \in SUBSET Recorded :
                   SV_CheckTimeouts(Replayed(old, appear),
                       inGame \cup {i \in appear : ~Connected(i)})
           ELSE SV_CheckTimeouts(old, inGame)
        /\ UNCHANGED <<demoState, channel, ghosts>>

-----------------------------------------------------------------------------
(* Maps and demos *)

\* Mutation: a client the new game refuses stays as it is.
ReconnectedAnyway(denied) == clients

\* The clients in a new map: the game is asked about those connected.
Reconnected(denied) ==
    [i \in Slot |-> IF i \in denied THEN Dropped(clients[i]) ELSE clients[i]]

\* SV_DemoStartPlayback: the slots of the demo are cleared, then all that are
\* not free get a gamestate.
StartPlayback(cs, game) ==
    LET dropped == {i \in Slot : /\ i < SV_DemoReservedClients
                                 /\ cs[i].state # "CS_FREE"
                                 /\ ~cs[i].demoClient}
    IN  /\ clients' = [i \in Slot |->
                          IF cs[i].state = "CS_FREE" \/ cs[i].demoClient THEN cs[i]
                          ELSE [cs[i] EXCEPT !.state = "CS_CONNECTED"]]
        /\ inGame' = game \ {i \in dropped : cs[i].state = "CS_CONNECTED"}
        /\ demoState' = "DS_PLAYBACK"
        /\ kept' = kept \cup dropped \cup {i \in Slot : cs[i].state = "CS_ZOMBIE"}

\* SV_SpawnServer: a new map, and the demo that waits for it.
SV_SpawnServer ==
    /\ \E denied \in SUBSET {i \in Slot : Connected(i)} :
          LET cs == Reconnected(denied)
              game == {i \in Slot : Connected(i)} \ denied
          IN  \/ /\ demoState = "pending"
                 /\ StartPlayback(cs, game)
              \/ \* no demo, or it cannot be opened
                 /\ clients' = cs
                 /\ inGame' = game
                 /\ demoState' = "DS_NONE"
                 /\ UNCHANGED kept
    /\ ghosts' = {}
    /\ UNCHANGED channel

\* SV_DemoPlayStart: slots are claimed, and the players told to reconnect.
SV_DemoPlayStart ==
    /\ demoState \in {"DS_NONE", "pending"}
    /\ demoState' = "pending"
    /\ kept' = {i \in Slot : Used(i) /\ i <= Max(Recorded)} \cup kept
    /\ \E told \in SUBSET Player :
          channel' = [p \in Player |-> IF p \in told THEN Nowhere ELSE channel[p]]
    /\ UNCHANGED <<clients, inGame, ghosts>>

\* SV_DemoStopPlayback: the recorded players are dropped.  The former map
\* comes next.
SV_DemoStopPlayback ==
    /\ demoState = "DS_PLAYBACK"
    /\ demoState' = "DS_NONE"
    /\ clients' = [i \in Slot |-> IF clients[i].demoClient THEN Dropped(clients[i])
                                  ELSE clients[i]]
    /\ inGame' = inGame \ {i \in Slot : clients[i].demoClient}
    /\ UNCHANGED <<channel, kept, ghosts>>

-----------------------------------------------------------------------------

Init ==
    /\ clients = [i \in Slot |-> Free]
    /\ inGame = {}
    /\ demoState = "DS_NONE"
    /\ channel = [p \in Player |-> Nowhere]
    /\ kept = {}
    /\ ghosts = {}

Next ==
    \/ \E p \in Player :
          \/ \E password \in BOOLEAN : SV_DirectConnect(p, password)
          \/ SV_PacketEvent(p)
          \/ SV_Disconnect_f(p)
          \/ Leave(p)
    \/ \E i \in Slot : SV_Kick_f(i) \/ SV_DropClient(i)
    \/ SV_Frame
    \/ SV_SpawnServer
    \/ SV_DemoPlayStart
    \/ SV_DemoStopPlayback

Spec == Init /\ [][Next]_vars

\* The server runs its frames.
FairSpec == Spec /\ WF_vars(SV_Frame)

-----------------------------------------------------------------------------
(* Properties *)

\* Every variable has its type, and no client is counted out and still there.
TypeOK ==
    /\ clients \in [Slot -> [state : {"CS_FREE", "CS_ZOMBIE", "CS_CONNECTED"},
                             who : Player \cup {Nobody, Loopback},
                             silent : 0..LongSilent,
                             connected : 0..sv_reconnectlimit,
                             timeoutCount : 0..MaxTimeoutCount,
                             demoClient : BOOLEAN]]
    /\ inGame \subseteq Slot /\ kept \subseteq Slot /\ ghosts \subseteq Slot
    /\ demoState \in {"DS_NONE", "pending", "DS_PLAYBACK"}
    /\ channel \in [Player -> Slot \cup {Nowhere}]

\* No player has two slots, whatever was lost, dropped or timed out between
\* its connections: its packets would go to the first of them
\* (SV_DirectConnect, SV_PacketEvent).  Only a slot that a demo claimed while
\* the player was in it, or brought back, may be its second.
OneSlot ==
    \A p \in Player :
        Cardinality({i \in Slot \ kept : Used(i) /\ clients[i].who = p}) <= 1

\* The game has the clients that are connected and no other, through drops,
\* refusals, changes of map and replays (SV_DropClient, SV_SpawnServer,
\* SV_DemoReadClientConfigString): all but those a demo found and
\* those it refused when they reconnected.
GameAgrees ==
    \A i \in Slot \ (kept \cup ghosts) : Connected(i) <=> i \in inGame

\* The slots of a demo have none but its players in them, and whoever was
\* there when it claimed them (SV_DemoReservedClients).
ReservedKept ==
    \A i \in Slot : (Used(i) /\ i < SV_DemoReservedClients) =>
        \/ i \in kept
        \/ clients[i].who = Loopback

\* A slot in use for which no player sends packets, nor asked just now.
Orphan(i) ==
    /\ Used(i) /\ ~clients[i].demoClient
    /\ clients[i].connected > 0
    /\ \A p \in Player : i \notin Reached(p)

\* The frames of a replay keep whoever is in its slots from timing out.
HeldByReplay(i) == demoState = "DS_PLAYBACK" /\ i < SV_DemoReservedClients

\* A slot nobody plays in is free in the end, or its player has connected
\* again (SV_CheckTimeouts), whatever drops and changes of map do with it;
\* unless a replay holds it, or demos, which bring zombies back, are started
\* for ever.
SlotsFreed ==
    <>[][~SV_DemoPlayStart]_demo =>
        \A i \in Slot : Orphan(i) ~> ~Orphan(i) \/ HeldByReplay(i)

\* A recorded player in its slot is a client the game has connected: "the
\* game only creates those in GAME_CLIENT_CONNECT - ClientBegin alone is not
\* enough", says SV_DemoReadClientConfigString.
EmulatedInGame ==
    \A i \in Slot : clients[i].demoClient => i \in inGame
=============================================================================
