------------------------ MODULE ReliableCommands ------------------------
(***************************************************************************)
(* The reliable server commands of the clients of one server.              *)
(*                                                                         *)
(* Commands are numbered per client and kept in a ring of                  *)
(* MAX_RELIABLE_COMMANDS until the client acknowledges them; every message *)
(* repeats the unacknowledged ones.  A command that does not fit the ring  *)
(* drops the client, and dropping a client sends commands to everybody,    *)
(* which may drop others, or the same client again, from within.           *)
(*                                                                         *)
(* The server is one thread.  Its calls nest, so the calls in progress are *)
(* kept on a stack: a step runs the innermost one up to the next call of   *)
(* SV_AddServerCommand, and nothing else happens until the stack is empty. *)
(*                                                                         *)
(* Messages go over what MessageChannel promises: in order, once, or not   *)
(* at all.  As each message repeats what is not acknowledged, one message  *)
(* and one packet in flight per client show all orders.                    *)
(***************************************************************************)
EXTENDS Integers, Sequences

CONSTANTS
    N,                      \* client slots (sv_maxclients)
    MAX_RELIABLE_COMMANDS,
    MessageCapacity,        \* commands that fit into a message of MAX_MSGLEN
    MaxCommands,            \* bound: commands of the game and the operator
    MaxUpdates,             \* bound: configstrings changed while loading
    MaxRestarts             \* bound: map_restarts

ASSUME ReliableAssumption ==
    /\ N \in Nat \ {0}
    /\ MAX_RELIABLE_COMMANDS \in Nat \ {0}
    /\ MessageCapacity \in Nat
    /\ MaxCommands \in Nat
    /\ MaxUpdates \in Nat
    /\ MaxRestarts \in Nat

Clients == 1..N

VARIABLES
    state,                \* client_t.state
    gamestateSent,        \* client_t.gamestateMessageNum is not -1
    reliableSequence,
    reliableAcknowledge,
    reliableCommands,     \* the ring: index |-> text
    stack,                \* calls in progress, innermost first
    inGame,               \* external: clients the game module has begun
    issued,               \* texts of the game and the operator so far
    restarts,
    message,              \* the message in flight to each client
    packet,               \* the number its packet in flight acknowledges
    received,             \* external: texts each client has, by number
    loaded,               \* external: clients that have parsed a gamestate
    added,                \* history: text given each number
    overflowed            \* history: clients whose ring was overrun

window == <<reliableSequence, reliableCommands, added, overflowed>>
network == <<message, packet, received, loaded>>
vars == <<state, gamestateSent, window, reliableAcknowledge, stack, inGame,
          issued, restarts, network>>

-----------------------------------------------------------------------------
(* Data *)

NoText == [kind |-> "none", n |-> 0]
GameText(n) == [kind |-> "game", n |-> n]
PrintText(c) == [kind |-> "print", n |-> c]
DisconnectText == [kind |-> "disconnect", n |-> 0]

Text == [kind : {"none", "game", "print", "disconnect"}, n : Nat]

Primed(c) == state[c] \in {"primed", "active"}
Connected(c) == state[c] = "connected" \/ Primed(c)

Unacknowledged(c) == reliableSequence[c] - reliableAcknowledge[c]

Index(i) == i % MAX_RELIABLE_COMMANDS

Broadcast(text) == [call |-> "SV_SendServerCommand", text |-> text, next |-> 1]

Drop(c, then) ==
    [call |-> "SV_DropClient", client |-> c, pc |-> "game", then |-> then]

EnterWorld(c, left) ==
    [call |-> "SV_ClientEnterWorld", client |-> c, left |-> left]

\* How many configstrings changed while c was loading.
Updates(c) ==
    {k \in 0..MaxUpdates :
        k > 0 => state[c] = "primed" /\ issued + k <= MaxCommands}

MapRestart(c) == [call |-> "SV_MapRestart_f", client |-> c, pc |-> "command"]

\* SV_DropClient(c) called with caller on the stack: the print to everybody
\* comes first.  A zombie is already dropped.
DropCall(c, then, caller) ==
    IF state[c] = "zombie" THEN caller
    ELSE <<Broadcast(PrintText(c)), Drop(c, then)>> \o caller

-----------------------------------------------------------------------------
(* Adding a command *)

\* Mutation: the test comes one command late.
OverrunLate(c) == Unacknowledged(c) + 1 = MAX_RELIABLE_COMMANDS + 2

\* The number now given overruns the ring.
Overrun(c) == Unacknowledged(c) + 1 = MAX_RELIABLE_COMMANDS + 1

\* Mutation: the slot of the number before.
StoreBehind(c, text) ==
    reliableCommands' =
        [reliableCommands EXCEPT ![c][Index(reliableSequence[c])] = text]

Store(c, text) ==
    reliableCommands' =
        [reliableCommands EXCEPT ![c][Index(reliableSequence[c] + 1)] = text]

\* Mutation: the number is given before the state is tested.
AddBeforeStateTest(c, text, caller) ==
    /\ reliableSequence' = [reliableSequence EXCEPT ![c] = @ + 1]
    /\ stack' = caller
    /\ IF Primed(c)
       THEN added' = [added EXCEPT ![c] = Append(@, text)] /\ Store(c, text)
       ELSE UNCHANGED <<added, reliableCommands>>
    /\ UNCHANGED overflowed

\* SV_AddServerCommand(c, text), to return to caller.
SV_AddServerCommand(c, text, caller) ==
    \/ /\ ~Primed(c)
       /\ stack' = caller
       /\ UNCHANGED window
    \/ /\ Primed(c)
       /\ reliableSequence' = [reliableSequence EXCEPT ![c] = @ + 1]
       /\ added' = [added EXCEPT ![c] = Append(@, text)]
       /\ overflowed' = IF Unacknowledged(c) + 1 > MAX_RELIABLE_COMMANDS
                        THEN overflowed \cup {c} ELSE overflowed
       /\ \/ /\ Overrun(c) /\ gamestateSent[c]
             /\ stack' = DropCall(c, "zombie", caller)
             /\ UNCHANGED reliableCommands
          \/ /\ Overrun(c) /\ ~gamestateSent[c]
             /\ stack' = caller
             /\ UNCHANGED reliableCommands
          \/ /\ ~Overrun(c)
             /\ stack' = caller
             /\ Store(c, text)

-----------------------------------------------------------------------------
(* Steps of the calls in progress *)

\* SV_SendServerCommand(NULL, text): the next slot.
SendServerCommandStep ==
    LET f    == Head(stack)
        rest == IF f.next = N THEN Tail(stack)
                ELSE <<[f EXCEPT !.next = @ + 1]>> \o Tail(stack)
    IN  /\ SV_AddServerCommand(f.next, f.text, rest)
        /\ UNCHANGED <<state, gamestateSent, inGame, issued>>

\* Mutation: the slot is given up, and neither game nor client is told.
DropClientSilently ==
    LET f == Head(stack)
    IN  /\ state' = [state EXCEPT ![f.client] = f.then]
        /\ stack' = Tail(stack)
        /\ UNCHANGED <<window, gamestateSent, inGame, issued>>

\* SV_DropClient after the print: GAME_CLIENT_DISCONNECT, during which the
\* game may broadcast, then the disconnect command, then the new state.
DropClientStep ==
    LET f       == Head(stack)
        at(pc)  == <<[f EXCEPT !.pc = pc]>> \o Tail(stack)
    IN  \/ /\ f.pc = "game"
           /\ inGame' = inGame \ {f.client}
           /\ \/ /\ stack' = at("command")
                 /\ UNCHANGED issued
              \/ /\ issued < MaxCommands
                 /\ issued' = issued + 1
                 /\ stack' = <<Broadcast(GameText(issued'))>> \o at("command")
           /\ UNCHANGED <<window, state, gamestateSent>>
        \/ /\ f.pc = "command"
           /\ SV_AddServerCommand(f.client, DisconnectText, at("state"))
           /\ UNCHANGED <<state, gamestateSent, inGame, issued>>
        \/ /\ f.pc = "state"
           /\ state' = [state EXCEPT ![f.client] = f.then]
           /\ stack' = Tail(stack)
           /\ UNCHANGED <<window, gamestateSent, inGame, issued>>

\* SV_UpdateConfigstrings of SV_ClientEnterWorld, one command per changed
\* configstring, then GAME_CLIENT_BEGIN.
EnterWorldStep ==
    LET f == Head(stack)
    IN  \/ /\ f.left > 0
           /\ issued' = issued + 1
           /\ SV_AddServerCommand(f.client, GameText(issued'),
                <<EnterWorld(f.client, f.left - 1)>> \o Tail(stack))
           /\ UNCHANGED <<state, gamestateSent, inGame>>
        \/ /\ f.left = 0
           /\ inGame' = inGame \cup {f.client}
           /\ stack' = Tail(stack)
           /\ UNCHANGED <<window, state, gamestateSent, issued>>

\* The loop of SV_MapRestart_f: the map_restart command, then into the world,
\* or dropped if the game denies it.  The state is tested before the command
\* only.
MapRestartStep ==
    LET f    == Head(stack)
        rest == IF f.client = N THEN Tail(stack)
                ELSE <<MapRestart(f.client + 1)>> \o Tail(stack)
    IN  \/ /\ f.pc = "command" /\ ~Connected(f.client)
           /\ stack' = rest
           /\ UNCHANGED <<window, state, issued>>
        \/ /\ f.pc = "command" /\ Connected(f.client)
           /\ SV_AddServerCommand(f.client, GameText(issued),
                <<[f EXCEPT !.pc = "enter"]>> \o Tail(stack))
           /\ UNCHANGED <<state, issued>>
        \/ /\ f.pc = "enter"
           /\ state' = [state EXCEPT ![f.client] = "active"]
           /\ \E left \in Updates(f.client) :
                stack' = <<EnterWorld(f.client, left)>> \o rest
           /\ UNCHANGED <<window, issued>>
        \/ /\ f.pc = "enter"
           /\ stack' = DropCall(f.client, "zombie", rest)
           /\ UNCHANGED <<window, state, issued>>

Continue ==
    /\ stack # <<>>
    /\ \/ Head(stack).call = "SV_SendServerCommand" /\ SendServerCommandStep
       \/ Head(stack).call = "SV_DropClient" /\ DropClientStep
       \/ Head(stack).call = "SV_ClientEnterWorld" /\ EnterWorldStep
       \/ /\ Head(stack).call = "SV_MapRestart_f" /\ MapRestartStep
          /\ UNCHANGED <<gamestateSent, inGame>>
    /\ UNCHANGED <<reliableAcknowledge, restarts, network>>

-----------------------------------------------------------------------------
(* Messages *)

\* What of a message matters here: the commands repeated in it, and whether a
\* gamestate follows them.
Commands(c, ack, count) ==
    [first |-> ack + 1, gamestate |-> FALSE,
     texts |-> [k \in 1..count |-> reliableCommands[c][Index(ack + k)]]]

NoMessage == [first |-> 1, gamestate |-> FALSE, texts |-> <<>>]

\* Mutation: from the last acknowledged command on.
UnacknowledgedFrom(c, ack) ==
    LET count == reliableSequence[c] - ack
    IN  IF count \in 1..MessageCapacity
        THEN [Commands(c, ack - 1, count) EXCEPT !.first = @ + 1]
        ELSE NoMessage

\* Mutation: the newest command is left out.
UnacknowledgedButNewest(c, ack) ==
    LET count == reliableSequence[c] - ack - 1
    IN  IF count \in 1..MessageCapacity
        THEN Commands(c, ack, count) ELSE NoMessage

\* The commands of a snapshot to a client that acknowledged ack.  A snapshot
\* that overflows is cleared, commands and all.
UnacknowledgedCommands(c, ack) ==
    LET count == reliableSequence[c] - ack
    IN  IF count \in 1..MessageCapacity
        THEN Commands(c, ack, count) ELSE NoMessage

\* A gamestate that overflows is cut off instead.
GamestateMessage(c, ack) ==
    LET count == reliableSequence[c] - ack
    IN  IF count <= MessageCapacity
        THEN [Commands(c, ack, count) EXCEPT !.gamestate = TRUE]
        ELSE Commands(c, ack, MessageCapacity)

\* External: the client takes the commands newer than its last one.
Last(m) == m.first + Len(m.texts) - 1

Taken(texts, m) ==
    [i \in 1..Last(m) |->
        IF i <= Len(texts) THEN texts[i]
        ELSE IF i >= m.first THEN m.texts[i - m.first + 1] ELSE NoText]

-----------------------------------------------------------------------------
(* Actions, when no call is in progress *)

Idle == stack = <<>>

\* The game or the operator sends a command to one client or to all.
SV_SendServerCommand ==
    /\ Idle
    /\ issued < MaxCommands
    /\ issued' = issued + 1
    /\ \/ /\ stack' = <<Broadcast(GameText(issued'))>>
          /\ UNCHANGED window
       \/ \E c \in Clients :
            /\ Primed(c)
            /\ SV_AddServerCommand(c, GameText(issued'), <<>>)
    /\ UNCHANGED <<state, gamestateSent, reliableAcknowledge, inGame,
                   restarts, network>>

\* Kicked by the operator or dropped by the game.
SV_DropClient(c) ==
    /\ Idle
    /\ Connected(c)
    /\ stack' = DropCall(c, "zombie", <<>>)
    /\ UNCHANGED <<state, gamestateSent, window, reliableAcknowledge, inGame,
                   issued, restarts, network>>

SV_CheckTimeouts(c) ==
    /\ Idle
    /\ \/ /\ state[c] = "zombie"
          /\ state' = [state EXCEPT ![c] = "free"]
          /\ UNCHANGED stack
       \/ /\ Connected(c)
          /\ stack' = DropCall(c, "free", <<>>)
          /\ UNCHANGED state
    /\ UNCHANGED <<gamestateSent, window, reliableAcknowledge, inGame,
                   issued, restarts, network>>

SV_MapRestart_f ==
    /\ Idle
    /\ restarts < MaxRestarts /\ issued < MaxCommands
    /\ restarts' = restarts + 1
    /\ issued' = issued + 1
    /\ inGame' = {}
    /\ stack' = <<MapRestart(1)>>
    /\ UNCHANGED <<state, gamestateSent, window, reliableAcknowledge,
                   network>>

\* A snapshot, for zombies too.
SV_SendClientSnapshot(c) ==
    /\ Idle
    /\ state[c] # "free"
    /\ message' = [message EXCEPT
                     ![c] = UnacknowledgedCommands(c, reliableAcknowledge[c])]
    /\ UNCHANGED <<state, gamestateSent, window, reliableAcknowledge, stack,
                   inGame, issued, restarts, packet, received, loaded>>

SV_SendClientGameState(c) ==
    /\ state' = [state EXCEPT ![c] = "primed"]
    /\ gamestateSent' = [gamestateSent EXCEPT ![c] = TRUE]
    /\ message' =
         [message EXCEPT ![c] = GamestateMessage(c, reliableAcknowledge'[c])]
    /\ UNCHANGED stack

\* The packet of c arrives.  A zombie's is not looked at.  Behind the
\* acknowledgement it holds nothing of interest here, or what makes the
\* server send the gamestate, put c into the world, or drop it.
SV_ExecuteClientMessage(c) ==
    /\ Idle
    /\ Connected(c)
    /\ LET tooOld == packet[c] < reliableSequence[c] - MAX_RELIABLE_COMMANDS
       IN  /\ reliableAcknowledge' =
                [reliableAcknowledge EXCEPT
                    ![c] = IF tooOld THEN reliableSequence[c] ELSE packet[c]]
           /\ \/ UNCHANGED <<state, gamestateSent, stack, message>>
              \/ /\ ~tooOld
                 /\ SV_SendClientGameState(c)
              \/ /\ ~tooOld /\ state[c] = "primed" /\ c \in loaded
                 /\ state' = [state EXCEPT ![c] = "active"]
                 /\ \E left \in Updates(c) :
                      stack' = <<EnterWorld(c, left)>>
                 /\ UNCHANGED <<gamestateSent, message>>
              \/ /\ ~tooOld
                 /\ stack' = DropCall(c, "zombie", <<>>)
                 /\ UNCHANGED <<state, gamestateSent, message>>
    /\ UNCHANGED <<window, inGame, issued, restarts, packet, received, loaded>>

\* External: the message in flight arrives.
CL_ParseServerMessage(c) ==
    /\ message[c] # NoMessage
    /\ message' = [message EXCEPT ![c] = NoMessage]
    /\ received' = IF Last(message[c]) > Len(received[c])
                   THEN [received EXCEPT ![c] = Taken(@, message[c])]
                   ELSE received
    /\ loaded' = IF message[c].gamestate THEN loaded \cup {c} ELSE loaded
    /\ UNCHANGED <<state, gamestateSent, window, reliableAcknowledge, stack,
                   inGame, issued, restarts, packet>>

\* External: the client sends a packet, which acknowledges what it has.
CL_WritePacket(c) ==
    /\ packet' = [packet EXCEPT ![c] = Len(received[c])]
    /\ UNCHANGED <<state, gamestateSent, window, reliableAcknowledge, stack,
                   inGame, issued, restarts, message, received, loaded>>

-----------------------------------------------------------------------------
Init ==
    /\ state = [c \in Clients |-> "connected"]
    /\ gamestateSent = [c \in Clients |-> FALSE]
    /\ reliableSequence = [c \in Clients |-> 0]
    /\ reliableAcknowledge = [c \in Clients |-> 0]
    /\ reliableCommands =
         [c \in Clients |-> [i \in 0..MAX_RELIABLE_COMMANDS-1 |-> NoText]]
    /\ stack = <<>>
    /\ inGame = {}
    /\ issued = 0
    /\ restarts = 0
    /\ message = [c \in Clients |-> NoMessage]
    /\ packet = [c \in Clients |-> 0]
    /\ received = [c \in Clients |-> <<>>]
    /\ loaded = {}
    /\ added = [c \in Clients |-> <<>>]
    /\ overflowed = {}

Next ==
    \/ Continue
    \/ SV_SendServerCommand
    \/ SV_MapRestart_f
    \/ \E c \in Clients :
          \/ SV_DropClient(c)
          \/ SV_CheckTimeouts(c)
          \/ SV_SendClientSnapshot(c)
          \/ SV_ExecuteClientMessage(c)
          \/ CL_ParseServerMessage(c)
          \/ CL_WritePacket(c)

Spec == Init /\ [][Next]_vars

\* Calls return; every client not gone gets snapshots (SV_SendClientMessages
\* runs in every frame) and sends packets, and the network delivers some of
\* both.
Fairness ==
    /\ WF_vars(Continue)
    /\ \A c \in Clients : /\ WF_vars(SV_SendClientSnapshot(c))
                          /\ WF_vars(SV_ExecuteClientMessage(c))
                          /\ WF_vars(CL_ParseServerMessage(c))
                          /\ WF_vars(CL_WritePacket(c))

FairSpec == Spec /\ Fairness

-----------------------------------------------------------------------------
(* Properties *)

Frame ==
    [call : {"SV_SendServerCommand"}, text : Text, next : Clients]
    \cup [call : {"SV_DropClient"}, client : Clients,
          pc : {"game", "command", "state"}, then : {"zombie", "free"}]
    \cup [call : {"SV_ClientEnterWorld"}, client : Clients, left : Nat]
    \cup [call : {"SV_MapRestart_f"}, client : Clients,
          pc : {"command", "enter"}]

Ring == [0..MAX_RELIABLE_COMMANDS-1 -> Text]

\* Types; the last number given is the number of commands added.
TypeOK ==
    /\ state \in [Clients ->
                    {"free", "zombie", "connected", "primed", "active"}]
    /\ gamestateSent \in [Clients -> BOOLEAN]
    /\ reliableSequence \in [Clients -> Nat]
    /\ reliableAcknowledge \in [Clients -> Nat]
    /\ reliableCommands \in [Clients -> Ring]
    /\ stack \in Seq(Frame)
    /\ inGame \subseteq Clients
    /\ issued \in Nat
    /\ restarts \in 0..MaxRestarts
    /\ message \in [Clients -> [first : Nat \ {0}, gamestate : BOOLEAN,
                                texts : Seq(Text)]]
    /\ packet \in [Clients -> Nat]
    /\ received \in [Clients -> Seq(Text)]
    /\ loaded \subseteq Clients
    /\ added \in [Clients -> Seq(Text)]
    /\ \A c \in Clients : reliableSequence[c] = Len(added[c])
    /\ overflowed \subseteq Clients

\* A client whose ring was never overrun has received exactly the commands
\* added for it, from the first on, under the numbers they were given: none
\* is missing, none is another one's text, however many were pending, whatever
\* was lost and whoever was dropped meanwhile.
ReceivedAsAdded ==
    \A c \in Clients \ overflowed :
        /\ Len(received[c]) <= Len(added[c])
        /\ \A i \in 1..Len(received[c]) : received[c][i] = added[c][i]

\* What the client's packets are encoded with: the command they acknowledge.
PacketKey(c) == IF packet[c] = 0 THEN NoText ELSE received[c][packet[c]]

\* SV_Netchan_Decode reads each packet with the text it was encoded with, as
\* long as the ring is not full: the slot of the command acknowledged last
\* is not given to another one.
KeyKept ==
    \A c \in Clients \ overflowed :
        Connected(c) /\ packet[c] >= reliableAcknowledge[c]
        /\ Unacknowledged(c) < MAX_RELIABLE_COMMANDS
        => reliableCommands[c][Index(packet[c])] = PacketKey(c)

\* The same of a full ring too: a client may have MAX_RELIABLE_COMMANDS
\* commands unacknowledged and its packets are still understood.
KeyKeptWhenFull ==
    \A c \in Clients \ overflowed :
        Connected(c) /\ packet[c] >= reliableAcknowledge[c]
        => reliableCommands[c][Index(packet[c])] = PacketKey(c)

\* "If we would be losing an old command that hasn't been acknowledged, we
\* must drop the connection" (comment of SV_AddServerCommand): when all calls
\* have returned no connected client has more commands unacknowledged than
\* the ring holds, also when several clients overran theirs in one broadcast
\* or one did while it entered the world.  Until the first map_restart.
OverrunIsDropped ==
    Idle /\ restarts = 0 =>
        \A c \in Clients :
            Unacknowledged(c) > MAX_RELIABLE_COMMANDS => ~Connected(c)

\* "Client has been disconnected, but don't reuse connection for a couple
\* seconds" (comment of CS_ZOMBIE): a dropped client does not come back.
DroppedStaysDropped ==
    [][\A c \in Clients :
        state[c] = "zombie" => state'[c] \in {"zombie", "free"}]_vars

\* A client with a gamestate that loses its slot while commands are sent to it
\* is told last that it is disconnected, and that command is in the ring.
\* "This will remove the body, among other things" (comment at the call of
\* GAME_CLIENT_DISCONNECT): whoever gives up its slot, a client that overran
\* its ring included, has been removed from the game by then, and does not
\* enter it without a slot; but for one that the configstrings sent by its own
\* SV_ClientEnterWorld overran, which the game begins after it was dropped.
DropIsComplete ==
    [][/\ \A c \in Clients :
            Primed(c) /\ gamestateSent[c] /\ state'[c] = "zombie"
            => reliableCommands'[c][Index(reliableSequence'[c])] = DisconnectText
       /\ \A c \in Clients : Connected(c) /\ ~Connected(c)' => c \notin inGame'
       /\ \A c \in inGame' \ inGame :
            Connected(c)' \/ Unacknowledged(c)' > MAX_RELIABLE_COMMANDS]_vars

\* "A broadcast print added by SV_DropClient() doesn't cause a recursive drop
\* client" (comment of SV_AddServerCommand).
NoRecursiveDrop ==
    \A i, j \in 1..Len(stack) :
        /\ stack[i].call = "SV_DropClient"
        /\ stack[j].call = "SV_DropClient"
        /\ stack[i].client = stack[j].client
        => i = j

\* "The given command will be transmitted to the client" (comment of
\* SV_AddServerCommand): every command a client is given reaches it, unless
\* it is dropped or overran its ring.
CommandReaches ==
    \A c \in Clients : \A n \in 1..MaxCommands :
        reliableSequence[c] >= n ~>
            \/ Len(received[c]) >= n
            \/ ~Connected(c)
            \/ c \in overflowed
=============================================================================
