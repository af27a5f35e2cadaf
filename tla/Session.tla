---------------------------- MODULE Session ----------------------------
(***************************************************************************)
(* The session of one client: from its connection to the world of the      *)
(* level, over gamestates that get lost, map changes, map restarts and the *)
(* check of its files, with the configstrings it is told.                  *)
(*                                                                         *)
(* A level (map load) or a restart of it has a number, sv.serverId; a      *)
(* client learns it from the systeminfo configstring and puts it into its  *)
(* packets.  A gamestate holds all configstrings; what changes afterwards  *)
(* is sent to an active client as a command and only marked for one that   *)
(* is still loading.                                                       *)
(*                                                                         *)
(* Commands reach a client in order, each once (module ReliableCommands),  *)
(* so a message carries, as values, the configstrings commanded since the  *)
(* last gamestate.  Of message numbers only matters whether they are       *)
(* greater than gamestateMessageNum.  The network is that of Snapshots:    *)
(* the next message takes the place of one not received, and packets come  *)
(* at once while messages come late or never.                              *)
(*                                                                         *)
(* Downloads are in Download, what a gamestate that waits behind other     *)
(* messages does to its number is in Snapshots.                            *)
(***************************************************************************)
EXTENDS Integers, Sequences

CONSTANTS
    Value,         \* what the game sets its configstring to
    MaxId,         \* bound: map loads and restarts
    MaxCommands    \* bound: the client's commands not yet executed

ASSUME SessionAssumption ==
    /\ Value # {}
    /\ MaxId \in Nat \ {0}
    /\ MaxCommands \in Nat

Index == {"systeminfo", "game"}

VARIABLES
    pure,                \* sv_pure
    serverId,
    level,               \* sv.restartedServerId and sv.checksumFeedServerId
    configstrings,       \* systeminfo stands for the sv_serverid in it
    state,               \* client_t.state
    csUpdated,
    pureAuthentic,
    gotCP,
    commanded,           \* configstrings commanded since the last gamestate
    missed,              \* commanded before it, since the client's gamestate
    message,             \* the message in flight
    client,              \* external: the client
    verified,            \* history: number in the last good cp executed
    forced               \* history: a restart put the client into a level it
                         \* had not loaded

server == <<pure, serverId, level, configstrings>>
check == <<pureAuthentic, gotCP>>
told == <<csUpdated, commanded, missed>>
vars == <<server, state, told, check, message, client, verified, forced>>

-----------------------------------------------------------------------------
(* Data *)

Nothing == [kind |-> "none"]

\* The configstrings told, and then those in I as they are in strings.
Tell(f, I, strings) ==
    [i \in I \cup DOMAIN f |-> IF i \in I THEN strings[i] ELSE f[i]]

\* The configstrings strings once f has been executed.
Executed(f, strings) ==
    [i \in Index |-> IF i \in DOMAIN f THEN f[i] ELSE strings[i]]

\* The number a client puts into its packets; 0 before any gamestate.
ClientId == IF client.loaded = 0 THEN 0 ELSE client.strings["systeminfo"]

InUse == state # "zombie"

-----------------------------------------------------------------------------
(* Configstrings *)

\* Mutation: a change while the client loads is forgotten.
ChangeUnmarked(I, strings) ==
    /\ commanded' = IF state = "active" THEN Tell(commanded, I, strings)
                    ELSE commanded
    /\ UNCHANGED <<csUpdated, missed>>

\* SV_SetConfigstring of the indexes in I, while the level runs.
Change(I, strings) ==
    /\ commanded' = IF state = "active" THEN Tell(commanded, I, strings)
                    ELSE commanded
    /\ csUpdated' = IF state = "primed" THEN csUpdated \cup I ELSE csUpdated
    /\ UNCHANGED missed

\* The game sets its configstring to another value.
SV_SetConfigstring(v) ==
    /\ v # configstrings["game"]
    /\ configstrings' = [configstrings EXCEPT !["game"] = v]
    /\ Change({"game"}, configstrings')
    /\ UNCHANGED <<pure, serverId, level, state, check, message, client,
                   verified, forced>>

\* SV_Frame: sv_serverid has changed since the systeminfo was set.
SV_Frame ==
    /\ configstrings["systeminfo"] # serverId
    /\ configstrings' = [configstrings EXCEPT !["systeminfo"] = serverId]
    /\ Change({"systeminfo"}, configstrings')
    /\ UNCHANGED <<pure, serverId, level, state, check, message, client,
                   verified, forced>>

-----------------------------------------------------------------------------
(* Messages to the client *)

\* A message that is no gamestate: the commands it holds.
Snapshot == [kind |-> "snapshot", commanded |-> commanded, missed |-> missed]

\* A snapshot has a number greater than the gamestate's.
SV_SendClientMessages ==
    /\ InUse
    /\ message' = Snapshot
    /\ UNCHANGED <<server, state, told, check, client, verified, forced>>

\* Mutation: a new gamestate does not ask for a new check.
GamestateKeepsCheck ==
    /\ state' = "primed"
    /\ missed' = Tell(missed, DOMAIN commanded, commanded)
    /\ commanded' = <<>>
    /\ message' = [kind |-> "gamestate", level |-> level,
                   strings |-> configstrings]
    /\ UNCHANGED <<server, forced, csUpdated, check>>

\* SV_SendClientGameState, of a client that acknowledged only smaller numbers.
\* The marks of csUpdated stay.
SV_SendClientGameState ==
    /\ state' = "primed"
    /\ pureAuthentic' = 0
    /\ gotCP' = FALSE
    /\ missed' = Tell(missed, DOMAIN commanded, commanded)
    /\ commanded' = <<>>
    /\ message' = [kind |-> "gamestate", level |-> level,
                   strings |-> configstrings]
    /\ UNCHANGED <<server, forced, csUpdated>>

-----------------------------------------------------------------------------
(* Map changes and restarts *)

\* SV_ClientEnterWorld: what is marked is commanded now.
SV_ClientEnterWorld(f, marked, strings) ==
    /\ state' = "active"
    /\ csUpdated' = {}
    /\ commanded' = Tell(f, marked, strings)
    /\ UNCHANGED missed

\* SV_SpawnServer: a client there is waits for the gamestate.  The notices of
\* the map change are messages.
SV_SpawnServer(v) ==
    /\ serverId < MaxId
    /\ serverId' = serverId + 1
    /\ level' = serverId + 1
    /\ configstrings' = [i \in Index |->
                            IF i = "systeminfo" THEN serverId + 1 ELSE v]
    /\ \/ /\ InUse
          /\ state' = "connected"
          /\ message' = Snapshot
       \/ /\ ~InUse
          /\ UNCHANGED <<state, message>>
    /\ forced' = FALSE
    /\ UNCHANGED <<pure, told, check, client, verified>>

\* SV_MapRestart_f: the game starts over and may set its configstring; every
\* client, in whatever state, enters the world.  The systeminfo follows in the
\* next SV_Frame.
SV_MapRestart_f(v) ==
    LET I == IF v = configstrings["game"] THEN {} ELSE {"game"}
        strings == [configstrings EXCEPT !["game"] = v]
    IN  /\ serverId < MaxId
        /\ serverId' = serverId + 1
        /\ configstrings' = strings
        /\ \/ /\ InUse
              /\ SV_ClientEnterWorld(
                    IF state = "active" THEN Tell(commanded, I, strings)
                    ELSE commanded,
                    IF state = "primed" THEN csUpdated \cup I ELSE csUpdated,
                    strings)
              /\ forced' = (client.loaded # level)
           \/ /\ ~InUse
              /\ UNCHANGED <<state, told, forced>>
        /\ UNCHANGED <<pure, level, check, message, client, verified>>

-----------------------------------------------------------------------------
(* A client's packet arrives *)

\* Mutation: vdr leaves the last check's result.
ExecuteKeepsResult(c, command) ==
    IF c.dropped THEN c
    ELSE IF command.kind = "vdr" THEN [c EXCEPT !.gotCP = FALSE]
    ELSE IF ~pure \/ command.id < level THEN c
    ELSE [authentic |-> IF command.good THEN 1 ELSE 0, gotCP |-> TRUE,
          verified |-> IF command.good THEN command.id ELSE c.verified,
          dropped |-> ~command.good]

\* SV_ExecuteClientCommand for vdr (SV_ResetPureClient_f) and cp
\* (SV_VerifyPaks_f).  A bad check drops the client, and the rest of its
\* packet is not read.
Execute(c, command) ==
    IF c.dropped THEN c
    ELSE IF command.kind = "vdr"
    THEN [authentic |-> 0, gotCP |-> FALSE,
          verified |-> c.verified, dropped |-> FALSE]
    ELSE IF ~pure \/ command.id < level THEN c
    ELSE [authentic |-> IF command.good THEN 1 ELSE 0, gotCP |-> TRUE,
          verified |-> IF command.good THEN command.id ELSE c.verified,
          dropped |-> ~command.good]

\* What the first k of the client's commands leave of the check.
Checked(k) ==
    LET after[i \in 0..k] ==
            IF i = 0 THEN [authentic |-> pureAuthentic, gotCP |-> gotCP,
                           verified |-> verified, dropped |-> FALSE]
            ELSE Execute(after[i - 1], client.commands[i])
    IN  after[k]

\* The commands not executed yet, and no others.
Rest(k) == SubSeq(client.commands, k + 1, Len(client.commands))

\* Mutation: only a client that was sent a gamestate is sent another.
ResendToPrimed ==
    /\ ClientId # serverId
    /\ ClientId \notin level..(serverId - 1)
    /\ state = "primed"
    /\ client.later
    /\ SV_SendClientGameState
    /\ client' = [client EXCEPT !.later = FALSE]
    /\ UNCHANGED verified

\* A packet of an earlier level whose client has acknowledged a message after
\* the gamestate: it was lost, and is sent again.
Resend ==
    /\ ClientId # serverId
    /\ ClientId \notin level..(serverId - 1)
    /\ state # "active" /\ InUse
    /\ client.later
    /\ SV_SendClientGameState
    /\ client' = [client EXCEPT !.later = FALSE]
    /\ UNCHANGED verified

\* Any other packet with another number, one of a zombie, or one that asks for
\* a gamestate less than 250 ms after the last.
Ignore ==
    /\ \/ ClientId # serverId
       \/ ~InUse
    /\ UNCHANGED vars

\* A packet of this level with the first k commands, sent before the client had
\* the others: they are executed, and there is no move.  Flood protection keeps a
\* command from the game, and cp and vdr are commands of the server.
SV_ClientCommand(k) ==
    LET c == Checked(k)
    IN  /\ ClientId = serverId /\ InUse
        /\ pureAuthentic' = c.authentic
        /\ gotCP' = c.gotCP
        /\ verified' = c.verified
        /\ state' = IF c.dropped THEN "zombie" ELSE state
        /\ client' = [client EXCEPT !.commands = Rest(k)]
        /\ UNCHANGED <<server, told, message, forced>>

Unchecked(c) == pure /\ c.authentic = 0 /\ ~c.gotCP

\* SV_UserMove after k commands, and no check since the last vdr: an active
\* client gets the gamestate again.
MoveUnchecked(k) ==
    LET c == Checked(k)
    IN  /\ ClientId = serverId /\ ~c.dropped
        /\ Unchecked(c)
        /\ state = "active"
        /\ SV_SendClientGameState
        /\ client' = [client EXCEPT !.commands = Rest(k), !.later = FALSE]
        /\ verified' = c.verified

\* SV_UserMove after k commands: the client's first move puts it into the
\* world, and the game takes the moves.
SV_UserMove(k) ==
    LET c == Checked(k)
    IN  /\ ClientId = serverId /\ ~c.dropped
        /\ ~Unchecked(c)
        /\ state \in {"primed", "active"}
        /\ pureAuthentic' = c.authentic
        /\ gotCP' = c.gotCP
        /\ \/ /\ state = "primed"
              /\ SV_ClientEnterWorld(commanded, csUpdated, configstrings)
           \/ /\ state = "active"
              /\ UNCHANGED <<state, told>>
        /\ client' = [client EXCEPT !.commands = Rest(k)]
        /\ verified' = c.verified
        /\ UNCHANGED <<server, message, forced>>

-----------------------------------------------------------------------------
(* The client *)

Cp(id, good) == [kind |-> "cp", id |-> id, good |-> good]
Vdr == [kind |-> "vdr"]

\* A gamestate is received: the client loads the level and sends its check.
CL_ParseGamestate(good) ==
    /\ message.kind = "gamestate"
    /\ client' = [loaded |-> message.level, strings |-> message.strings,
                  later |-> FALSE,
                  commands |-> Append(client.commands,
                                      Cp(message.strings["systeminfo"], good))]
    /\ message' = Nothing
    /\ missed' = <<>>
    /\ forced' = FALSE
    /\ UNCHANGED <<server, state, csUpdated, commanded, check, verified>>

\* Another message is received, with the commands a client in a level
\* executes.  Those missed are of use to one without the last gamestate.
CL_ParseSnapshot ==
    /\ message.kind = "snapshot"
    /\ client' = [client EXCEPT
                     !.strings = IF client.loaded = 0 THEN @
                                 ELSE Executed(message.commanded,
                                               Executed(message.missed, @)),
                     !.later = TRUE]
    /\ message' = Nothing
    /\ UNCHANGED <<server, state, told, check, verified, forced>>

\* The player restarts the video: the files are loaded, and checked, again.
CL_Vid_Restart(good) ==
    /\ client.loaded # 0 /\ InUse
    /\ Len(client.commands) + 2 <= MaxCommands
    /\ client' = [client EXCEPT !.commands =
                     @ \o <<Vdr, Cp(client.strings["systeminfo"], good)>>]
    /\ UNCHANGED <<server, state, told, check, message, verified, forced>>

-----------------------------------------------------------------------------

\* The client is connected, and has no gamestate.
Init ==
    /\ pure \in BOOLEAN
    /\ serverId = 1 /\ level = 1
    /\ \E v \in Value :
          configstrings = [i \in Index |-> IF i = "systeminfo" THEN 1 ELSE v]
    /\ state = "connected"
    /\ csUpdated = {}
    /\ pureAuthentic = 0 /\ gotCP = FALSE
    /\ commanded = <<>> /\ missed = <<>>
    /\ message = Nothing
    /\ client = [loaded |-> 0, strings |-> configstrings, later |-> TRUE,
                 commands |-> <<>>]
    /\ verified = 0
    /\ forced = FALSE

SV_ExecuteClientMessage ==
    \/ Resend
    \/ Ignore
    \/ \E k \in 0..Len(client.commands) :
          SV_ClientCommand(k) \/ MoveUnchecked(k) \/ SV_UserMove(k)

Next ==
    \/ \E v \in Value :
          \/ SV_SetConfigstring(v)
          \/ SV_SpawnServer(v)
          \/ SV_MapRestart_f(v)
    \/ SV_Frame
    \/ SV_SendClientMessages
    \/ SV_ExecuteClientMessage
    \/ \E good \in BOOLEAN : CL_ParseGamestate(good) \/ CL_Vid_Restart(good)
    \/ CL_ParseSnapshot

\* The server runs its frames; a client goes on sending packets, with moves
\* among them; a message sent again and again arrives.
Fairness ==
    /\ WF_vars(SV_Frame)
    /\ WF_vars(SV_SendClientMessages)
    /\ SF_vars(Resend)
    /\ SF_vars(SV_ClientCommand(Len(client.commands)))
    /\ SF_vars(SV_UserMove(Len(client.commands)))
    /\ SF_vars(\E good \in BOOLEAN : CL_ParseGamestate(good))
    /\ SF_vars(CL_ParseSnapshot)

Spec == Init /\ [][Next]_vars /\ Fairness

-----------------------------------------------------------------------------
(* Properties *)

Strings == [systeminfo : 1..MaxId, game : Value]
CommandedType(f) ==
    /\ DOMAIN f \subseteq Index
    /\ \A i \in DOMAIN f : f[i] \in IF i = "game" THEN Value ELSE 1..MaxId

\* Every variable has its type, and a client has no check without one having
\* been executed.
TypeOK ==
    /\ pure \in BOOLEAN
    /\ serverId \in 1..MaxId
    /\ level \in 1..serverId
    /\ configstrings \in Strings
    /\ configstrings["systeminfo"] \in level..serverId
    /\ state \in {"connected", "primed", "active", "zombie"}
    /\ csUpdated \subseteq Index
    /\ pureAuthentic \in {0, 1}
    /\ gotCP \in BOOLEAN
    /\ pureAuthentic = 1 => gotCP /\ verified # 0
    /\ CommandedType(commanded) /\ CommandedType(missed)
    /\ message.kind \in {"none", "gamestate", "snapshot"}
    /\ client.loaded \in 0..level
    /\ client.strings \in Strings
    /\ verified \in 0..MaxId
    /\ forced \in BOOLEAN

\* A client in the world that has loaded this level and has executed all
\* commands it was sent has the server's configstrings, and one that still
\* loads differs from the server only in what it will be told when it enters:
\* whichever gamestates were lost and whenever the strings changed
\* (SV_SetConfigstring, SV_UpdateConfigstrings).
ConfigstringsCurrent ==
    LET mine == Executed(commanded, Executed(missed, client.strings))
        differing == {i \in Index : mine[i] # configstrings[i]}
    IN  client.loaded = level =>
           /\ state = "active" => differing = {}
           /\ state = "primed" => differing \subseteq csUpdated

\* The game takes a client's move only if the client has loaded the level and,
\* on a pure server, had its files checked for it; except that map_restart may
\* put a client into a level it has not loaded (SV_UserMove, SV_VerifyPaks_f).
PlaysChecked ==
    [][(\E k \in 0..Len(client.commands) : SV_UserMove(k))
         => \/ forced
            \/ /\ client.loaded = level
               /\ pure => verified' >= level]_vars

\* However many gamestates are lost, a client that stays plays the level again
\* and again, with the last configstrings (SV_ExecuteClientMessage).
EntersWorld ==
    []<>(\/ ~InUse
         \/ forced
         \/ state = "active" /\ client.loaded = level)

\* "It will be resent if the client acknowledges a later message but has the
\* wrong gamestate" (the comment of SV_SendClientGameState): a client without
\* the gamestate of the level gets it.
GamestateArrives == []<>(~InUse \/ client.loaded = level)
=============================================================================
