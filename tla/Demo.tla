------------------------------ MODULE Demo ------------------------------
(***************************************************************************)
(* Server-side demos: what a recorded game writes, and what a server that  *)
(* plays it back shows to its spectators while its own game runs on.       *)
(*                                                                         *)
(* Structures are recorded raw, as the words that changed since they were  *)
(* last written; the reader patches its own copies.  Configstrings and     *)
(* commands of players are recorded when they occur, everything else at    *)
(* the end of a server frame.                                              *)
(*                                                                         *)
(* What the player does depends only on the records it has read, so a      *)
(* frame is played as soon as it is recorded: the file holds the records   *)
(* not yet played.  Who may connect during a demo is in Clients.           *)
(*                                                                         *)
(* An entity has the words the code treats apart.  Broadcast commands,     *)
(* cvars, fast forward (more frames in a row) and full files are left out. *)
(*                                                                         *)
(* The recorded game may drop the player while it thinks, and the rest of  *)
(* its packet is recorded all the same.  The replaying game may drop it    *)
(* between two frames.                                                     *)
(***************************************************************************)
EXTENDS Integers, Sequences, FiniteSets, SequencesExt, TLC

CONSTANTS
    Entity,        \* entity numbers
    Pos,           \* where an entity is
    Command,       \* what a player's usercmd_t holds
    MaxLinks,      \* bound: linkcount
    MaxRecords     \* bound: records of a frame not written at its end

ASSUME DemoAssumption ==
    /\ Pos \subseteq Nat /\ 0 \in Pos
    /\ 0 \in Command
    /\ MaxLinks \in Nat /\ MaxRecords \in Nat

VARIABLES
    world, strings, ps,       \* the recorded game: entities, configstrings,
                              \* the state of its player
    base, cmdBase, psBase,    \* sv.demoEntities, sv.demoUserCmds,
                              \* sv.demoPlayerStates of its server
    file,                     \* records not yet played
    kicked,                   \* the last command of the player had it dropped,
                              \* and more of its packet may follow
    given,                    \* history: commands of the player this frame, and
                              \* whether the recorded game was given them
    replay,                   \* the server that plays the demo
    shown                     \* history: who ran last on it, demo or game

live == <<world, strings, ps>>
recorder == <<base, cmdBase, psBase, file>>
vars == <<live, recorder, kicked, given, replay, shown>>

-----------------------------------------------------------------------------
(* Structures *)

\* ET_MOVER entities: all of them.  trType is TR_LINEAR or TR_LINEAR_STOP.
StateWord == {"pos", "trType"}
\* absmin and absmax are where the entity was linked.
SharedWord == {"linked", "linkcount", "abs"}
Zero == [w \in StateWord \cup SharedWord |->
            IF w = "linked" THEN FALSE
            ELSE IF w = "trType" THEN "linear" ELSE 0]

\* The words of to that differ from from.
DemoW_Delta(from, to, words) ==
    [w \in {x \in words : from[x] # to[x]} |-> to[w]]

DemoR_Delta(from, delta) == delta @@ from

\* Where an entity is in the world that is not.
Nowhere == -1

SV_LinkEntity(e) ==
    [e EXCEPT !.linked = TRUE, !.linkcount = @ + 1, !.abs = e.pos]

-----------------------------------------------------------------------------
(* Configstrings *)

\* CS_PLAYERS of the one player, and any other that is recorded: CS_SYSTEMINFO
\* and CS_SERVERINFO are not.
Index == {"player", "other"}
String == {"", "a", "A"}

\* Equal for Q_stricmp.
Fold(s) == IF s = "A" THEN "a" ELSE s
Same(s, t) == Fold(s) = Fold(t)

\* SV_DemoWriteConfigString with SV_DemoCheckConfigString: an empty string of
\* a player is not recorded.
DemoWriteConfigString(i, s) ==
    IF i = "player" /\ s = "" THEN <<>>
    ELSE <<[type |-> IF i = "player" THEN "clientconfigstring"
                     ELSE "configstring", index |-> i, string |-> s]>>

-----------------------------------------------------------------------------
(* The recorded game *)

\* A player is in the game as long as the game keeps a string of it.
InGame == strings["player"] # ""

\* The frame is recorded, and the recorded game waits for it to be played.
Complete == file # <<>> /\ Last(file).type = "frame"

\* An entity moves, with a new link or not, is taken out of the world, stops
\* or is freed.
EntityChange(e, sector) ==
    {c \in
       {[entity |-> SV_LinkEntity([e EXCEPT !.pos = p]), sector |-> p] : p \in Pos}
       \cup {[entity |-> x, sector |-> sector] :
                 x \in {[e EXCEPT !.pos = p] : p \in Pos}
                       \cup {[e EXCEPT !.trType = t] : t \in {"linear", "stop"}}}
       \cup {[entity |-> x, sector |-> Nowhere] :
                 x \in {[e EXCEPT !.linked = FALSE], Zero}} :
     c.entity.linkcount <= MaxLinks}

GameChanges(e) ==
    /\ ~Complete
    /\ world' \in {[world EXCEPT ![e] = c.entity] :
                      c \in EntityChange(world[e], Nowhere)}
    /\ kicked' = FALSE
    /\ UNCHANGED <<strings, ps, recorder, given, replay, shown>>

\* The player's state changes.  The words that tell it is dead are left out:
\* a replay overwrites them.
PlayerChanges ==
    /\ ~Complete
    /\ ps' = ~ps
    /\ kicked' = FALSE
    /\ UNCHANGED <<world, strings, recorder, given, replay, shown>>

\* SV_SetConfigstring while recording.
SV_SetConfigstring(i, s) ==
    /\ ~Complete
    /\ s # strings[i]
    /\ Len(file) < MaxRecords
    /\ strings' = [strings EXCEPT ![i] = s]
    /\ file' = file \o DemoWriteConfigString(i, s)
    /\ kicked' = FALSE
    /\ UNCHANGED <<world, ps, base, cmdBase, psBase, given, replay, shown>>

\* The game may drop a player that thinks: it has no string any more, and that
\* is not recorded.  The rest of its packet follows.
Thinks ==
    \/ UNCHANGED <<strings, kicked>>
    \/ InGame /\ strings' = [strings EXCEPT !["player"] = ""] /\ kicked' = TRUE

\* SV_DemoWriteUserCmd
DemoWriteUserCmd(cmd) ==
    file' = Append(file, [type |-> "usercmd",
                          delta |-> IF cmd = cmdBase THEN <<>> ELSE <<cmd>>])

\* Mutation: the command is not remembered for the next delta.
SV_ClientThinkForgets(cmd) ==
    /\ ~Complete /\ (InGame \/ kicked)
    /\ Len(file) < MaxRecords
    /\ DemoWriteUserCmd(cmd)
    /\ Thinks
    /\ given' = Append(given, [cmd |-> cmd, game |-> InGame])
    /\ UNCHANGED <<world, ps, base, cmdBase, psBase, replay, shown>>

\* SV_ClientThink while recording: SV_UserMove starts it for a player in the
\* game, and it records the command before it looks whether the player still is.
SV_ClientThink(cmd) ==
    /\ ~Complete /\ (InGame \/ kicked)
    /\ Len(file) < MaxRecords
    /\ DemoWriteUserCmd(cmd)
    /\ cmdBase' = cmd
    /\ Thinks
    /\ given' = Append(given, [cmd |-> cmd, game |-> InGame])
    /\ UNCHANGED <<world, ps, base, psBase, replay, shown>>

\* SV_DemoWriteEntities: the entities that changed.
EntitiesRecord ==
    [e \in {x \in Entity : world[x] # base[x]} |->
        [state |-> DemoW_Delta(base[e], world[e], StateWord),
         shared |-> DemoW_Delta(base[e], world[e], SharedWord)]]

\* SV_DemoWritePlayerStates: the state of a player in the game, if it changed.
PlayerRecord == IF InGame /\ ps # psBase THEN <<ps>> ELSE <<>>

\* Mutation: the base is only kept of entities whose state changed.
SV_DemoWriteFrameState ==
    /\ ~Complete
    /\ file' = Append(file, [type |-> "frame", entities |-> EntitiesRecord,
                             player |-> PlayerRecord])
    /\ base' = [e \in Entity |->
                   IF \E w \in StateWord : world[e][w] # base[e][w]
                   THEN world[e] ELSE base[e]]
    /\ psBase' = IF InGame THEN ps ELSE psBase
    /\ kicked' = FALSE
    /\ UNCHANGED <<live, cmdBase, given, replay, shown>>

SV_DemoWriteFrame ==
    /\ ~Complete
    /\ file' = Append(file, [type |-> "frame", entities |-> EntitiesRecord,
                             player |-> PlayerRecord])
    /\ base' = world
    /\ psBase' = IF InGame THEN ps ELSE psBase
    /\ kicked' = FALSE
    /\ UNCHANGED <<live, cmdBase, given, replay, shown>>

-----------------------------------------------------------------------------
(* Playing records: what may come of a record, in the set of what may have *)
(* come of those before                                                    *)

\* A call of the game for its player: it may change any configstring and the
\* player's state.  What it does to an entity it may do in its own frame too.
GameCall(r) ==
    {r} \cup {[r EXCEPT !.strings[i] = s] : i \in Index, s \in String}
        \cup {[r EXCEPT !.playerState = b] : b \in BOOLEAN}

\* SV_DemoEnforceTeam: the player's "team" command, at most once in a second of
\* the recording.
EnforceTeam(r) ==
    IF r.active /\ r.stored["player"] # <<>> /\ ~r.throttled
    THEN GameCall([r EXCEPT !.throttled = TRUE])
    ELSE {r}

\* SV_DemoReadConfigString
ReadConfigString(r, rec) ==
    [r EXCEPT !.strings[rec.index] = rec.string,
              !.stored[rec.index] = <<rec.string>>]

\* SV_DemoReadClientConfigString: the slot's player is in the game from now on,
\* GAME_CLIENT_CONNECT and GAME_CLIENT_BEGIN if it was not.
ReadClientConfigString(r, rec) ==
    LET read == [r EXCEPT !.strings[rec.index] = IF Same(@, rec.string) THEN @
                                                 ELSE rec.string,
                          !.stored[rec.index] = <<rec.string>>,
                          !.active = TRUE,
                          !.throttled = FALSE]
    IN  UNION {EnforceTeam(x) : x \in IF r.active THEN {read} ELSE GameCall(read)}

\* SV_DemoReadUserCmd: our copy is patched in any case.
ReadUserCmd(r, rec) ==
    LET cmd == IF rec.delta = <<>> THEN r.cmd ELSE rec.delta[1]
    IN  IF r.active
        THEN GameCall([r EXCEPT !.cmd = cmd, !.seen = TRUE,
                                !.given = Append(@, cmd)])
        ELSE {[r EXCEPT !.cmd = cmd]}

\* SV_DemoThinkClients: a player without any recorded command yet is given an
\* empty one.
Stub == -1
Think(r) ==
    IF r.active /\ ~r.seen THEN GameCall([r EXCEPT !.given = Append(@, Stub)])
    ELSE {r}

\* A mover never stops.
Moving(e) == [e EXCEPT !.trType = "linear"]

\* SV_DemoReadEntities for one entity: our copy with the words of its record.
Recorded(old, rec) ==
    Moving(DemoR_Delta(DemoR_Delta(old, rec.state), rec.shared))

\* It is linked when it was not, or has another linkcount than our copy.
Relinks(old, rec) ==
    LET new == Recorded(old, rec)
    IN  /\ DOMAIN rec.shared # {}
        /\ new.linked
        /\ ~old.linked \/ new.linkcount # old.linkcount

\* Mutation: the entities that are recorded are not remembered.
ReadEntitiesUnused(r, entities) ==
    LET E == DOMAIN entities
        new(e) == IF Relinks(r.base[e], entities[e])
                  THEN SV_LinkEntity(Recorded(r.base[e], entities[e]))
                  ELSE Recorded(r.base[e], entities[e])
    IN  [r EXCEPT
           !.world = [e \in Entity |-> IF e \in E THEN new(e) ELSE @[e]],
           !.base = [e \in Entity |-> IF e \in E THEN new(e) ELSE @[e]]]

\* SV_DemoReadEntities
ReadEntities(r, entities) ==
    LET E == DOMAIN entities
        new(e) == IF Relinks(r.base[e], entities[e])
                  THEN SV_LinkEntity(Recorded(r.base[e], entities[e]))
                  ELSE Recorded(r.base[e], entities[e])
        sector(e) == IF Relinks(r.base[e], entities[e]) THEN new(e).abs
                     ELSE IF r.base[e].linked /\ ~new(e).linked THEN Nowhere
                     ELSE r.sector[e]
    IN  [r EXCEPT
           !.world = [e \in Entity |-> IF e \in E THEN new(e) ELSE @[e]],
           !.base = [e \in Entity |-> IF e \in E THEN new(e) ELSE @[e]],
           !.sector = [e \in Entity |-> IF e \in E THEN sector(e) ELSE @[e]],
           !.used = @ \cup E]

\* SV_DemoReadRefreshEntities: entities and player as they were recorded, at the
\* end of a frame.
Refreshed(r) ==
    [r EXCEPT !.world = [e \in Entity |-> IF e \in r.used THEN r.base[e]
                                          ELSE @[e]],
              !.playerState = r.ps]

Differs(r, i) == r.stored[i] # <<>> /\ ~Same(r.strings[i], r.stored[i][1])

\* SV_DemoReassertConfigstrings for one of them.
PutBack(r, i) == [r EXCEPT !.strings[i] = IF Differs(r, i) THEN r.stored[i][1]
                                          ELSE @]

\* SV_DemoReassertConfigstrings: by index, that of the player first.  The team is
\* put back after it, and the game may set the string of the player again.
Reasserted(r) ==
    LET player == PutBack(r, "player")
        team == IF Differs(r, "player")
                THEN {[x EXCEPT !.put = x.throttled # r.throttled] :
                         x \in EnforceTeam(player)}
                ELSE {player}
    IN  {PutBack(x, "other") : x \in team}

\* Mutation: what the game changed in a configstring is left.
EndFrameStrings(r) == {Refreshed(r)}

\* REC_ENDFRAME, after SV_DemoThinkClients.
EndFrame(r) == {Refreshed(x) : x \in Reasserted(r)}

\* SV_DemoReadFrame, one record.
ReadRecord(r, rec) ==
    CASE rec.type = "configstring" -> {ReadConfigString(r, rec)}
      [] rec.type = "clientconfigstring" -> ReadClientConfigString(r, rec)
      [] rec.type = "usercmd" -> ReadUserCmd(r, rec)
      [] rec.type = "frame" ->
            UNION {EndFrame(x) : x \in
                Think([ReadEntities(r, rec.entities) EXCEPT
                          !.ps = IF rec.player = <<>> THEN @ ELSE rec.player[1]])}

Read(R, rec) == UNION {ReadRecord(r, rec) : r \in R}

-----------------------------------------------------------------------------
(* A frame of the server that plays the demo *)

\* GAME_RUN_FRAME: the game may have its way with an entity, a configstring or
\* the player.
GameRunFrame(r) ==
    GameCall(r)
    \cup {[r EXCEPT !.world[e] = c.entity, !.sector[e] = c.sector] :
             <<e, c>> \in {<<e, c>> \in Entity \X UNION
                             {EntityChange(r.world[x], r.sector[x]) : x \in Entity} :
                               c \in EntityChange(r.world[e], r.sector[e])}}

\* SV_Frame with SV_DemoReadFrame, of the next recorded frame; a second of the
\* recording may have passed since the team was put back.
PlayFrame ==
    /\ Complete
    /\ \E throttled \in {FALSE, replay.throttled} :
          replay' \in FoldLeft(Read,
                              GameRunFrame([replay EXCEPT !.throttled = throttled,
                                                          !.put = FALSE,
                                                          !.given = <<>>]),
                              file)
    /\ file' = <<>>
    /\ given' = <<>>
    /\ shown' = "recorded"
    /\ UNCHANGED <<live, base, cmdBase, psBase, kicked>>

\* A frame that reads nothing, before it: sv_demoFreeze, or slow motion.
SkipFrame ==
    /\ Complete
    /\ replay' \in GameRunFrame(replay)
    /\ shown' = "game"
    /\ UNCHANGED <<live, recorder, kicked, given>>

\* SV_DropClient of the replayed player, before it: the game or an operator
\* kicks it, or it times out during a freeze.
DropReplayed ==
    /\ Complete /\ replay.active
    /\ replay' \in GameRunFrame([replay EXCEPT !.active = FALSE])
    /\ shown' = "game"
    /\ UNCHANGED <<live, recorder, kicked, given>>

-----------------------------------------------------------------------------

\* SV_DemoRecordStart: the configstrings there are, and everything else as a
\* change from zero.
Init ==
    /\ world \in [Entity -> {Zero, SV_LinkEntity(Zero)}]
    /\ strings \in [Index -> {"", "a"}]
    /\ ps \in BOOLEAN
    /\ base = [e \in Entity |-> Zero]
    /\ cmdBase = 0
    /\ psBase = FALSE
    /\ file = DemoWriteConfigString("player", strings["player"])
              \o (IF strings["other"] = "" THEN <<>>
                  ELSE DemoWriteConfigString("other", strings["other"]))
    /\ kicked = FALSE
    /\ given = <<>>
    /\ replay = [world |-> [e \in Entity |-> Zero],
                 base |-> [e \in Entity |-> Zero], used |-> {},
                 sector |-> [e \in Entity |-> Nowhere],
                 strings |-> [i \in Index |-> ""],
                 stored |-> [i \in Index |-> <<>>],
                 active |-> FALSE, cmd |-> 0, seen |-> FALSE, given |-> <<>>,
                 ps |-> FALSE, playerState |-> FALSE,
                 throttled |-> FALSE, put |-> FALSE]
    /\ shown = "game"

Next ==
    \/ \E e \in Entity : GameChanges(e)
    \/ PlayerChanges
    \/ \E i \in Index, s \in String : SV_SetConfigstring(i, s)
    \/ \E cmd \in Command : SV_ClientThink(cmd)
    \/ SV_DemoWriteFrame
    \/ PlayFrame
    \/ SkipFrame
    \/ DropReplayed

Spec == Init /\ [][Next]_vars

-----------------------------------------------------------------------------
(* Properties *)

Struct == [pos : Pos, trType : {"linear", "stop"}, linked : BOOLEAN,
           linkcount : Nat, abs : Pos]

\* Every variable has its type, and the copy the player has of an entity that
\* was not recorded yet is zero.
TypeOK ==
    /\ \A e \in Entity :
          /\ {world[e], base[e], replay.world[e], replay.base[e]} \subseteq Struct
          /\ replay.sector[e] \in Pos \cup {Nowhere}
          /\ e \notin replay.used => replay.base[e] = Zero
    /\ strings \in [Index -> String]
    /\ {ps, psBase, kicked, replay.ps, replay.playerState, replay.active,
        replay.seen, replay.throttled, replay.put} \subseteq BOOLEAN
    /\ {cmdBase, replay.cmd} \subseteq Command
    /\ \A k \in 1..(Len(file) - 1) : file[k].type # "frame"
    /\ replay.strings \in [Index -> String]
    /\ shown \in {"recorded", "game"}

\* After a replayed frame the state of every entity that was ever recorded is
\* that of the recorded frame, but that it never stops, and a player in the
\* recorded game has its recorded state; whatever the server's own game did to
\* them, now or in the frames before, and whatever these left in the copies of
\* both servers (SV_DemoWriteEntities, SV_DemoReadEntities,
\* SV_DemoReadRefreshEntities).  Which entities a spectator is sent depends on
\* where they are linked too: see ReplayLinks.
ReplayShowsRecorded ==
    (shown = "recorded" /\ file = <<>>) =>
        /\ \A e \in Entity : (base[e] # Zero \/ e \in replay.used) =>
              /\ \A w \in {"pos", "linked"} : replay.world[e][w] = base[e][w]
              /\ replay.world[e].trType = "linear"
        /\ InGame => replay.playerState = psBase

\* After a replayed frame the configstrings are, but for the case of letters,
\* those of the recording, although the server's own game changes them; only
\* the string of a player who left stays, and that of a player whose team was
\* put back in this frame is as the game then made it
\* (SV_DemoReassertConfigstrings, SV_DemoEnforceTeam).
ReplayStrings ==
    [][(file # <<>> /\ file' = <<>>) =>
          /\ Same(replay'.strings["other"], strings["other"])
             \/ (strings["other"] = "" /\ replay'.stored["other"] = <<>>)
          /\ strings["player"] # "" =>
                Same(replay'.strings["player"], strings["player"]) \/ replay'.put]_vars

\* The commands recorded while the replayed player is in the game: from the start
\* of the frame, or from the record that brings it in.
IsCommand(rec) == rec.type = "usercmd"
Due ==
    LET joins == {k \in DOMAIN file : file[k].type = "clientconfigstring"}
        before == IF replay.active THEN {}
                  ELSE {k \in DOMAIN file : IsCommand(file[k])
                                            /\ \A j \in joins : k < j}
    IN  SubSeq(given, Cardinality(before) + 1, Len(given))

\* In a frame the game of a replay is given the commands recorded in it while it
\* has the player, in their order, each once and as they were, although it was
\* not given some of those before, which they are changes from; and nothing else,
\* but an empty one in each frame before the first.  The rest of a packet that
\* had its player dropped is among them (SV_DemoWriteUserCmd, SV_DemoReadUserCmd,
\* SV_DemoThinkClients).
ReplayInput ==
    [][(file # <<>> /\ file' = <<>>) =>
          \/ replay'.given = [k \in DOMAIN Due |-> Due[k].cmd]
          \/ Due = <<>> /\ ~replay'.seen /\ replay'.given = <<Stub>>]_vars

\* "so this is exactly the input the live game saw" (SV_ClientThink): a replay
\* gives its game no command the recorded game was not given.
ReplaySameInput ==
    [][(file # <<>> /\ file' = <<>> /\ Len(replay'.given) > 0) =>
          \/ replay'.given = <<Stub>>
          \/ \A k \in DOMAIN Due : Due[k].game]_vars

\* "Restore the raw entity state read from the REC_ENTITIES record"
\* (SV_DemoReadEntities): an entity that the recorded game linked in this frame
\* is linked in the replay, where it was recorded.
ReplayLinks ==
    [][(file # <<>> /\ file' = <<>>) =>
          \A e \in DOMAIN Last(file).entities :
             (base[e].linked /\ "linkcount" \in DOMAIN Last(file).entities[e].shared)
               => replay'.sector[e] = base[e].pos]_vars
=============================================================================
