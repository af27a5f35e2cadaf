--------------------------- MODULE Snapshots ---------------------------
(***************************************************************************)
(* Snapshots of the game sent to clients, each as the difference to one    *)
(* the client has.                                                         *)
(*                                                                         *)
(* The server keeps, for each client, the frames of its last PACKET_BACKUP *)
(* messages; a frame points into one ring of entity states all clients     *)
(* share.  A client acknowledges the last message it got; the frame of     *)
(* that number is the base of its next snapshot, unless the frame or its   *)
(* entities may have been overwritten.  Gamestates and map change notices  *)
(* take numbers too, and a message handed over while another is being sent *)
(* in fragments waits, to be numbered when its turn comes.                 *)
(*                                                                         *)
(* A version stands for the contents of an entity and, if it is a          *)
(* client's, of its player state: the time at which they last changed.     *)
(* What an entity's baseline held is its version when the level began.     *)
(*                                                                         *)
(* The network is what MessageChannel promises: a client gets a message    *)
(* late or never, and not after a newer one; the next message takes the    *)
(* place of one not yet received.  A packet of the client tells the server *)
(* nothing of what the client received while it was under way, so a packet *)
(* that comes late is one that comes at once while messages come late.     *)
(***************************************************************************)
EXTENDS Integers, Sequences

CONSTANTS
    N,                       \* client slots (sv_maxclients)
    MaxEntity,               \* entities of the game are 1..MaxEntity
    PACKET_BACKUP,
    Margin,                  \* frames of the backup not used as a base
    MAX_SNAPSHOT_ENTITIES,
    NumSnapshotEntities,     \* svs.numSnapshotEntities
    MaxInt,                  \* nextSnapshotEntities may not reach it
    MapChanges,              \* notices of a map change (SV_SendMapChange)
    Changes,                 \* bound: entities that change in one frame
    MaxSequence,             \* bound: messages to a client
    MaxTick,                 \* bound: frames of the game
    MaxLevel                 \* bound: maps loaded

ASSUME SnapshotsAssumption ==
    /\ N \in Nat \ {0}
    /\ MaxEntity \in Nat /\ MaxEntity >= N
    /\ PACKET_BACKUP \in Nat \ {0}
    /\ Margin \in 0..PACKET_BACKUP
    /\ MAX_SNAPSHOT_ENTITIES \in Nat \ {0}
    /\ NumSnapshotEntities \in Nat
    /\ NumSnapshotEntities >= 3 * N * MAX_SNAPSHOT_ENTITIES
    /\ MaxInt \in Nat /\ MaxInt > NumSnapshotEntities
    /\ MapChanges \in Nat
    /\ Changes \subseteq SUBSET (1..MaxEntity)
    /\ MaxSequence \in Nat /\ MaxTick \in Nat \ {0} /\ MaxLevel \in Nat

Clients == 1..N
Entities == 1..MaxEntity

VARIABLES
    phase,                \* "running", "final" once SV_Shutdown is called
    level,                \* stands for sv.serverId
    tick,                 \* the game's last change
    version,              \* the game's entities: entity |-> last change
    baseline,             \* tick of SV_CreateBaseline
    snapshotEntities,     \* svs.snapshotEntities
    nextSnapshotEntities,
    sent,                 \* snapshots sent to each client this frame
    state,                \* client_t.state
    outgoingSequence,
    gamestateMessageNum,
    deltaMessage,
    uncaught,             \* the first message after a map_restart that the
                          \* client has yet to catch, 0 if there is none
    frames,               \* client_t.frames: slot |-> frame
    sending,              \* the message being sent in fragments, if any
    queue,                \* netchan_start_queue
    message,              \* the message in flight to each client
    client                \* external: the clients

game == <<level, tick, version, baseline>>
ring == <<snapshotEntities, nextSnapshotEntities>>
session == <<state, gamestateMessageNum, deltaMessage, uncaught>>
channel == <<outgoingSequence, sending, queue, message>>
vars == <<phase, game, ring, sent, session, frames, channel, client>>

-----------------------------------------------------------------------------
(* Data *)

EntityState == [number : 0..MaxEntity, version : 0..MaxTick]

NoEntity == [number |-> 0, version |-> 0]

Frame == [first : Nat, num : 0..MAX_SNAPSHOT_ENTITIES, ps : 0..MaxTick]

\* Mutation: an entity seen again through a portal is added again, without a
\* test of the room.
EntityListsAgain(c) ==
    {list \in UNION {[1..k -> Entities \ {c}] :
                        k \in 0..(MAX_SNAPSHOT_ENTITIES + 1)} :
        \A i, j \in DOMAIN list : i < j => list[i] <= list[j]}

\* Sorted lists of entities: what the visible ones come to after qsort, the
\* client's own left out, those that do not fit discarded.  What is visible
\* is left open.
EntityLists(c) ==
    {list \in UNION {[1..k -> Entities \ {c}] :
                        k \in 0..MAX_SNAPSHOT_ENTITIES} :
        \A i, j \in DOMAIN list : i < j => list[i] < list[j]}

Nothing == [kind |-> "none"]
MapChange == [kind |-> "mapchange"]
Cleared == [kind |-> "cleared"]
Gamestate == [kind |-> "gamestate", level |-> level, baseline |-> baseline]

\* A snapshot: how many messages back its base is (0 for none), the entities
\* and player state it was encoded from and to, and the level and baselines
\* they are of.
SnapshotMessage(delta, from, to, psFrom, ps) ==
    [kind |-> "snapshot", level |-> level, delta |-> delta,
     from |-> from, to |-> to, psFrom |-> psFrom, ps |-> ps,
     baseline |-> baseline]

Slot(n) == n % PACKET_BACKUP

\* The entities of frame f, read from a ring.
Read(f, entities) ==
    [i \in 1..f.num |-> entities[(f.first + i - 1) % NumSnapshotEntities]]

-----------------------------------------------------------------------------
(* Delta encoding, and the client's inverse of it *)

\* One turn of the merge of the two sorted lists, which are done up to m.old
\* and m.new: what is written for an entity.  One that did not change takes no
\* bytes.
EmitEntity(from, to, base, m) ==
    LET more == m.old <= Len(from)
        news == m.new <= Len(to)
        e == from[m.old]
        n == to[m.new]
        write(o) == m.ops \cup {o}
    IN  IF more /\ news /\ e = n THEN
            [old |-> m.old + 1, new |-> m.new + 1, ops |-> m.ops]
        ELSE IF more /\ news /\ e.number = n.number THEN
            [old |-> m.old + 1, new |-> m.new + 1,
             ops |-> write([op |-> "delta", number |-> n.number,
                            from |-> e.version, to |-> n.version])]
        ELSE IF news /\ (more => n.number < e.number) THEN
            [old |-> m.old, new |-> m.new + 1,
             ops |-> write([op |-> "new", number |-> n.number,
                            from |-> base, to |-> n.version])]
        ELSE IF more THEN
            [old |-> m.old + 1, new |-> m.new,
             ops |-> write([op |-> "remove", number |-> e.number])]
        ELSE m

SV_EmitPacketEntities(from, to, base) ==
    LET Merge[k \in 0..(Len(from) + Len(to))] ==
            IF k = 0 THEN [old |-> 1, new |-> 1, ops |-> {}]
            ELSE EmitEntity(from, to, base, Merge[k - 1])
    IN  Merge[Len(from) + Len(to)].ops

\* The fields that differ between two versions, applied to a third one, make
\* something else than either.
Wrong == MaxTick + 1
Apply(from, to, own) == IF own = from THEN to ELSE Wrong

\* CL_ParsePacketEntities: the client's entities after a snapshot, from its
\* own copy of the base and its own baselines.
CL_ParsePacketEntities(ops, old, base) ==
    {e \in old : \A o \in ops : o.number # e.number}
    \cup {[number |-> o.number, version |-> Apply(o.from, o.to, base)] :
            o \in {p \in ops : p.op = "new"}}
    \cup UNION {{[number |-> o.number,
                  version |-> Apply(o.from, o.to, e.version)] :
                    e \in {d \in old : d.number = o.number}} :
            o \in {p \in ops : p.op = "delta"}}

-----------------------------------------------------------------------------
(* The channel to a client *)

Busy(c) == sending[c] # <<>> \/ queue[c] # <<>>

\* Netchan_Transmit: a message that fits a packet leaves with the number
\* outgoingSequence; a longer one does when its last fragment has left.  A
\* message that was cleared is empty.
Netchan_Transmit(c, body) ==
    \/ /\ message' = [message EXCEPT ![c] =
                        [number |-> outgoingSequence[c], body |-> body]]
       /\ outgoingSequence' = [outgoingSequence EXCEPT ![c] = @ + 1]
       /\ UNCHANGED sending
    \/ /\ body # Cleared
       /\ sending' = [sending EXCEPT ![c] = <<body>>]
       /\ UNCHANGED <<message, outgoingSequence>>

SV_SendMessageToClient(c, body) ==
    \/ /\ ~Busy(c)
       /\ Netchan_Transmit(c, body)
       /\ UNCHANGED queue
    \/ /\ Busy(c)
       /\ queue' = [queue EXCEPT ![c] = Append(@, body)]
       /\ UNCHANGED <<message, outgoingSequence, sending>>

\* The last fragment leaves, or the next message of the queue is taken.
SV_Netchan_TransmitNextFragment(c) ==
    /\ phase = "running"
    /\ \/ /\ sending[c] # <<>>
          /\ message' = [message EXCEPT ![c] =
                [number |-> outgoingSequence[c], body |-> sending[c][1]]]
          /\ outgoingSequence' = [outgoingSequence EXCEPT ![c] = @ + 1]
          /\ sending' = [sending EXCEPT ![c] = <<>>]
          /\ UNCHANGED queue
       \/ /\ sending[c] = <<>> /\ queue[c] # <<>>
          /\ Netchan_Transmit(c, Head(queue[c]))
          /\ queue' = [queue EXCEPT ![c] = Tail(@)]
    /\ UNCHANGED <<phase, game, ring, sent, session, frames, client>>

-----------------------------------------------------------------------------
(* Building and sending a snapshot *)

Out(c) == outgoingSequence[c]

\* SV_BuildClientSnapshot: the frame of the message to come, its entities
\* copied into the ring.  A zombie's frame has none, and keeps the rest.
BuiltFrame(c, list) ==
    LET f == frames[c][Slot(Out(c))]
    IN  IF state[c] = "zombie" THEN [f EXCEPT !.num = 0]
        ELSE [first |-> nextSnapshotEntities, num |-> Len(list),
              ps |-> version[c]]

BuiltEntities(list) ==
    [i \in DOMAIN list |->
        [number |-> list[i], version |-> version[list[i]]]]

\* The ring with list copied in at the next index.
Copied(list) ==
    [p \in 0..(NumSnapshotEntities - 1) |->
        IF \E i \in DOMAIN list :
              p = (nextSnapshotEntities + i - 1) % NumSnapshotEntities
        THEN BuiltEntities(list)[CHOOSE i \in DOMAIN list :
              p = (nextSnapshotEntities + i - 1) % NumSnapshotEntities]
        ELSE snapshotEntities[p]]

\* Mutation: the test of the entities is missing.
BaseRolledOff(c, next) ==
    IF \/ deltaMessage[c] <= 0
       \/ state[c] # "active"
       \/ Out(c) - deltaMessage[c] >= PACKET_BACKUP - Margin
    THEN 0
    ELSE Out(c) - deltaMessage[c]

\* The base SV_WriteSnapshotToClient settles on, once the snapshot is built
\* and next counts its entities: how many messages back, or 0.
Base(c, next) ==
    IF \/ deltaMessage[c] <= 0
       \/ state[c] # "active"
       \/ Out(c) - deltaMessage[c] >= PACKET_BACKUP - Margin
       \/ frames[c][Slot(deltaMessage[c])].first <= next - NumSnapshotEntities
    THEN 0
    ELSE Out(c) - deltaMessage[c]

\* SV_SendClientSnapshot.  The message may overflow, and is then cleared.
SV_SendClientSnapshot(c, list) ==
    LET built == BuiltFrame(c, list)
        entities == Copied(list)
        next == nextSnapshotEntities + Len(list)
        delta == Base(c, next)
        old == frames[c][Slot(Out(c) - delta)]
        body == SnapshotMessage(delta,
                    IF delta = 0 THEN <<>> ELSE Read(old, entities),
                    Read(built, entities),
                    IF delta = 0 THEN 0 ELSE old.ps,
                    built.ps)
    IN  /\ state[c] = "zombie" => list = <<>>
        /\ frames' = [frames EXCEPT ![c][Slot(Out(c))] = built]
        /\ snapshotEntities' = entities
        /\ nextSnapshotEntities' = next
        /\ SV_SendMessageToClient(c, body) \/ SV_SendMessageToClient(c, Cleared)

\* Mutation: a snapshot is built while messages wait.
SendWhileBusy(c) ==
    /\ phase = "running"
    /\ state[c] # "free"
    /\ sent[c] = 0
    /\ Out(c) < MaxSequence
    /\ sent' = [sent EXCEPT ![c] = 1]
    /\ \E list \in EntityLists(c) : SV_SendClientSnapshot(c, list)
    /\ UNCHANGED <<phase, game, session, client>>

\* SV_SendClientMessages for one client: not while messages wait.  When to
\* send is left open.
SV_SendClientMessages(c) ==
    /\ phase = "running"
    /\ state[c] # "free"
    /\ sent[c] = 0
    /\ ~Busy(c)
    /\ Out(c) < MaxSequence
    /\ sent' = [sent EXCEPT ![c] = 1]
    /\ \E list \in EntityLists(c) : SV_SendClientSnapshot(c, list)
    /\ UNCHANGED <<phase, game, session, client>>

\* SV_FinalMessage: two snapshots to every client, whatever waits.
SV_FinalMessage(c) ==
    /\ phase = "final"
    /\ state[c] \notin {"free", "zombie"}
    /\ sent[c] < 2
    /\ sent' = [sent EXCEPT ![c] = @ + 1]
    /\ \E list \in EntityLists(c) : SV_SendClientSnapshot(c, list)
    /\ UNCHANGED <<phase, game, session, client>>

-----------------------------------------------------------------------------
(* The server's frame, map changes and drops *)

None == [c \in Clients |-> 0]

\* Mutation: room for the final snapshots, but not for a frame before them.
WrappingLate == nextSnapshotEntities >= MaxInt - 2 * N * MAX_SNAPSHOT_ENTITIES

\* The ring's counter nears its limit.
Wrapping == nextSnapshotEntities >= MaxInt - NumSnapshotEntities

\* SV_Frame up to SV_SendClientMessages: the game runs, entities S change.
SV_Frame(S) ==
    /\ phase = "running"
    /\ ~Wrapping
    /\ S # {} => tick < MaxTick
    /\ tick' = IF S = {} THEN tick ELSE tick + 1
    /\ version' = [e \in Entities |-> IF e \in S THEN tick + 1 ELSE version[e]]
    /\ sent' = None
    /\ UNCHANGED <<phase, level, baseline, ring, session, frames, channel,
                    client>>

\* SV_Frame when the counter nears its limit: SV_Shutdown.
SV_FrameWrapping ==
    /\ phase = "running"
    /\ Wrapping
    /\ phase' = "final"
    /\ sent' = None
    /\ UNCHANGED <<game, ring, session, frames, channel, client>>

InUse(c) == state[c] \in {"connected", "primed", "active"}

\* SV_DropClient: what waits in the queue is freed (SV_FreeClient).
SV_DropClient(c) ==
    /\ phase = "running"
    /\ InUse(c)
    /\ state' = [state EXCEPT ![c] = "zombie"]
    /\ queue' = [queue EXCEPT ![c] = <<>>]
    /\ UNCHANGED <<phase, game, ring, sent, gamestateMessageNum, deltaMessage,
                    uncaught, frames, outgoingSequence, sending, message,
                    client>>

\* SV_SpawnServer: the ring is new, the clients wait for the new gamestate, or
\* are dropped if the game denies them (SV_DropClient).  Their frames and
\* acknowledgements stay.  Of the notices to a client the first few fit a
\* packet.
SV_SpawnServer ==
    /\ phase = "running"
    /\ level < MaxLevel /\ tick < MaxTick
    /\ level' = level + 1
    /\ tick' = tick + 1
    /\ version' = [e \in Entities |-> tick + 1]
    /\ baseline' = tick + 1
    /\ snapshotEntities' = [p \in 0..(NumSnapshotEntities - 1) |-> NoEntity]
    /\ nextSnapshotEntities' = 0
    /\ uncaught' = None
    /\ \E denied \in SUBSET {c \in Clients : InUse(c)},
          fit \in [Clients -> 0..MapChanges] :
          LET waiting(k) == [i \in 1..k |-> MapChange]
              told(c) == InUse(c) /\ ~Busy(c)
          IN  /\ state' = [c \in Clients |-> IF c \in denied THEN "zombie"
                                            ELSE IF InUse(c) THEN "connected"
                                            ELSE state[c]]
              /\ queue' = [c \in Clients |->
                     IF c \in denied THEN <<>>
                     ELSE IF told(c) THEN waiting(MapChanges - fit[c] - 1)
                     ELSE IF InUse(c) THEN queue[c] \o waiting(MapChanges)
                     ELSE queue[c]]
              /\ sending' = [c \in Clients |->
                     IF told(c) /\ fit[c] < MapChanges THEN <<MapChange>>
                     ELSE sending[c]]
              /\ outgoingSequence' = [c \in Clients |->
                     IF told(c) THEN Out(c) + fit[c] ELSE Out(c)]
              /\ message' = [c \in Clients |->
                     IF told(c) /\ fit[c] > 0
                     THEN [number |-> Out(c) + fit[c] - 1, body |-> MapChange]
                     ELSE message[c]]
    /\ UNCHANGED <<phase, sent, gamestateMessageNum, deltaMessage,
                    frames, client>>

\* Mutation: the baselines are made again.
MapRestartNewBaselines ==
    /\ phase = "running"
    /\ tick < MaxTick
    /\ uncaught' = outgoingSequence
    /\ tick' = tick + 1 /\ baseline' = tick + 1
    /\ version' = [e \in Entities |-> tick + 1]
    /\ state' = [c \in Clients |-> IF InUse(c) THEN "active" ELSE state[c]]
    /\ deltaMessage' = [c \in Clients |->
                         IF InUse(c) THEN -1 ELSE deltaMessage[c]]
    /\ UNCHANGED <<phase, level, ring, sent, gamestateMessageNum,
                    frames, channel, client>>

\* SV_MapRestart_f: the game starts again in the same level, and every client
\* is put into the world (SV_ClientEnterWorld), also one that has not loaded
\* the level yet, or dropped if the game denies it.  One that its map_restart
\* command drops is put into the world all the same, its queue freed.
SV_MapRestart_f ==
    /\ phase = "running"
    /\ tick < MaxTick
    /\ uncaught' = outgoingSequence
    /\ tick' = tick + 1
    /\ version' = [e \in Entities |-> tick + 1]
    /\ \E denied, overrun \in SUBSET {c \in Clients : InUse(c)} :
          /\ state' = [c \in Clients |-> IF c \in denied THEN "zombie"
                                        ELSE IF InUse(c) THEN "active"
                                        ELSE state[c]]
          /\ deltaMessage' = [c \in Clients |->
                 IF InUse(c) /\ c \notin denied THEN -1 ELSE deltaMessage[c]]
          /\ queue' = [c \in Clients |->
                 IF c \in denied \cup overrun THEN <<>> ELSE queue[c]]
    /\ UNCHANGED <<phase, level, baseline, ring, sent, gamestateMessageNum,
                    frames, outgoingSequence, sending, message, client>>

-----------------------------------------------------------------------------
(* A client's packet arrives *)

SV_SendClientGameState(c) ==
    /\ state' = [state EXCEPT ![c] = "primed"]
    /\ gamestateMessageNum' = [gamestateMessageNum EXCEPT ![c] = Out(c)]
    /\ SV_SendMessageToClient(c, Gamestate)

\* SV_UserMove of a client that has this level's gamestate.  The first move
\* puts it into the world (SV_ClientEnterWorld).
SV_UserMove(c, p) ==
    /\ state' = [state EXCEPT ![c] = IF @ = "primed" THEN "active" ELSE @]
    /\ deltaMessage' = [deltaMessage EXCEPT ![c] =
          IF p.delta /\ state[c] = "active" THEN p.acknowledge ELSE -1]
    /\ uncaught' = [uncaught EXCEPT ![c] = 0]
    /\ UNCHANGED <<gamestateMessageNum, channel>>

\* CL_WritePacket: moves once a gamestate is loaded, from the snapshot the
\* last message was, if it was one.
Packets(c) ==
    {[level |-> client[c].level, acknowledge |-> client[c].sequence,
      move |-> move,
      delta |-> client[c].snap # 0 /\ client[c].snap = client[c].sequence] :
        move \in {FALSE, client[c].level # 0}}

\* Mutation: packets of any level are taken for those of this one.
ExecuteAnyLevel(c, p) ==
    /\ phase = "running"
    /\ InUse(c)
    /\ \/ /\ p.acknowledge >= uncaught[c] /\ p.move
          /\ SV_UserMove(c, p)
       \/ /\ ~p.move /\ p.acknowledge > gamestateMessageNum[c]
          /\ state[c] # "active" /\ Out(c) < MaxSequence
          /\ SV_SendClientGameState(c)
          /\ UNCHANGED <<deltaMessage, uncaught>>
    /\ UNCHANGED <<phase, game, ring, sent, frames, client>>

\* SV_ExecuteClientMessage.  A gamestate is not sent twice within 250 ms.  A
\* client that has not caught the last map_restart is ignored: it may catch it
\* with the first message after it, or later.
SV_ExecuteClientMessage(c, p) ==
    LET resend == state[c] # "active" /\ p.acknowledge > gamestateMessageNum[c]
        recent == gamestateMessageNum[c] # -1
    IN  /\ phase = "running"
        /\ InUse(c)
        /\ \/ /\ p.level # level /\ resend
              /\ Out(c) < MaxSequence
              /\ SV_SendClientGameState(c)
              /\ UNCHANGED <<deltaMessage, uncaught>>
           \/ /\ p.level # level /\ (resend => recent)
              /\ UNCHANGED <<session, channel>>
           \/ /\ p.level = level /\ p.acknowledge >= uncaught[c] /\ p.move
              /\ SV_UserMove(c, p)
           \/ /\ p.level = level /\ (p.move => uncaught[c] # 0)
              /\ UNCHANGED <<session, channel>>
        /\ UNCHANGED <<phase, game, ring, sent, frames, client>>

-----------------------------------------------------------------------------
(* The clients *)

NoSnapshot == [number |-> 0, entities |-> {}, ps |-> 0, to |-> <<>>, psTo |-> 0,
               ready |-> FALSE]

\* client[c]: the level it has loaded, the number of that gamestate, its
\* baselines, the last message it got, the number of its current snapshot and
\* the snapshots it keeps.  One is ready if it is of the level loaded.
NewClient(l, base, number) ==
    [level |-> l, gamestate |-> number, baseline |-> base,
     sequence |-> number, snap |-> 0,
     snapshots |-> [i \in 0..(PACKET_BACKUP - 1) |-> NoSnapshot]]

\* The base of snapshot m, as the client looks it up; 0 is none.
ClientBase(c, m) ==
    IF m.body.delta = 0 THEN NoSnapshot
    ELSE client[c].snapshots[Slot(m.number - m.body.delta)]

BaseHeld(c, m) ==
    m.body.delta # 0 => ClientBase(c, m).number = m.number - m.body.delta

\* CL_ParseSnapshot
CL_ParseSnapshot(c, m) ==
    LET b == m.body
        old == ClientBase(c, m)
        snapshot ==
            [number |-> m.number,
             entities |-> CL_ParsePacketEntities(
                SV_EmitPacketEntities(b.from, b.to, b.baseline),
                old.entities, client[c].baseline),
             ps |-> Apply(b.psFrom, b.ps, old.ps),
             to |-> b.to, psTo |-> b.ps,
             ready |-> b.level = client[c].level]
    IN  IF BaseHeld(c, m)
        THEN [client[c] EXCEPT !.sequence = m.number, !.snap = m.number,
                               !.snapshots[Slot(m.number)] = snapshot]
        ELSE [client[c] EXCEPT !.sequence = m.number]

CL_ParseServerMessage(c) ==
    LET m == message[c]
    IN  /\ m.body # Nothing
        /\ message' = [message EXCEPT ![c] = [number |-> 0, body |-> Nothing]]
        /\ client' = [client EXCEPT ![c] =
              CASE m.body.kind = "gamestate" ->
                        NewClient(m.body.level, m.body.baseline, m.number)
                [] m.body.kind = "snapshot" -> CL_ParseSnapshot(c, m)
                [] OTHER -> [client[c] EXCEPT !.sequence = m.number]]
        /\ UNCHANGED <<phase, game, ring, sent, session, frames,
                        outgoingSequence, sending, queue>>

-----------------------------------------------------------------------------

\* A level is loaded and every slot has just been connected.
Init ==
    /\ phase = "running"
    /\ level = 1 /\ tick = 1 /\ baseline = 1
    /\ version = [e \in Entities |-> 1]
    /\ snapshotEntities = [p \in 0..(NumSnapshotEntities - 1) |-> NoEntity]
    /\ nextSnapshotEntities = 0
    /\ sent = None
    /\ state = [c \in Clients |-> "connected"]
    /\ outgoingSequence = [c \in Clients |-> 1]
    /\ gamestateMessageNum = [c \in Clients |-> -1]
    /\ deltaMessage = None
    /\ uncaught = None
    /\ frames = [c \in Clients |-> [i \in 0..(PACKET_BACKUP - 1) |->
                   [first |-> 0, num |-> 0, ps |-> 0]]]
    /\ sending = [c \in Clients |-> <<>>]
    /\ queue = [c \in Clients |-> <<>>]
    /\ message = [c \in Clients |-> [number |-> 0, body |-> Nothing]]
    /\ client = [c \in Clients |-> NewClient(0, 0, 0)]

Server ==
    \/ \E S \in Changes : SV_Frame(S)
    \/ SV_FrameWrapping
    \/ SV_SpawnServer
    \/ SV_MapRestart_f
    \/ \E c \in Clients :
          \/ SV_SendClientMessages(c)
          \/ SV_FinalMessage(c)
          \/ SV_Netchan_TransmitNextFragment(c)
          \/ SV_DropClient(c)
          \/ \E p \in Packets(c) : SV_ExecuteClientMessage(c, p)

Environment ==
    \E c \in Clients : CL_ParseServerMessage(c)

Next == Server \/ Environment

Spec == Init /\ [][Next]_vars

-----------------------------------------------------------------------------
(* Properties *)

Body ==
    {Nothing, MapChange, Cleared}
    \cup [kind : {"gamestate"}, level : Nat, baseline : Nat]
    \cup [kind : {"snapshot"}, level : Nat, delta : Nat,
          from : Seq(EntityState), to : Seq(EntityState),
          psFrom : 0..MaxTick, ps : 0..MaxTick, baseline : Nat]

Snapshot ==
    [number : Nat, entities : SUBSET [number : Nat, version : Nat], ps : Nat,
     to : Seq(EntityState), psTo : Nat, ready : BOOLEAN]

Slots(S) == [Clients -> [0..(PACKET_BACKUP - 1) -> S]]

\* Every variable has its type: no frame holds more entities than a snapshot
\* may, and a base is never ahead of the message encoded from it.
TypeOK ==
    /\ phase \in {"running", "final"}
    /\ level \in Nat /\ tick \in 0..MaxTick /\ baseline \in 0..MaxTick
    /\ version \in [Entities -> 0..MaxTick]
    /\ snapshotEntities \in [0..(NumSnapshotEntities - 1) -> EntityState]
    /\ nextSnapshotEntities \in Nat
    /\ sent \in [Clients -> 0..2]
    /\ state \in [Clients -> {"free", "zombie", "connected", "primed", "active"}]
    /\ outgoingSequence \in [Clients -> Nat \ {0}]
    /\ gamestateMessageNum \in [Clients -> Nat \cup {-1}]
    /\ deltaMessage \in [Clients -> Nat \cup {-1}]
    /\ uncaught \in [Clients -> Nat]
    /\ frames \in Slots(Frame)
    /\ sending \in [Clients -> Seq(Body)]
    /\ \A c \in Clients : Len(sending[c]) <= 1
    /\ queue \in [Clients -> Seq(Body)]
    /\ message \in [Clients -> [number : Nat, body : Body]]
    /\ client \in [Clients ->
          [level : Nat, gamestate : Nat, baseline : Nat, sequence : Nat,
           snap : Nat, snapshots : [0..(PACKET_BACKUP - 1) -> Snapshot]]]

\* The message that c will have next with a snapshot in it, once it is
\* numbered: the one in flight, or the one being sent in fragments.
Coming(c) ==
    {m \in {message[c]} \cup
            {[number |-> Out(c), body |-> sending[c][i]] :
                i \in DOMAIN sending[c]} :
        m.body.kind = "snapshot"}

\* The base a snapshot is encoded from is one the client still has, and the
\* entities and player state the server read for it, from the shared ring and
\* the frame, are those that were sent: however late the acknowledgement,
\* however many snapshots went through the ring since.  Only a gamestate sent
\* once more (see GamestateOnce) makes a client forget a base that the server
\* still uses.
DeltaBaseIntact ==
    \A c \in Clients : phase = "running" =>
        \A m \in Coming(c) : m.body.delta # 0 =>
            \/ /\ BaseHeld(c, m)
               /\ ClientBase(c, m).to = m.body.from
               /\ ClientBase(c, m).psTo = m.body.psFrom
            \/ client[c].gamestate > m.number - m.body.delta

\* What a client makes of a snapshot, message by message and difference by
\* difference, is what the server built, whatever was lost, fragmented or
\* overwritten since its gamestate, when it has loaded the snapshot's level:
\* map_restart puts clients into the world that have not.
ClientSeesGame ==
    \A c \in Clients : LET s == client[c].snapshots[Slot(client[c].snap)] IN
        client[c].snap # 0 /\ s.ready =>
            /\ s.entities = {s.to[i] : i \in DOMAIN s.to}
            /\ s.ps = s.psTo

\* The counter of the ring never reaches the limit at which
\* SV_BuildClientSnapshot ends the program: SV_Frame notices first, and
\* leaves room for the frame in progress and the final snapshots.
CounterBelowLimit == nextSnapshotEntities < MaxInt

\* The gamestates of this level that c has or may still get.
Gamestates(c) ==
    [flight |-> message[c].body = Gamestate,
     loaded |-> client[c].level = level,
     fragments |-> sending[c] = <<Gamestate>>,
     queued |-> \E i \in DOMAIN queue[c] : queue[c][i] = Gamestate]

\* sv_client.c, SV_SendClientGameState: "It will be resent if the client
\* acknowledges a later message but has the wrong gamestate": a client that
\* has this level's gamestate, or will have it, is not sent another one.
GamestateOnce ==
    \A c \in Clients : \A f, g \in DOMAIN Gamestates(c) :
        Gamestates(c)[f] /\ Gamestates(c)[g] => f = g
=============================================================================
