# A verification development of the SoF2Plus server's connection layer

The repository is a Quake III derived engine reduced to the parts a Soldier of
Fortune II server (and the tools around it) needs.  Its program logic, as far as
it is its own and not bundled, generated or geometry, is the *server*
(`src/code/server`) and the *message transport* (`src/code/qcommon/net_chan.c`,
`msg.c`).  These modules model that core, from the wire upwards: the channel,
the commands, sessions, slots, snapshots, downloads, rate limits, bans and
server-side demos.  TLC checks them on small instances, and TLAPS proves most of
their safety properties for all values of the constants.

All paths below are relative to `src/code`.

## 1. Inventory

The server is a single thread.  `Com_Frame` polls events and packets, runs
`SV_Frame`, and in its idle slices `SV_SendQueuedPackets`.  Concurrency comes
from the network (packets of many clients, lost, repeated, reordered), from
nested calls (a handler adds a command, which drops a client, which adds
commands...) and from work left over between frames (fragments, queues,
downloads, zombies).

| Component | State | Operations | Talks to | What makes it correct |
|---|---|---|---|---|
| Network channel: `qcommon/net_chan.c`, `server/sv_net_chan.c` | `netchan_t`: sequence numbers both ways, fragment being sent, reassembly buffer; `client_t.netchan_start_queue` | `Netchan_Transmit`, `…TransmitNextFragment`, `Netchan_Process`, `SV_Netchan_Transmit`, `…TransmitNextFragment`, `…FreeQueue`, encode, decode | called by everything that sends; calls the wire | messages handed up whole, decoded, in order, at most once; on a good wire all of them |
| Reliable server commands: `SV_AddServerCommand`, `SV_SendServerCommand`, `SV_UpdateServerCommandsToClient` | ring `reliableCommands[64]`, `reliableSequence`, `reliableAcknowledge` | add, broadcast, repeat in each message, acknowledge | game, configstrings, session; overflow calls `SV_DropClient` | exactly the commands added arrive, in order; overrun clients are dropped; the ring holds the decoding key |
| Client session: `sv_client.c`, `sv_main.c` | `clientState_t`, `gamestateMessageNum`, `serverId`s, pure flags, times | connect, gamestate, enter world, drop, time out, map change, `map_restart` | commands, channel, game | a client is in the game iff its slot is active; every client gets the current gamestate; old packets are not executed in a new level |
| Reliable client commands: `SV_ClientCommand` | `lastClientCommand`, its text, `nextReliableTime` | execute once, in order, with flood protection | session, downloads, channel key | each executed once, in order; a flooder's do not reach the game |
| Configstrings: `sv_init.c` | `sv.configstrings`, `csUpdated` per client | set, mark, update on entering | commands, gamestate | a client in the world ends up with the server's values |
| Snapshots: `sv_snapshot.c` | frame ring per client, entity ring of the server | build, delta-encode, send, rate delay | channel numbers, acknowledgements | the delta base is a frame the client has and whose entities are intact |
| Downloads: `sv_client.c` | block window, three block counters, EOF flag | begin, read, send, retransmit, acknowledge, stop | client commands, channel queue | the client gets the file's blocks in order and an end |
| Challenges and rate limiting: `SV_GetChallenge`, `SVC_*` | `challenges[]`, leaky buckets and their hash chains | find or allocate, reclaim, count | connectionless packets | a table entry belongs to one address; chains stay consistent |
| Frame and packet scheduling: `SV_Frame`, `SV_SendQueuedPackets`, `SV_RateMsec` | times, residuals, rates | one frame, one idle slice | all of the above | everything pending is sent eventually |
| Operator commands: `sv_ccmds.c` | restart counters | `map`, `map_restart`, `kick` | session | as for the session |
| Bans: `sv_ccmds.c`, `SV_IsBanned` | `serverBans`, the ban file | add, except, delete, flush, load, save | connections | a command bans and admits the addresses it names and no others; the file holds the list |
| Server-side demos: `sv_demo.c` | demo state, reserved slots, recorded streams, copies of all structures on both sides | record, replay | slots, configstrings, commands, the game | a replay shows what was recorded, though the server's own game runs on; its slots and the players' stay apart |
| Game, gametype, bots: `sv_game.c`, `sv_gametype.c`, `sv_bot.c`, `botlib` | game data shared with the VM | system calls | all | dispatch only; the game itself is not in the repository |
| World and collision: `sv_world.c`, `cm_*.c` | sector tree, BSP | link, trace | game, snapshots | floating point geometry |
| Event loop, memory, files, cvars, commands, VM, platform, libraries | | | | sequential or third-party |

Hard to test, and therefore what the properties are for: fragments of two
messages colliding; the key of a message changing between queueing and encoding;
loss, duplication and reordering; boundary lengths; overflow of a ring in the
middle of a broadcast; calls that come back to where they started; slots of a
ring reused while still read; work left behind at shutdown; repeated failure
(a message too large each time it is built).  `PROJECT.json` lists each at its
line, with the property that covers it or the reason none does yet.

## 2. Plan

| Order | Module | State | Abstract specification / composition |
|---|---|---|---|
| 1 | `MessageChannel`, `Netchan` | done | `Netchan` implements `MessageChannel` |
| 2 | `NetchanProofs` | done | type correctness, inductive invariant, delivery, refinement |
| 3 | `ReliableCommands` | done | builds on what `MessageChannel` promises |
| 4 | `Download` | done | window protocol over what `MessageChannel` promises |
| 5 | `Session` | done | one client's way into the world, over what `MessageChannel` and `ReliableCommands` promise |
| 6 | `Snapshots` | done | frames and the shared ring, with the channel's numbering and queue inside |
| 7 | `Clients` | done | all slots: connection, drop, timeout, and the slots of a demo |
| 8 | `Demo` | done | the recorded game, the file and the replaying server in one module |
| 9 | `RateLimit`, `Bans` | done | what the connectionless requests and addresses are limited by |
| 10 | `SessionProofs`, `ClientsProofs`, `ReliableCommandsProofs`, `DownloadProofs`, `BansProofs`, `SnapshotsProofs`, `RateLimitProofs` | done | types and all safety invariants of these components |
| 11 | `DropIsComplete`, `ChainsSound`, `RequestsLimited`, `BucketsBusy` | done | the last safety properties but `Demo`'s; see the end of section 5 |

A layer is used by its promise and not by its module: `Session` lets commands
arrive in order and each once, which `ReliableCommandsProofs` proves of the ring, and
`ReliableCommands`, `Download`, `Session` and `Snapshots` let messages be lost
and not reordered, which `NetchanProofs` proves of the channel.

## 3. What is modelled

### `MessageChannel.tla` — the promise

`accepted` (messages by number), `received`, `last`.  `Accept`, `Deliver` (a
number greater than the last, whole), `Discard` (numbers never received, when a
client is dropped).  Nothing is promised to arrive.

### `Netchan.tla` — one server-to-client channel

| Module | Code |
|---|---|
| `outgoingSequence`, `unsentFragments`, `unsentFragmentStart`, `unsentBuffer` | fields of the server's `netchan_t` |
| `netchan_queue` of `[msg, clientCommandString]` | `netchan_buffer_t` list, `server/server.h:128` |
| `lastClientCommand` | number and text of the last client command executed |
| `incomingSequence`, `fragmentSequence`, `fragmentBuffer` | the `netchan_t` of the other end; `fragmentLength` is the buffer's length |
| `wire` | packets sent; they stay there on an unreliable wire, so each may arrive never, once or often, in any order |
| `transmitted`, `received` | history: what each number was used for, what `Netchan_Process` returned |

Actions: `SendMessage` (any builder handing a message to `SV_Netchan_Transmit`),
`SV_Netchan_TransmitNextFragment`, `SV_Netchan_FreeQueue` (from `SV_FreeClient`),
`SV_ClientCommand`, `SV_FinalMessage` with the shutdown after its second round,
`Receive` (the wire, then `Netchan_Process`).

Data is abstracted to *units*: a unit is a run of bytes that are encoded alike.
The first is the number of the acknowledged client command, which is not
encoded; the others carry the key they were combined with, and read back as
`Garbled` under another key.  `MSG_WriteShort` and `MSG_ReadShort` keep the width
and the sign of the fragment header's field, with the range as the constant
`SHORT_RANGE`.  The number of messages and commands is bounded by `MaxMessages`
and `MaxCommands` (the final message may come on top).

Not in the module: the client-to-server direction (it never fragments in this
code's server; its receiver is the same function), the UDP checksum and qport
words, showpackets output, the reply to an address that changed, and a snapshot
cleared to a lone `svc_EOF`, which carries no acknowledgement.

### `ReliableCommands.tla` — commands, drops and the session around them

| Module | Code |
|---|---|
| `state`, `gamestateSent` | `client_t.state`; `gamestateMessageNum # -1` |
| `reliableSequence`, `reliableAcknowledge`, `reliableCommands` | the same fields; the ring is indexed modulo `MAX_RELIABLE_COMMANDS` |
| `stack` | the C call stack between two calls of `SV_AddServerCommand` |
| `inGame` | clients begun and not disconnected by the game VM (external) |
| `message`, `packet` | one message and one acknowledgement in flight per client; a later one replaces it, which is a loss |
| `received`, `loaded` | the client's own copy (external) |
| `added`, `overflowed` | history |

The stack is the point of the module.  `SV_AddServerCommand` may call
`SV_DropClient`, which broadcasts (so calls `SV_AddServerCommand` for everybody),
runs the game, which may broadcast, and sends the disconnect command; only then
does it change the state.  Each frame has the code's locals: the loop index of
the broadcast, the program counter of the drop, the loop index of
`SV_MapRestart_f`.  One `Continue` step runs the innermost call up to the next
`SV_AddServerCommand`; no other action is enabled until the stack is empty, as
the server is one thread.

Actions: `SV_SendServerCommand` (to one or all), `SV_DropClient`,
`SV_CheckTimeouts` (times left open: any client may time out, any zombie may
expire), `SV_MapRestart_f`, `SV_SendClientSnapshot`, `SV_ExecuteClientMessage`
(acknowledgement, then nothing of interest, a gamestate, entering the world, or
a drop), and the client's `CL_ParseServerMessage` and `CL_WritePacket`.

Abstractions: a command's text is a record of its kind and a number; a message
is the commands in it and whether a gamestate follows; `MessageCapacity` is how
many commands fit into `MAX_MSGLEN` bytes.  The serverId test of
`SV_ExecuteClientMessage` is abstracted to "the client has parsed a gamestate"
(`loaded`).  Where a build option matters, the release build is modelled
(`NDEBUG`: an out-of-range acknowledgement is corrected, the client not
dropped).  When a client fails the pure check the code sets it active and sends
a snapshot just before the drop; in the module that is a snapshot step followed
by the drop.

Not in the module: bots and emulated demo clients (nothing is queued for the
latter; a bot reads its commands directly), a new client in a used slot, a map
change (`SV_SpawnServer`), commands longer than 1022 characters (never added),
the demo writer.  The broadcasts `SV_MapRestart_f` makes before its loop, while
the game starts, are those of a preceding `SV_SendServerCommand`.

### `Download.tla` — files for one client

| Module | Code |
|---|---|
| `downloadName`, `download` | the same fields; `NoFile` is the empty name, `download` whether a file is open |
| `downloadClientBlock`, `downloadCurrentBlock`, `downloadXmitBlock`, `downloadBlocks` | the same fields; the empty block (`Eof`) is a block size of zero |
| `messages`, `commands` | messages sent and not arrived (from `SV_Netchan_Transmit` on), client commands sent and not executed |
| `wanted`, `status`, `got` | the client's side (external) |
| `late` | history: a block was under way to a client that had asked for another file since |

Actions: the three commands `download`, `nextdl`, `stopdl` as
`SV_ExecuteClientCommand` finds them, `SV_WriteDownloadToClient` as
`SV_SendDownloadMessages` calls it (a refusal; or opening, reading up to the
window, and sending one block if there is one), the client, and `Lose`.
`downloadSize`, `downloadCount` and `downloadEOF` are what `ReadTo` says: reading
stops one block, the empty one, after the file's last.  Whether a second has
passed (`downloadSendTime`) is left open.  The counters survive the end of a
download, as in the code: only opening a file resets them.

Not in the module: a read error, the name lookup and checks that decide a
refusal, the width of a block number (16 bits; a file of 65536 blocks wraps it),
`donedl` (it resends the gamestate).

### `Session.tla` — one client's way into the world

| Module | Code |
|---|---|
| `pure`, `serverId`, `level` | `sv_pure`; `sv.serverId`; `sv.restartedServerId`, which is `sv.checksumFeedServerId` too |
| `configstrings` | `sv.configstrings`: the systeminfo, for the server id in it, and one the game sets |
| `state`, `csUpdated`, `pureAuthentic`, `gotCP` | fields of `client_t` |
| `commanded`, `missed` | the configstring commands on their way, since and before the last gamestate |
| `message`, `client` | one message in flight; the client (external) |
| `verified`, `forced` | history |

Actions: `SV_SetConfigstring`, `SV_Frame` (the systeminfo), `SV_SendClientMessages`,
`SV_SpawnServer`, `SV_MapRestart_f`; a packet as `SV_ExecuteClientMessage` splits
it into `Resend` (another level, a later message acknowledged), `Ignore`,
`SV_ClientCommand` (commands only), `MoveUnchecked` and `SV_UserMove` (commands,
then moves); the client loads gamestates, executes commands and restarts its
video.  A packet executes a first part of the client's commands: those the client
had when it sent the packet.  Flood protection only keeps a command from the
game, and `cp` and `vdr` are commands of the server.

Abstractions: of message numbers only whether they are greater than
`gamestateMessageNum`; the check of the files is good or not; a configstring
command is its value (the split of long ones is left out).  The module does not
hold: downloads, which change what is acknowledged when; `sv_pure` changed while
the server runs; a lost command, which drops the client.

### `Clients.tla` — the slots

| Module | Code |
|---|---|
| `clients` | `svs.clients`: state (those from `CS_CONNECTED` up are one), address and qport as `who`, `timeoutCount`, `demoClient`; `silent` and `connected` are the ages of `lastPacketTime` and `lastConnectTime` |
| `inGame` | clients the game VM has connected (external) |
| `demoState` | `sv.demoState`, `sv_demoState` and the demo waiting for its map |
| `channel` | what each player thinks its slot is (external) |
| `kept`, `ghosts` | history: slots the demo claimed while used or revived; slots whose owner the game refused when it reconnected |

Actions: `SV_DirectConnect` (with the game's refusal and a lost answer),
`SV_PacketEvent`, `SV_Disconnect_f`, `Leave`, `SV_Kick_f`, `SV_DropClient`,
`SV_Frame` (with the replay's appearing players and the refresh of the times of
the slots below `sv_democlients`, then `SV_CheckTimeouts`),
`SV_SpawnServer` (with `SV_DemoStartPlayback` when a demo waits),
`SV_DemoPlayStart`, `SV_DemoStopPlayback`.

Time is counted in frames, and ages only as far as they are compared.  Left out:
challenges, bans (`Bans`) and the other refusals that change nothing, bots and
local clients, the limit of connections per address, the port fixups of NAT,
replays that stand still (`sv_demoFreeze`).

### `Snapshots.tla` — frames and the ring of entities

| Module | Code |
|---|---|
| `snapshotEntities`, `nextSnapshotEntities` | `svs.snapshotEntities`, the counter of the ring |
| `frames`, `deltaMessage`, `gamestateMessageNum`, `outgoingSequence`, `state` | the same fields of `client_t` and its `netchan` |
| `uncaught` | the first message after a `map_restart` that the client must have for its packets to be of this server id |
| `version`, `baseline`, `tick`, `level` | the game's entities: a version is the time of an entity's last change |
| `sending`, `queue`, `message` | a message in fragments, `netchan_start_queue`, the message in flight |
| `client` | the client's snapshots and baselines (external) |

Actions: `SV_Frame`, `SV_FrameWrapping` (the shutdown near 2^31),
`SV_SpawnServer` with its notices, which may be cut into fragments, and the game's
refusal of a client, `SV_MapRestart_f`, `SV_DropClient`,
`SV_SendClientMessages`, `SV_FinalMessage`, `SV_Netchan_TransmitNextFragment`,
`SV_ExecuteClientMessage` (acknowledgement, gamestate, move) and the client's
`CL_ParseServerMessage`.  A dropped client is a zombie that is sent empty
snapshots.  `map_restart` puts every connected client into the world, the ones
without this level's gamestate too; a client's packets are of the new server id
from the message on that tells it (`uncaught`).
`SV_EmitPacketEntities` is the code's merge of two sorted lists; that the client
reads back what was merged is checked for all lists over three entities as an
assumption of `MCSnapshots`, and proved for all lists (`MergeReadsBack`).
Visibility is left open: any entities may be in a snapshot.  Left out: rates,
areas, the coding of fields, the timeout and reuse of a zombie's slot, downloads.

### `RateLimit.tla` — the buckets

`buckets` and `bucketHashes` are the array and the chain heads of `sv_main.c`, a
bucket with its `next` and `prev`; `outboundLeakyBucket` is the same; `now` is
`Sys_Milliseconds`, an `int` that wraps after `IntMax`.  `NoBucket`, `TooMany`,
`Request` and `RemoteCommand` are the outcomes of a request, `Tick` is time.
History: `admitted` and `replies` count what was let through in the last t ticks,
for each t up to `Window`; `used` is how long ago a bucket was used.  Left out: the
challenge table, the bucket of bad remote passwords (it works as the outbound
one), IPv6 addresses.  The clock stops before it is 0 again, after 49 days: then
`lastTime = 0` would mean "never used" of a bucket in use.

### `Bans.tla` — bans and the file they are kept in

`serverBans` and `file` are sequences of entries (address, bits that count,
exception or not); `server` tells a process that is down, starting (with
`rehashbans` in its command buffer), idle or running a map.  Actions:
`SV_AddBanToList`, `SV_DelBanFromList` (by address or by number),
`SV_FlushBans_f`, `SV_RehashBans_f`, `SV_Init`, `SV_SpawnServer`, `SV_Shutdown`,
`Quit`.  A change writes the file, or fails to open it, or is cut off by the end
of the process; `MaxFaults` bounds these.  Left out: files edited by hand (a line
that cannot be parsed leaves what was in the array at its index), `sv_banFile`
changed by the operator.

### `Demo.tla` — recording and replay

| Module | Code |
|---|---|
| `world`, `strings`, `ps` | the recorded game's entities, configstrings, player state |
| `base`, `cmdBase`, `psBase` | `sv.demoEntities`, `sv.demoUserCmds`, `sv.demoPlayerStates` while recording |
| `file` | the records written and not yet played |
| `kicked` | the loop of `SV_UserMove` goes on for a player its last command had dropped |
| `replay` | the server that plays: its game's `world` and `playerState`, its copies `base` and `ps`, `used` (the entities it has), `sector` (where an entity is linked), its configstrings and those `stored`, `active` (the player's slot), `throttled` (`svDemoTeamTime`) |
| `given`, `shown`, `replay.given`, `replay.put` | history: commands recorded, and whether the recorded game was given them; whether the last frame of the replay read records; commands the replaying game was given; whether a team was put back at the end of the frame |

Recording: `GameChanges` (an entity moves, is linked, unlinked, stops or is
freed), `PlayerChanges`, `SV_SetConfigstring`, `SV_ClientThink` (by which the game
may drop the player, and the rest of its packet follows), `SV_DemoWriteFrame`.
Replay: `PlayFrame` runs the replaying server's own game, which may change one
entity, one string or the player's state, and then folds `Read` over the records
of the frame, in their order.  Wherever the code calls the game for the player
(connecting and beginning it, its commands, the empty one, its "team" command),
the game may again change a string or the player's state (`GameCall`), so a record
has several outcomes and the fold goes over sets.  The frame ends as `REC_ENDFRAME`
does: the empty command, the configstrings by index with the team put back after
that of the player, entities and player state.  `SkipFrame` is a frame without a
record, `DropReplayed` the end of the replayed player's slot between two frames.
A raw structure is a record of the words the code treats apart; a delta is the
words that changed.

Left out: broadcast, game and client command records, cvars, anonymity, items,
the words a dead player is marked by, fast forward, full or damaged files,
teardown; a replayed player that the replaying game drops in the middle of a
frame; configstrings that differ only in case.  Every string of a player has a team.

## 4. Runs

| Run | Question | Result |
|---|---|---|
| `channel` (`MCNetchan.cfg`) | lossy, duplicating, reordering wire: is every delivery whole, decoded, in order, and is the channel a `MessageChannel`? Also checks the inductive invariant `IInv` | holds, 546,728 states |
| `channel_live` (`MCNetchanLive.cfg`) | wire that loses nothing: does every message arrive? | holds, 43,578 states |
| `commands` (`MCReliable.cfg`) | one client, all losses: right commands, right key, and does each command arrive? | holds, 105,420 states |
| `commands_cascade` (`MCReliableCascade.cfg`) | two clients, the smallest ring: nested and mutual drops, `map_restart`, updates on entering | holds, 5,750,492 states |
| `download` (`MCDownload.cfg`) | loss, resending, stops, refusals: does the client get its file, and all of it? | holds, 12,268 states |
| `session` (`MCSession.cfg`) | lost gamestates, map changes, restarts, checks: is nobody in the world who should not be, with the right configstrings, and does a client get there? | holds, 233,412 states |
| `snapshots` (`MCSnapshots.cfg`) | is every delta base intact and known, and what the client decodes what the server built? | holds, 3,578,866 states |
| `clients` (`MCClients.cfg`) | two players, two slots, a demo: do slots, game and players agree, and do slots become free? | holds, 54,240 states |
| `demo` (`MCDemo.cfg`) | every short recording: are its states, strings and commands those of the replay? | holds, 323,103 states |
| `ratelimit` (`MCRateLimit.cfg`) | more addresses than buckets, a clock that wraps: are chains sound and limits kept? | holds, 103,178 states |
| `bans` (`MCBans.cfg`) | overlapping subnets, failed writes, crashes: do commands do what they say? | holds, 49,800 states |
| `bans_startup` (`MCBansStart.cfg`) | are the saved bans loaded at startup? | violated: section 6 |

### Properties

* `DeliveredIntact`, `DeliveredInOrder` — the two things the queue, the late
  encoding and the sequence test are for, over every wire.
* `ImplementsChannel` — refinement; the mapping is `accepted <- transmitted \o
  queued`, `last <- incomingSequence`.
* `EveryMessageArrives` — liveness; an exact multiple of `FRAGMENT_SIZE` needs its
  empty last fragment, and a queued message its turn.
* `ReceivedAsAdded` — a client whose ring was never overrun holds a beginning of
  the sequence of commands added for it.  After an overrun the number given to
  the lost command names an older text, and the client is on its way out.
* `KeyKept` — the ring slot a packet's key is read from holds the text the client
  used, while the ring is not full.
* `OverrunIsDropped`, `DropIsComplete` — across any nesting of calls: who overran
  is dropped, the last command in its ring is the disconnect, and when a slot is
  given up the game has removed its client, overrun or not.  Nobody joins the
  game without a slot, but a client whose ring is overrun at that moment.
* `CommandReaches` — liveness of repetition until acknowledged.
* `FileIntact` — what the client has is a beginning of the file it asked for, and
  the whole when it is told so: no slot of the window is reused too early, no
  resent block misplaced.
* `AcksExpectedInTime` — resending and late acknowledgements never make the two
  ends disagree on the next block.  It and `FileIntact` are stated while
  downloads do not overlap (`~late`), as is the order of the counters in
  `TypeOK`; see `AcksExpected` in section 7.
* `DownloadEnds` — liveness of resending.
* `ConfigstringsCurrent` — what is sent, marked and in a gamestate adds up: a
  client in the world has the server's configstrings once its commands have
  arrived, and one that loads differs only in what is marked.
* `PlaysChecked` — no move counts of a client without the level, or on a pure
  server without a good check for it.
* `EntersWorld` — liveness of sending gamestates again.
* `DeltaBaseIntact` — the base of a snapshot is one its client still has, and
  the shared ring still holds what was sent.
* `ClientSeesGame` — what a client decodes of a snapshot of a level it has loaded
  is what the server built; with the numbering of queued messages this is where
  `SV_SendClientMessages` must wait.  A client that `map_restart` put into the
  world without the level has other baselines, and reads what it is sent wrong.
* `CounterBelowLimit` — the server notices in time that its counter wraps.
* `OneSlot`, `GameAgrees`, `ReservedKept`, `SlotsFreed` — over all orders of
  connections, drops, timeouts, maps and replays: one slot a player; the game
  has the connected ones; a demo's slots are its own; an abandoned slot is freed,
  unless a replay holds it (`HeldByReplay`).
* `ReplayShowsRecorded`, `ReplayStrings`, `ReplayInput` — the states of entities
  and players, configstrings, and commands of a replayed frame are the recorded
  ones, whatever the replaying server's game does.  Which entities a spectator is
  sent is not in it (`ReplayLinks`, section 7); a player's string is as the
  game makes it in the frame in which its team is put back; and the input is what
  was recorded, which is more than the live game was given (`ReplaySameInput`).
* `ChainsSound`, `RequestsLimited`, `BucketsBusy` — the hash chains partition the
  buckets in use; in no window of time is more let through than burst and rate
  allow; a request is only refused for want of a bucket when all are in use.
* `NothingIdle`, `CommandsDoWhatTheySay` — no entry of the ban list, nor of the
  file after a crash, is one without effect; a command changes who is banned
  inside its subnet as it says, and nobody else.

What the properties leave out, they leave out by name: `OverrunIsDropped` is
stated up to the first `map_restart`; `DropIsComplete` lets a client be begun in
the game without a slot if its ring is overrun then (the configstrings sent by its
own `SV_ClientEnterWorld` did that, which goes on after the drop);
`EntersWorld` and `PlaysChecked` leave out a client that a restart has `forced`
into a level; `OneSlot` and `GameAgrees` leave out slots a demo claimed with
somebody in them, and clients refused when they reconnected; `DeltaBaseIntact`
leaves out a client that was sent its gamestate twice; `ClientSeesGame` is about
levels the client has loaded; `SlotsFreed` leaves out slots a replay keeps from
timing out.  Section 7 says why.

### Bounds, and why they are enough

* `MCNetchan`: `FRAGMENT_SIZE` 2 and messages of 1 to 4 units give a message of one
  packet, one of exactly one full fragment, one of two fragments and one of
  exactly two; three messages (and two final ones) let a fragmented message be
  followed by one that queues and one that queues behind that; one client
  command gives two different keys.  `MAX_MSGLEN` 6 is larger than any message,
  `SHORT_RANGE` 64 larger than any start, as the code assumes.  In the live run no
  client command is needed.
* `MCReliable`: ring of 2 and four commands: the ring fills, wraps, overruns.
  `MessageCapacity` 2 is the ring's size: everything fits.
* `MCReliableCascade`: ring of 1, so that any broadcast may overrun any ring; two
  clients drop each other and themselves; one `map_restart`, one changed
  configstring.
* `MCDownload`: a window of 2 and files of 0, 1 and 3 blocks: an empty file, one
  that fits the window with its end, one that wraps around it; a refused file;
  two requests, so that every end of one download meets the start of the next;
  two messages under way, as many as the window.
* `MCSession`: two values of a string; three server ids give a map change after a
  restart, a restart after a map change, and two of one kind; two commands are a
  `vdr` and its `cp`, or the `cp`s of two levels.
* `MCSnapshots`: one client, who has its own entity, and one other; four frames of
  backup and a ring of three entities (the code: 32 and 3 * 32 * 512 or more), so
  that a base is lost by its frame and by its entities; `Margin` 0, the weakest
  test (the code: 3); the counter reaches its limit after seven entities; one
  map change notice (the code: up to five).  Six messages are the backup and two
  that take places in it again.  Two ticks are a change of the game, a map change
  and a `map_restart`, any two of them in either order.
* `MCClients`: two players for two slots, of which one is private and one is a
  demo's; one frame each for the timeout, its count, the zombie and the
  reconnection, so that all orders of them occur.
* `MCDemo`: one entity, one player, two positions, two commands, two records in a
  frame.  The constraint `Apart` explores entities, the other configstring, the
  player's state and its commands apart, the latter three each with the player's
  string, as no record of the one depends on the others, and limits the links of
  the copy.
* `MCRateLimit`: four addresses and three buckets in two chains; a burst of one,
  so that every second request is at the limit; a clock of six values that
  goes once through its sign change, so that a bucket is reclaimed by its age and
  by a negative age; requests are remembered for two ticks.
* `MCBans`: addresses of two bits, so that an entry holds one or two of the
  four; three entries, so that one replaces two; one failed write.  One
  family only: entries of two families never compare equal.

Deadlock is checked except where a reliable wire and bounded messages let the
server run out of work (`MCNetchanLive`), where the client has asked for all its files
(`MCDownload`), and where the bounds on levels, ticks, messages or records are
used up (`MCSession`, `MCSnapshots`, `MCDemo`).

### Fairness

* Channel: `SV_Netchan_TransmitNextFragment` is weakly fair, since the main loop
  calls `SV_SendQueuedPackets` in every idle slice and `SV_RateMsec` reaches zero
  when time passes; the wire is weakly fair only in the runs where it loses
  nothing (`MCNetchanLive`).  New messages, client commands, drops and shutdown are not fair.
* Commands: the calls in progress return; snapshots are built for every client
  not free (`SV_SendClientMessages` runs in every frame; a client that downloads
  without end gets none, so a download is taken to end); the client sends
  packets; and the network delivers some messages and some packets.  Nothing is
  assumed of the game, the operator or timeouts.
* Downloads: `SV_SendDownloadMessages` runs in every idle slice and time passes;
  commands are executed (the client repeats them until acknowledged); and a block that is sent again and again arrives (strong
  fairness per block number).
* Session: the server runs its frames (weak fairness of `SV_Frame` and
  `SV_SendClientMessages`); the client goes on sending packets with all its
  commands and with moves, and a message sent again and again arrives (strong
  fairness, as either may be disabled by a message that takes another's place).
  Nothing is assumed of the game, the operator or the check's result.
* Clients: the server runs its frames.  `SlotsFreed` is stated of behaviours
  in which the operator starts only finitely many demos.  A replay refreshes the
  time of the last packet of every slot below `sv_democlients`, also of a zombie
  or of somebody the demo found there, so such a slot is freed only after it.

## 5. Proofs

Each component but `Demo` has a module of proofs that EXTENDS it.  What is proved
is proved for every value of the constants that the module's assumption allows;
the bounds of section 4 (numbers of messages, commands, levels and requests) are
constants like the others, so the theorems hold for any bound.

| Module | Theorem | Statement |
|---|---|---|
| `NetchanProofs` | `TypeCorrect`, `Invariance` | `Spec => []TypeOK`, `Spec => []IInv` |
| | `Intact`, `InOrder` | `Spec => []DeliveredIntact`, `Spec => []DeliveredInOrder` |
| | `Refinement` | `Spec => ImplementsChannel` |
| `ReliableCommandsProofs` | `TypeCorrect` | `Spec => []TypeOK` |
| | `CommandsArriveAsAdded` | `Spec => []ReceivedAsAdded` |
| | `PacketsAreUnderstood` | `Spec => []KeyKept` |
| | `OverrunDrops` | `Spec => []OverrunIsDropped` |
| | `DropsAreComplete` | `Spec => DropIsComplete` |
| `SessionProofs` | `TypeCorrect` | `Spec => []TypeOK` |
| | `ConfigstringsReachClient` | `Spec => []ConfigstringsCurrent` |
| | `OnlyCheckedClientsPlay` | `Spec => PlaysChecked` |
| `ClientsProofs` | `TypeCorrect` | `Spec => []TypeOK` |
| | `DemoSlotsReserved` | `Spec => []ReservedKept` |
| | `GameKnowsConnected` | `Spec => []GameAgrees` |
| | `PlayersHaveOneSlot` | `Spec => []OneSlot` |
| `SnapshotsProofs` | `TypeCorrect` | `Spec => []TypeOK` |
| | `CounterStaysBelowLimit` | `Spec => []CounterBelowLimit` |
| | `BaseIsIntact` | `Spec => []DeltaBaseIntact` |
| | `ClientsSeeGame` | `Spec => []ClientSeesGame` |
| | `MergeReadsBack` | decoding what was encoded gives the list, for all sorted lists |
| `DownloadProofs` | `TypeCorrect` | `Spec => []TypeOK` |
| | `FilesArrive` | `Spec => []FileIntact` |
| | `AcksAreExpected` | `Spec => []AcksExpectedInTime` |
| `BansProofs` | `TypeCorrect` | `Spec => []TypeOK` |
| | `NoEntryIdle` | `Spec => []NothingIdle` |
| | `ListMeansWhatWasSaid` | `Spec => CommandsDoWhatTheySay` |
| `RateLimitProofs` | `TypeCorrect` | `Spec => []TypeOK` |
| | `TableSound` | `Spec => []ChainsSound` |
| | `LimitHolds` | `Spec => []RequestsLimited` |
| | `NoneFree` | `Spec => []BucketsBusy` |

### The inductive invariants, and why they are needed

No property above but a few type invariants is inductive: it says nothing of
what is still on its way.  Each module proves an `IInv` (TLC checked it on the
run's instance first) with one lemma for each action.

* **Channel.**  `SenderInv`: the number in use belongs to the message being
  fragmented, whose whole encoding is the buffer, or it is free.  `QueueInv`: a
  queued message was stored with the command it acknowledges, so that its later
  encoding uses the key the client will derive.  `WireInv`: each packet is the
  piece, at the place it says, of the encoding of the message it is numbered
  for.  `ReceiverInv`: the reassembly buffer is a beginning of the encoding of
  the message it is numbered for.  `ReceivedInv`: nothing received is newer than
  `incomingSequence`.  A full reassembly is intact because a fragment shorter
  than `FRAGMENT_SIZE` ends its message.  The refinement shows each action to be
  an `Accept`, `Deliver`, `Discard` or a stutter.
* **Commands.**  `RingOK`: the ring of a client that was not overrun holds the
  last commands added, each in the slot of its number; `NumbersOK`: the server's
  acknowledgement, the packet under way and what the client has are in order;
  `MessageOK`: a message goes on from what the client has, or repeats it.  Two
  numbers less than a ring apart have different slots, by a lemma on remainders.
  `StackInv` is about the calls in progress, at any depth of nesting: a client
  that overran its ring has its `SV_DropClient` somewhere on the stack until it
  is a zombie, and until the first `map_restart` a client can only be primed if
  it was sent a gamestate.  Without the latter `SV_MapRestart_f` would be where
  it fails, as `DroppedStaysDropped` (section 7) shows.
  `DropInv` is what `DropIsComplete` needs, which speaks of the one step in which
  a drop gives up the slot.  `ToldOK`: only the innermost call may be about to do
  so, and then the disconnect command is the last in the ring; a drop further
  down the stack is covered by another drop of the same client, nested in it,
  that comes first (`Exposed`).  `LeftOK`: a client whose drop has told the game is
  out of it, and nothing the drop still calls takes it back, since only
  `SV_ClientEnterWorld` begins a client, and that is called by nothing but
  `map_restart`, which nothing calls (`Nested`).  `EnterOK`: whoever is on its way
  in is connected and not being dropped, unless its ring is overrun now (`Overran`).
* **Session.**  `OldLevel`: a client that has not loaded this level has nothing
  about it, nor on its way to it, that makes it look as if it had (the server id
  in its packets is below the level's).  `CheckCurrent`: the last check the
  server knows of was of this level.  `GamestateCurrent` and `GamestateCarries`:
  the gamestate on its way is this level's, and `ConfigstringsCurrent` will hold
  when it has arrived.  `SnapshotCovered`: what a message on its way tells is
  still owed, so that a loss loses nothing.
* **Clients.**  `GameConnected` and `ConnectedInGame` are the two halves of
  `GameAgrees`; `NoSecondSlot` is `OneSlot` over slots in use;
  `DemoClientConnected`: a recorded player is connected, so that the end of a
  replay drops each of them, and none that was dropped before.
* **Snapshots.**  The longest proof.  `CounterOK`: what the ring's counter may
  reach by the messages already sent in this frame (a cardinality, since the
  clients send in any order).  `NumbersOK`: message numbers at the client, in
  flight and at the server are in order, and each of the client's slots has the
  number it should.  `OrderOK`: over what the client has loaded and what is in
  flight, in fragments or queued, nothing of an earlier level follows this
  level's gamestate, and a gamestate and a snapshot of one level have the same
  baselines (`Follows`); a client that is sent differences to its own frames has
  loaded the level, which `map_restart` alone does not give it.  `HeldOK` and `FramesOK`: the server's frame for a number
  *holds* that message: the ring still has its entities, or the counter says it
  has not (`Holds`), which every snapshot of every client preserves.
  `AcknowledgedOK` and `BasesOK`: what a client acknowledged it has, and so it
  has the base of whatever comes.  Then `MergeReadsBack` gives `ClientSeesGame`.
* **Downloads.**  `WindowOK`: the window holds what was read and is not
  acknowledged; `CommandsOK`: acknowledgements under way follow one another from
  the block the server waits for; `CurrentOK`: the client's blocks are those
  acknowledged and those whose acknowledgement is under way; `MessagesOK`: a
  block under way is one the client has, or the one its number says;
  `RequestOK`: nothing is under way to a client whose request is.  All of it
  while downloads do not overlap.
* **Bans.**  `Good`: a list with no idle entry, which holds of the list and of the
  file.  It is closed under taking a beginning (a write cut off), taking entries
  out, and adding one that conflicts with none after those it supersedes are
  gone; each is a lemma.  `ListMeansWhatWasSaid` follows from what is listed
  before and after.

* **Rate limits.**  `SoundTable`: every hash has a list of different buckets
  (`List`), each leading to the next and back, that has exactly the buckets with
  an address of that hash; a bucket without an address is clear; an address has
  one bucket.  `UnlinkSound` and `LinkSound` keep it, and `WalkIs` says that
  following the links finds the list.  `AddressesFit`: of what was let through
  for an address in the last t ticks, all but what its bucket holds has run out
  since, one a period, counted back to the bucket's time (`Fits`), and what was
  let through for an address *without* a bucket fits an empty one.  The latter
  is why a bucket may be reclaimed: it holds at most its burst, and is older
  than the time in which that runs out (`ExpiredAge`).  Times are compared by
  `Clock`, the ticks since the start, of which `WrapInterval` shows that the
  code's difference of two `int`s is right or negative, also across the wrap.
  `RepliesFit` is the same of the replies' bucket.

### Assumptions

Each module's named assumption states the types of its constants, and beyond
them only what the code has:

* Channel: every body with its first unit fits `MAX_MSGLEN`, and
  `MAX_MSGLEN < SHORT_RANGE` (49152 < 65536).  This makes the *written* start of
  a fragment its true start; that the *read* start is right is not assumed, as a
  wrong one only loses a message.
* Snapshots: the ring has room for three full frames of all clients (the code's
  has more: `SV_Startup`, `SV_ChangeMaxClients`), and the counter's limit is
  above the ring's size, by which `SV_Frame` tests it.  `Margin`, by which
  the code treats frames as too old early, may be 0.
* Clients: `sv_zombietime < sv_timeout + MaxTimeoutCount` (in the code 2 seconds
  and more than 200), so that a silence counted only to the latter still tells
  when a zombie expires (the proofs do not need it); a demo has players, and
  leaves a slot free.
* Rate limits: an emptied bucket's time fits an `int` (`Burst * Period <= IntMax`;
  in the code 10,000 and 2^31 - 1).  Without it a bucket whose age is negative as
  an `int` might not have run dry.
* Bans: an address has at least one bit.  Nothing is assumed of `Masks` or of
  the number of families.

### Recursion and induction

The library's induction takes an operator as its parameter, which the provers
at hand cannot instantiate.  The modules that need induction state it of *sets*
instead (`SetInduction`), derived from the well-foundedness of strict inclusion on finite
sets, and from it that a recursion of n steps defines a function (`StepsDefine`)
and that what each step keeps holds in the end (`StepsKeep`).  So the four
places where the code's loops are recursive functions of the model are proved
about: the merge of `SV_EmitPacketEntities`, the commands of a packet
(`Checked` of `Session`), taking entries off the ban list (`Without`), and
following the links of a hash chain (`Walk`).  They are functions of one index
for that.

### What the attempts found

* `Download.TypeOK` said `downloadXmitBlock <= downloadCurrentBlock`.  The proof
  failed at `SV_WriteDownloadToClient`, and TLC found a run of 29 steps with a
  larger bound than the run's: when an acknowledgement of an earlier download is
  taken for one of this, the block to send can get ahead of what was read.
  `TypeOK` now claims it while downloads do not overlap.
* `Snapshots` needs `MaxTick > 0`: with 0 its first state was not well typed.
* `RateLimit` had a width in bits and remembered requests as a set of pairs of age
  and number; it has `IntMax` and counts now, which say the same (TLC finds the
  same number of states), because the provers know no powers of two and a limit
  is a statement about counts.

### Only model-checked

* Liveness (`EveryMessageArrives`, `CommandReaches`, `DownloadEnds`, `EntersWorld`,
  `SlotsFreed`): beyond the prover.
* `Demo`: `Read` is a fold over the records of a frame, with the states the replay
  may be in as what is carried along, and the next record is written from copies that the
  fold must have left equal on both sides.  That is an induction over the records
  of a frame and over the words of each; TLC goes through every recording of the
  bounds instead.

## 6. Findings

`bans_startup`: `SV_Init` ends with the comment "Load saved bans" and puts
`rehashbans` into the command buffer (`server/sv_init.c:962-963`).  The command
is executed first of all, when no map is loaded; `SV_RehashBans_f` returns unless
the server is running (`server/sv_ccmds.c:764-767`).  The saved bans are not in
force, and the next change of the list overwrites the file.

## 7. Known limits, stated but not kept

These properties are in the modules and do not hold.  None is checked by a run:
add the name to the configuration given to see TLC's counterexample.

| Property | With | What happens |
|---|---|---|
| `EveryMessageArrives` of `Netchan` | `MCNetchanLive.cfg`, `SHORT_RANGE` 8, `LongBodies` | a fragment that starts at half the range of a 16 bit field or later is read with a negative start and never accepted; messages may be 49152 bytes long |
| `FinalMessagesLeave` of `Netchan` | `MCNetchan.cfg` | the final message of a client with unsent fragments is queued, and the queue is freed |
| `KeyKeptWhenFull` of `ReliableCommands` | `MCReliable.cfg` | with exactly `MAX_RELIABLE_COMMANDS` unacknowledged commands the slot of the last acknowledged one is reused, and packets that still acknowledge it are decoded with a wrong key |
| `NoRecursiveDrop` of `ReliableCommands` | `MCReliableCascade.cfg` | a client with a full ring that is dropped for another reason is dropped again by its own drop message |
| `DroppedStaysDropped` of `ReliableCommands` | `MCReliableCascade.cfg` | `map_restart` puts a client into the world that its own command has just dropped |
| `CommandReaches` of `ReliableCommands` | `MCReliable.cfg`, `MessageCapacity` 1 | when the unacknowledged commands do not fit a message each snapshot is cleared, and none is transmitted until the client times out |
| `AcksExpected` of `Download` | `MCDownload.cfg` | a block resent after its download was finished is taken for the next file's, and the client dropped for acknowledging it |
| `GamestateArrives` of `Session` | `MCSession.cfg` | `map_restart` makes a client active whose gamestate was lost; a lost gamestate is sent again only to a client that is not active (`server/sv_ccmds.c:567`, `server/sv_client.c:2093`) |
| `GamestateOnce` of `Snapshots` | `MCSnapshots.cfg` | a gamestate queued behind other messages is transmitted under a greater number than `gamestateMessageNum`, and is sent once more |
| `EmulatedInGame` of `Clients` | `MCClients.cfg` | the start of a replay makes the clients connected again that it has just dropped from its slots; the recorded player that takes such a slot is begun in the game but never connected (`server/sv_demo.c:1837`, `:964`) |
| `ReplaySameInput` of `Demo` | `MCDemo.cfg` | "this is exactly the input the live game saw" (`server/sv_client.c:1882-1883`): a player is dropped by one of its commands, and `SV_UserMove` goes on with the packet; `SV_ClientThink` records the rest before it looks at the state, the live game is given none of it, and a replay gives it to its game, where the player still is, as the empty string of a player that left is not recorded |
| `ReplayLinks` of `Demo` | `MCDemo.cfg` | an entity that moves with one link in each of two frames is not linked in the second: the link of the first has counted up our copy (`server/sv_demo.c:1089`); spectators are sent it or not by where it was (`server/sv_snapshot.c:405-444`) |

Seen while modelling, and left out of the modules' properties: the zombie period
of a client that is dropped by the server counts from its last packet, so that it
may be over at once; a client that is refused when it reconnects stays in the
game (`ghosts`); a slot taken again leaks its queue and its open download; a
replay that stands still lets the recorded players time out, while one that runs
keeps zombies, and clients found in its slots, from ever timing out
(`server/sv_demo.c:1203`); a refused download is told once, and waited for if
that message is lost.

## 8. Not modelled

Beside what section 3 leaves out of each module:

* The challenge table, remote commands' own limits, ping limits and the checks
  of userinfo: they refuse a connection without a change of state, or are
  settled by asking again.
* Game, gametype and bots: dispatch to other components; the game is not in the
  repository, and appears as "the game may" in the modules.
* The command buffer, the event queue, cvars and the memory of `common.c`
  (zone and hunk): sequential, and reached by one caller at a time.
* The coding of fields in `msg.c` and `huffman.c`: data conversion without
  control; `Snapshots` takes it to be invertible.
* World and collision, terrain, model loading: floating point geometry, out of a
  model checker's reach.
* The virtual machine and the bot library: they interpret programs and data that
  are not in the repository.
* File system, sockets, platform and console: I/O.  Files appear as the demo's,
  the download's and the ban list's contents, sockets as the wire.
* The bundled libraries: third-party code.
