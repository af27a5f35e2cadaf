------------------------- MODULE SessionProofs -------------------------
(***************************************************************************)
(* Proofs about Session, for all values of the game's configstring and any *)
(* number of levels and commands.                                          *)
(***************************************************************************)
EXTENDS Session, FiniteSetTheorems, SequenceTheorems, TLAPS

-----------------------------------------------------------------------------
(* The inductive invariant *)

\* The systeminfo told in f, if any, has a number below n.
Below(f, n) == "systeminfo" \in DOMAIN f => f["systeminfo"] < n

Told(f) == CommandedType(f) /\ Below(f, serverId + 1)

\* What the client may have been told, and what is still on its way to it, has
\* the type of configstrings, and no number the server has not given yet.
ToldOK == Told(commanded) /\ Told(missed)

MessageOK ==
    /\ message.kind = "none" => message = Nothing
    /\ message.kind = "gamestate" =>
          /\ message = [kind |-> "gamestate", level |-> message.level,
                        strings |-> message.strings]
          /\ message.level \in 1..level
          /\ message.strings \in Strings
          /\ message.strings["systeminfo"] <= serverId
    /\ message.kind = "snapshot" =>
          /\ message = [kind |-> "snapshot", commanded |-> message.commanded,
                        missed |-> message.missed]
          /\ Told(message.commanded) /\ Told(message.missed)

ClientCommand ==
    {Vdr} \cup {Cp(id, good) : id \in 1..serverId, good \in BOOLEAN}

ClientOK ==
    /\ client = [loaded |-> client.loaded, strings |-> client.strings,
                 later |-> client.later, commands |-> client.commands]
    /\ client.strings["systeminfo"] <= serverId
    /\ client.later \in BOOLEAN
    /\ client.commands \in Seq(ClientCommand)

\* The client has this level's gamestate, or will have it.
LevelSent == message.kind = "gamestate" \/ client.loaded = level

\* A gamestate on its way is this level's, and was not sent before the client
\* was primed.
GamestateCurrent ==
    InUse => /\ message.kind = "gamestate" => message.level = level
             /\ state = "connected" => ~LevelSent

\* The last check the server knows of was of this level.
CheckCurrent == InUse /\ pure /\ LevelSent /\ gotCP => verified >= level

\* A client that has not loaded this level does not play, and has nothing that
\* would make it look as if it had: neither the number in its packets nor one
\* it may still be told.
OldLevel ==
    InUse /\ ~forced /\ client.loaded # level =>
        /\ state # "active"
        /\ ClientId < level
        /\ Below(commanded, level) /\ Below(missed, level)
        /\ message.kind = "snapshot" =>
              Below(message.commanded, level) /\ Below(message.missed, level)

\* What ConfigstringsCurrent says of the client's strings.
Current(mine) ==
    LET differing == {i \in Index : mine[i] # configstrings[i]}
    IN  /\ state = "active" => differing = {}
        /\ state = "primed" => differing \subseteq csUpdated

\* It will hold of a client that gets the gamestate on its way.
GamestateCarries ==
    message.kind = "gamestate" => Current(Executed(commanded, message.strings))

\* What a snapshot on its way tells was told once more since, or will be.
SnapshotCovered ==
    message.kind = "snapshot" =>
        DOMAIN message.commanded \cup DOMAIN message.missed
            \subseteq DOMAIN commanded \cup DOMAIN missed

IInv ==
    /\ TypeOK
    /\ ToldOK /\ MessageOK /\ ClientOK
    /\ GamestateCurrent /\ CheckCurrent /\ OldLevel
    /\ GamestateCarries /\ SnapshotCovered
    /\ ConfigstringsCurrent

-----------------------------------------------------------------------------
(* Naturals and recursion *)

\* A set of naturals that is not empty has a least element: the intervals up
\* to its elements have one that no other is strictly included in.
LEMMA LeastNatural ==
    ASSUME NEW T, T \subseteq Nat, T # {}
    PROVE  \E x \in T : \A y \in T : x <= y
  <1>. DEFINE I == {0..x : x \in T}
  <1>1. I \subseteq FiniteSubsetsOf(Nat)
    <2>1. \A x \in T : IsFiniteSet(0..x) /\ 0..x \subseteq Nat
      BY FS_Interval
    <2>. QED  BY <2>1 DEF FiniteSubsetsOf
  <1>2. I # {}
    OBVIOUS
  <1>3. PICK s \in I : \A t \in I : <<t, s>> \notin StrictSubsetOrdering(Nat)
    <2>. HIDE DEF I
    <2>. QED  BY <1>1, <1>2, FS_StrictSubsetOrderingWellFounded, WFMin
  <1>4. PICK x \in T : s = 0..x
    BY <1>3
  <1>5. ASSUME NEW y \in T
        PROVE  x <= y
    <2>1. <<0..y, 0..x>> \notin StrictSubsetOrdering(Nat)
      BY <1>3, <1>4
    <2>2. ~(0..y \subseteq 0..x /\ 0..y # 0..x)
      BY <2>1 DEF StrictSubsetOrdering
    <2>3. y < x => 0..y \subseteq 0..x /\ x \in 0..x /\ x \notin 0..y
      OBVIOUS
    <2>4. y < x => 0..y # 0..x
      BY <2>3, Zenon
    <2>. QED  BY <2>2, <2>3, <2>4
  <1>. QED  BY <1>5

\* Induction: a set with 0 and the successors of its naturals has them all.
LEMMA SetInduction ==
    ASSUME NEW T, 0 \in T, \A n \in Nat : n \in T => n + 1 \in T
    PROVE  Nat \subseteq T
  <1>1. SUFFICES ASSUME Nat \ T # {}
                 PROVE  FALSE
    OBVIOUS
  <1>2. PICK x \in Nat \ T : \A y \in Nat \ T : x <= y
    BY <1>1, LeastNatural
  <1>3. x - 1 \in Nat
    BY <1>2
  <1>4. x - 1 \in T
    BY <1>2, <1>3
  <1>. QED  BY <1>2, <1>3, <1>4

\* What every one of n steps keeps holds after each.
LEMMA StepsKeep ==
    ASSUME NEW n \in Nat, NEW f, NEW D, f[0] \in D,
           \A i \in 1..n : f[i - 1] \in D => f[i] \in D
    PROVE  \A i \in 0..n : f[i] \in D
  <1>. DEFINE T == {k \in Nat : k <= n => f[k] \in D}
  <1>1. 0 \in T
    OBVIOUS
  <1>2. ASSUME NEW k \in Nat, k \in T
        PROVE  k + 1 \in T
    <2>1. k + 1 <= n => k + 1 \in 1..n /\ (k + 1) - 1 = k
      OBVIOUS
    <2>. QED  BY <1>2, <2>1
  <1>3. Nat \subseteq T
    <2>. HIDE DEF T
    <2>. QED  BY <1>1, <1>2, SetInduction
  <1>. QED  BY <1>3

\* What n steps come to, one after the other, from base.
StepsFrom(n, D, base, step) ==
    {g \in [0..n -> D] :
        g[0] = base /\ \A i \in 1..n : g[i] = step[i][g[i - 1]]}

\* Recursion: a step from D to D can be taken n times.
LEMMA StepsDefine ==
    ASSUME NEW n \in Nat, NEW D, NEW base \in D,
           NEW step \in [1..n -> [D -> D]]
    PROVE  StepsFrom(n, D, base, step) # {}
  <1>. DEFINE P(k) == \E g \in [0..k -> D] :
                        g[0] = base /\ \A i \in 1..k : g[i] = step[i][g[i - 1]]
              T == {k \in Nat : k <= n => P(k)}
  <1>1. 0 \in T
    <2>. DEFINE g == [i \in 0..0 |-> base]
    <2>1. g \in [0..0 -> D] /\ g[0] = base /\ 1..0 = {}
      OBVIOUS
    <2>2. P(0)
      <3>. HIDE DEF g
      <3>. QED  BY <2>1
    <2>. QED  BY <2>2
  <1>2. ASSUME NEW k \in Nat, k \in T
        PROVE  k + 1 \in T
    <2>1. SUFFICES ASSUME k + 1 <= n
                   PROVE  P(k + 1)
      OBVIOUS
    <2>2. PICK g \in [0..k -> D] :
              g[0] = base /\ \A i \in 1..k : g[i] = step[i][g[i - 1]]
      BY <1>2, <2>1
    <2>. DEFINE h == [i \in 0..(k + 1) |-> IF i = k + 1 THEN step[i][g[k]] ELSE g[i]]
    <2>3. k + 1 \in 1..n /\ k \in 0..k /\ g[k] \in D
      BY <2>1
    <2>4. h \in [0..(k + 1) -> D] /\ h[0] = base
      BY <2>2, <2>3
    <2>5. ASSUME NEW i \in 1..(k + 1)
          PROVE  h[i] = step[i][h[i - 1]]
      <3>1. CASE i = k + 1
        <4>1. h[i] = step[i][g[k]] /\ h[k] = g[k]
          BY <3>1
        <4>. QED  BY <3>1, <4>1
      <3>2. CASE i \in 1..k
        <4>1. h[i] = g[i] /\ h[i - 1] = g[i - 1]
          BY <3>2
        <4>2. g[i] = step[i][g[i - 1]]
          BY <2>2, <3>2
        <4>. QED  BY <4>1, <4>2
      <3>. QED  BY <3>1, <3>2
    <2>. HIDE DEF h
    <2>. QED  BY <2>4, <2>5
  <1>3. Nat \subseteq T
    <2>. HIDE DEF T
    <2>. QED  BY <1>1, <1>2, SetInduction
  <1>. QED  BY <1>3 DEF StepsFrom

-----------------------------------------------------------------------------
(* Configstrings *)

\* What telling a configstring and executing what was told come to.
LEMMA ExecutedTell ==
    ASSUME NEW f, NEW I \in SUBSET Index, NEW told1, NEW strings
    PROVE  \A i \in Index :
              Executed(Tell(f, I, told1), strings)[i] =
                  IF i \in I THEN told1[i] ELSE Executed(f, strings)[i]
  BY DEF Executed, Tell

\* What was commanded and is counted as missed from now on is told as before.
LEMMA ExecutedMissed ==
    ASSUME NEW f, CommandedType(f), NEW m, NEW strings
    PROVE  Executed(<<>>, Executed(Tell(m, DOMAIN f, f), strings))
              = Executed(f, Executed(m, strings))
  BY DEF Executed, Tell, CommandedType

\* What is told once more need not have been told before.
LEMMA ExecutedTwice ==
    ASSUME NEW f, NEW m, NEW f1, NEW m1, NEW strings,
           DOMAIN f1 \cup DOMAIN m1 \subseteq DOMAIN f \cup DOMAIN m
    PROVE  Executed(f, Executed(m, Executed(f1, Executed(m1, strings))))
              = Executed(f, Executed(m, strings))
  BY DEF Executed

\* Executing commands replaces those of a client's configstrings that they
\* tell.
LEMMA ExecutedType ==
    ASSUME NEW f, CommandedType(f), NEW strings \in Strings
    PROVE  /\ Executed(f, strings) \in Strings
           /\ Executed(f, strings)["systeminfo"] = 
                 IF "systeminfo" \in DOMAIN f THEN f["systeminfo"]
                 ELSE strings["systeminfo"]
  BY DEF Strings, Index, Executed, CommandedType

\* Telling more strings adds them to what is under way.
LEMMA TellType ==
    ASSUME NEW f, CommandedType(f), NEW I \in SUBSET Index,
           NEW strings, \A i \in I : strings[i] \in IF i = "game" THEN Value ELSE 1..MaxId,
           NEW n, Below(f, n), "systeminfo" \in I => strings["systeminfo"] < n
    PROVE  /\ CommandedType(Tell(f, I, strings))
           /\ Below(Tell(f, I, strings), n)
           /\ DOMAIN Tell(f, I, strings) = I \cup DOMAIN f
  BY DEF Index, Tell, CommandedType, Below

\* A configstring is a value of the game or a server id.
LEMMA StringsType ==
    ASSUME NEW strings \in Strings
    PROVE  \A i \in Index : strings[i] \in IF i = "game" THEN Value ELSE 1..MaxId
  BY DEF Index, Strings

\* Nothing under way tells nothing.
LEMMA NothingTold ==
    /\ CommandedType(<<>>) /\ DOMAIN <<>> = {}
    /\ \A n : Below(<<>>, n)
  BY DEF CommandedType, Below

\* A bound on the server ids under way may be raised.
LEMMA BelowMonotone ==
    ASSUME SessionAssumption, NEW f, CommandedType(f), NEW n \in Nat, NEW m \in Nat,
           Below(f, n), n <= m
    PROVE  Below(f, m)
  BY DEF CommandedType, Below, Index, SessionAssumption

-----------------------------------------------------------------------------
(* The check *)

Result ==
    [authentic : {0, 1}, gotCP : BOOLEAN, verified : 0..MaxId,
     dropped : BOOLEAN]

\* What the check may come to: there was one if it is good, and it was of
\* this level once the client was sent the level.
SoundResult ==
    {r \in Result :
        /\ r.authentic = 1 => r.gotCP /\ r.verified # 0
        /\ (pure /\ LevelSent /\ r.gotCP /\ ~r.dropped) => r.verified >= level}

\* What the commands of a packet start from.
Before ==
    [authentic |-> pureAuthentic, gotCP |-> gotCP, verified |-> verified,
     dropped |-> FALSE]

\* The state of the check before the rest of a packet is executed is sound:
\* only a good check for this level makes a client authentic.
LEMMA BeforeSound ==
    ASSUME TypeOK, CheckCurrent, InUse
    PROVE  Before \in SoundResult
  BY DEF TypeOK, CheckCurrent, Before, SoundResult, Result

\* A command keeps the check sound.
LEMMA ExecuteSound ==
    ASSUME TypeOK, SessionAssumption, NEW r \in SoundResult,
           NEW c \in ClientCommand
    PROVE  Execute(r, c) \in SoundResult
  <1>1. r \in Result
    BY DEF SoundResult
  <1>2. CASE c = Vdr
    BY <1>1, <1>2 DEF SoundResult, Result, Execute, Vdr
  <1>3. ASSUME NEW id \in 1..serverId, NEW good \in BOOLEAN, c = Cp(id, good)
        PROVE  Execute(r, c) \in SoundResult
    BY <1>1, <1>3 DEF SoundResult, Result, Execute, Cp, TypeOK
  <1>. QED  BY <1>2, <1>3 DEF ClientCommand

\* So do all of a packet.
LEMMA CheckedSound ==
    ASSUME TypeOK, ClientOK, CheckCurrent, InUse,
           NEW k \in 0..Len(client.commands)
    PROVE  Checked(k) \in SoundResult
  <1>. DEFINE step == [i \in 1..k |-> [r \in SoundResult |->
                          Execute(r, client.commands[i])]]
              Steps(g) == g = [i \in 0..k |->
                                  IF i = 0 THEN Before
                                  ELSE Execute(g[i - 1], client.commands[i])]
              after == CHOOSE g : Steps(g)
  <1>1. /\ k \in Nat
        /\ \A i \in 1..k : client.commands[i] \in ClientCommand
    BY DEF ClientOK
  <1>2. \A i \in 1..k : \A r \in SoundResult :
            Execute(r, client.commands[i]) \in SoundResult
    BY <1>1, ExecuteSound, SessionAssumption
  <1>3. PICK g : g \in StepsFrom(k, SoundResult, Before, step)
    <2>1. step \in [1..k -> [SoundResult -> SoundResult]]
      BY <1>2
    <2>. HIDE DEF step
    <2>. QED  BY <1>1, <2>1, BeforeSound, StepsDefine
  <1>4. Steps(g)
    <2>1. \A i \in 1..k : \A r \in SoundResult :
              step[i][r] = Execute(r, client.commands[i])
      OBVIOUS
    <2>. HIDE DEF step
    <2>2. ASSUME NEW i \in 0..k
          PROVE  g[i] = IF i = 0 THEN Before
                        ELSE Execute(g[i - 1], client.commands[i])
      BY <1>1, <1>3, <2>1 DEF StepsFrom
    <2>3. g = [i \in 0..k |-> g[i]]
      BY <1>3 DEF StepsFrom
    <2>. QED  BY <2>2, <2>3
  <1>5. Steps(after)
    <2>. HIDE DEF Steps
    <2>. QED  BY <1>4
  <1>6. /\ after[0] = Before
        /\ \A i \in 1..k : after[i] = Execute(after[i - 1], client.commands[i])
    <2>. HIDE DEF after
    <2>. QED  BY <1>1, <1>5
  <1>7. \A i \in 0..k : after[i] \in SoundResult
    <2>. HIDE DEF after
    <2>1. \A i \in 1..k : after[i - 1] \in SoundResult => after[i] \in SoundResult
      BY <1>1, <1>2, <1>6
    <2>2. after[0] \in SoundResult
      BY <1>6, BeforeSound
    <2>. QED  BY <1>1, <2>1, <2>2, StepsKeep
  <1>8. Checked(k) = after[k]
    BY DEF Checked, Before
  <1>. QED  BY <1>1, <1>7, <1>8

-----------------------------------------------------------------------------
(* The server's steps *)

\* A configstring changes while the level runs.
LEMMA ChangeInv ==
    ASSUME SessionAssumption, IInv, NEW I \in SUBSET Index,
           configstrings' \in Strings,
           configstrings'["systeminfo"] \in level..serverId,
           \A i \in Index \ I : configstrings'[i] = configstrings[i],
           Change(I, configstrings'),
           UNCHANGED <<pure, serverId, level, state, check, message, client,
                       verified, forced>>
    PROVE  IInv'
  <1>. DEFINE strings == configstrings'
  <1>1. \/ state # "active" /\ commanded' = commanded
        \/ state = "active" /\ commanded' = Tell(commanded, I, strings)
    BY DEF Change
  <1>2. /\ CommandedType(Tell(commanded, I, strings))
        /\ Below(Tell(commanded, I, strings), serverId + 1)
        /\ DOMAIN Tell(commanded, I, strings) = I \cup DOMAIN commanded
    <2>1. /\ \A i \in I : strings[i] \in IF i = "game" THEN Value ELSE 1..MaxId
          /\ strings["systeminfo"] < serverId + 1
      BY StringsType, SessionAssumption DEF IInv, TypeOK
    <2>2. CommandedType(commanded) /\ Below(commanded, serverId + 1)
      BY DEF IInv, ToldOK, Told
    <2>. HIDE DEF strings
    <2>. QED  BY <2>1, <2>2, TellType
  <1>3. \A s : \A i \in Index : Executed(Tell(commanded, I, strings), s)[i] =
                  IF i \in I THEN strings[i] ELSE Executed(commanded, s)[i]
    BY ExecutedTell
  <1>4. TypeOK'
    BY <1>1, <1>2 DEF IInv, TypeOK, Change, check, ToldOK, Told
  <1>5. ToldOK'
    BY <1>1, <1>2 DEF IInv, ToldOK, Told, Change
  <1>6. MessageOK' /\ ClientOK' /\ GamestateCurrent' /\ CheckCurrent'
    BY DEF IInv, MessageOK, Told, ClientOK, ClientCommand, GamestateCurrent,
           CheckCurrent, LevelSent, InUse, check
  <1>7. OldLevel'
    BY <1>1 DEF IInv, OldLevel, InUse, ClientId, Change
  <1>8. GamestateCarries'
    BY <1>1, <1>3 DEF IInv, GamestateCarries, Current, Change
  <1>9. SnapshotCovered'
    BY <1>1, <1>2 DEF IInv, SnapshotCovered, Change
  <1>10. ConfigstringsCurrent'
    BY <1>1, <1>3 DEF IInv, ConfigstringsCurrent, Change
  <1>. QED  BY <1>4, <1>5, <1>6, <1>7, <1>8, <1>9, <1>10 DEF IInv

\* SV_SetConfigstring keeps the invariant: whoever is not told is marked.
LEMMA SetConfigstringInv ==
    ASSUME SessionAssumption, IInv, NEW v \in Value, SV_SetConfigstring(v)
    PROVE  IInv'
  <1>1. /\ configstrings' \in Strings
        /\ configstrings'["systeminfo"] \in level..serverId
        /\ \A i \in Index \ {"game"} : configstrings'[i] = configstrings[i]
    BY DEF IInv, TypeOK, SV_SetConfigstring, Strings, Index
  <1>. QED  BY <1>1, ChangeInv DEF SV_SetConfigstring, Index

\* SV_Frame, which announces a changed systeminfo, keeps the invariant.
LEMMA FrameInv ==
    ASSUME SessionAssumption, IInv, SV_Frame
    PROVE  IInv'
  <1>1. /\ configstrings' \in Strings
        /\ configstrings'["systeminfo"] \in level..serverId
        /\ \A i \in Index \ {"systeminfo"} : configstrings'[i] = configstrings[i]
    BY SessionAssumption DEF IInv, TypeOK, SV_Frame, Strings, Index
  <1>. QED  BY <1>1, ChangeInv DEF SV_Frame, Index

\* A message of the server keeps the invariant; it takes the place of one that
\* is lost.
LEMMA SendClientMessagesInv ==
    ASSUME SessionAssumption, IInv, SV_SendClientMessages
    PROVE  IInv'
  <1>. USE DEF SV_SendClientMessages, Snapshot, server, check, told
  <1>1. TypeOK'
    BY DEF IInv, TypeOK
  <1>2. ToldOK' /\ MessageOK' /\ ClientOK'
    BY DEF IInv, ToldOK, Told, MessageOK, ClientOK, ClientCommand
  <1>3. GamestateCurrent' /\ CheckCurrent'
    BY DEF IInv, GamestateCurrent, CheckCurrent, LevelSent, InUse
  <1>4. OldLevel'
    BY DEF IInv, OldLevel, InUse, ClientId
  <1>5. GamestateCarries' /\ SnapshotCovered' /\ ConfigstringsCurrent'
    BY DEF IInv, GamestateCarries, SnapshotCovered, ConfigstringsCurrent
  <1>. QED  BY <1>1, <1>2, <1>3, <1>4, <1>5 DEF IInv

\* A map change keeps the invariant: ids grow, and the client's check is void.
LEMMA SpawnServerInv ==
    ASSUME SessionAssumption, IInv, NEW v \in Value, SV_SpawnServer(v)
    PROVE  IInv'
  <1>. USE DEF SV_SpawnServer, Snapshot, server, check, told
  <1>1. /\ serverId \in 1..MaxId /\ MaxId \in Nat /\ level \in 1..serverId
        /\ serverId' = serverId + 1 /\ serverId' \in 1..MaxId
        /\ level' = serverId'
    BY SessionAssumption DEF IInv, TypeOK
  <1>2. configstrings' \in Strings /\ configstrings'["systeminfo"] = serverId'
    BY <1>1 DEF Strings, Index
  <1>3. TypeOK'
    <2>1. state' \in {"connected", "primed", "active", "zombie"}
      BY DEF IInv, TypeOK
    <2>2. message'.kind \in {"none", "gamestate", "snapshot"}
      BY DEF IInv, TypeOK
    <2>3. client.loaded \in 0..level' /\ configstrings'["systeminfo"] \in level'..serverId'
      BY <1>1, <1>2 DEF IInv, TypeOK
    <2>4. forced' \in BOOLEAN
      OBVIOUS
    <2>5. level' \in 1..serverId'
      BY <1>1
    <2>. QED  BY <1>1, <1>2, <2>1, <2>2, <2>3, <2>4, <2>5 DEF IInv, TypeOK
  <1>4. ToldOK'
    BY <1>1, BelowMonotone DEF IInv, ToldOK, Told
  <1>5. MessageOK'
    <2>1. CASE InUse
      BY <1>1, <1>4, <2>1 DEF MessageOK, ToldOK
    <2>2. CASE ~InUse
      <3>1. message' = message
        BY <2>2
      <3>2. message.kind = "snapshot" =>
               Told(message.commanded)' /\ Told(message.missed)'
        BY <1>1, <3>1, BelowMonotone DEF IInv, MessageOK, Told
      <3>3. message.kind = "gamestate" =>
               /\ message.level \in 1..level'
               /\ message.strings["systeminfo"] <= serverId'
        BY <1>1 DEF IInv, MessageOK, Strings
      <3>. QED  BY <1>1, <3>1, <3>2, <3>3 DEF IInv, MessageOK, Nothing
    <2>. QED  BY <2>1, <2>2
  <1>6. ClientOK'
    BY <1>1 DEF IInv, ClientOK, ClientCommand, TypeOK, Strings
  <1>7. GamestateCurrent' /\ CheckCurrent'
    BY <1>1 DEF IInv, TypeOK, GamestateCurrent, CheckCurrent, LevelSent, InUse
  <1>8. OldLevel'
    <2>1. SUFFICES ASSUME InUse'
                   PROVE  /\ state' = "connected" /\ ClientId' < level'
                          /\ Below(commanded', level') /\ Below(missed', level')
                          /\ Below(message'.commanded, level')
                          /\ Below(message'.missed, level')
      BY DEF OldLevel
    <2>2. InUse /\ state' = "connected" /\ message' = Snapshot
      BY <2>1 DEF InUse
    <2>3. ClientId' < level'
      BY <1>1 DEF IInv, ClientOK, ClientId, TypeOK, Strings
    <2>4. Below(commanded, serverId + 1) /\ Below(missed, serverId + 1)
      BY DEF IInv, ToldOK, Told
    <2>. QED  BY <1>1, <2>2, <2>3, <2>4
  <1>9. GamestateCarries' /\ SnapshotCovered' /\ ConfigstringsCurrent'
    BY <1>1 DEF IInv, TypeOK, GamestateCarries, Current, SnapshotCovered,
                ConfigstringsCurrent, InUse
  <1>. QED  BY <1>3, <1>4, <1>5, <1>6, <1>7, <1>8, <1>9 DEF IInv

\* A restart keeps the invariant, though it makes a client active that has not
\* asked.
LEMMA MapRestartInv ==
    ASSUME SessionAssumption, IInv, NEW v \in Value, SV_MapRestart_f(v)
    PROVE  IInv'
  <1>. USE DEF check
  <1>. DEFINE strings == [configstrings EXCEPT !["game"] = v]
              I == IF v = configstrings["game"] THEN {} ELSE {"game"}
              f == IF state = "active" THEN Tell(commanded, I, strings)
                   ELSE commanded
              marked == IF state = "primed" THEN csUpdated \cup I ELSE csUpdated
  <1>1. /\ serverId \in 1..MaxId /\ MaxId \in Nat /\ level \in 1..serverId
        /\ serverId' = serverId + 1 /\ serverId' \in 1..MaxId
        /\ level' = level
    BY SessionAssumption DEF IInv, TypeOK, SV_MapRestart_f
  <1>2. /\ strings \in Strings /\ configstrings' = strings
        /\ strings["systeminfo"] = configstrings["systeminfo"]
        /\ strings["systeminfo"] \in level..serverId
        /\ I \in SUBSET Index /\ marked \in SUBSET Index
        /\ \A i \in Index \ I : strings[i] = configstrings[i]
    BY DEF IInv, TypeOK, SV_MapRestart_f, Strings, Index
  <1>3. \/ /\ InUse /\ state' = "active" /\ csUpdated' = {}
           /\ commanded' = Tell(f, marked, strings)
           /\ missed' = missed /\ forced' = (client.loaded # level)
        \/ ~InUse /\ UNCHANGED <<state, told, forced>>
    BY DEF SV_MapRestart_f, SV_ClientEnterWorld
  <1>4. UNCHANGED <<pure, level, pureAuthentic, gotCP, message, client, verified>>
    BY DEF SV_MapRestart_f
  <1>5. /\ CommandedType(f) /\ Below(f, serverId + 1)
        /\ DOMAIN commanded \subseteq DOMAIN f
        /\ CommandedType(Tell(f, marked, strings))
        /\ Below(Tell(f, marked, strings), serverId + 1)
        /\ DOMAIN Tell(f, marked, strings) = marked \cup DOMAIN f
    <2>. HIDE DEF strings, I, marked
    <2>1. /\ \A i \in Index : strings[i] \in IF i = "game" THEN Value ELSE 1..MaxId
          /\ strings["systeminfo"] < serverId + 1
      BY <1>1, <1>2, StringsType
    <2>2. CommandedType(commanded) /\ Below(commanded, serverId + 1)
      BY DEF IInv, ToldOK, Told
    <2>3. /\ CommandedType(Tell(commanded, I, strings))
          /\ Below(Tell(commanded, I, strings), serverId + 1)
          /\ DOMAIN Tell(commanded, I, strings) = I \cup DOMAIN commanded
      BY <1>2, <2>1, <2>2, TellType
    <2>4. /\ CommandedType(f) /\ Below(f, serverId + 1)
          /\ DOMAIN commanded \subseteq DOMAIN f
      BY <2>2, <2>3
    <2>. HIDE DEF f
    <2>. QED  BY <1>2, <2>1, <2>4, TellType
  <1>6. \A s : \A i \in Index : Executed(Tell(f, marked, strings), s)[i] =
           IF i \in marked THEN strings[i]
           ELSE IF state = "active" /\ i \in I THEN strings[i]
           ELSE Executed(commanded, s)[i]
    <2>. HIDE DEF strings, I, marked
    <2>. QED  BY <1>2, ExecutedTell
  <1>. HIDE DEF strings, I, f, marked
  <1>7. TypeOK'
    <2>1. /\ CommandedType(commanded') /\ CommandedType(missed')
          /\ state' \in {"connected", "primed", "active", "zombie"}
          /\ csUpdated' \subseteq Index
      BY <1>3, <1>5 DEF IInv, TypeOK, told
    <2>2. forced' \in BOOLEAN
      BY <1>3 DEF IInv, TypeOK
    <2>3. level' \in 1..serverId' /\ configstrings'["systeminfo"] \in level'..serverId'
      BY <1>1, <1>2
    <2>. QED  BY <1>1, <1>2, <1>4, <2>1, <2>2, <2>3 DEF IInv, TypeOK
  <1>8. ToldOK'
    <2>1. CASE InUse
      BY <1>1, <1>3, <1>5, <2>1, BelowMonotone DEF IInv, ToldOK, Told
    <2>2. CASE ~InUse
      BY <1>1, <1>3, <2>2, BelowMonotone DEF IInv, ToldOK, Told, told
    <2>. QED  BY <2>1, <2>2
  <1>9. MessageOK'
    <2>1. message.kind = "snapshot" =>
             Told(message.commanded)' /\ Told(message.missed)'
      BY <1>1, <1>4, BelowMonotone DEF IInv, MessageOK, Told
    <2>2. message.kind = "gamestate" =>
             message.strings["systeminfo"] <= serverId'
      BY <1>1 DEF IInv, MessageOK, Strings
    <2>. QED  BY <1>1, <1>4, <2>1, <2>2 DEF IInv, MessageOK, Nothing
  <1>10. ClientOK'
    BY <1>1, <1>4 DEF IInv, ClientOK, ClientCommand, TypeOK, Strings
  <1>11. GamestateCurrent' /\ CheckCurrent' /\ OldLevel'
    BY <1>1, <1>3, <1>4 DEF IInv, GamestateCurrent, CheckCurrent, LevelSent,
                            OldLevel, ClientId, InUse, told
  <1>12. SnapshotCovered'
    BY <1>3, <1>4, <1>5 DEF IInv, SnapshotCovered, told
  <1>13. ASSUME NEW s, InUse, state # "connected",
                Current(Executed(commanded, s))
         PROVE  \A i \in Index : Executed(commanded', s)[i] = configstrings'[i]
    <2>. DEFINE mine == Executed(commanded, s)
    <2>1. \A i \in Index : Executed(commanded', s)[i] =
             IF i \in marked THEN strings[i]
             ELSE IF state = "active" /\ i \in I THEN strings[i]
             ELSE mine[i]
      BY <1>3, <1>6, <1>13
    <2>2. /\ state = "active" => \A i \in Index : mine[i] = configstrings[i]
          /\ state = "primed" => \A i \in Index \ csUpdated : mine[i] = configstrings[i]
      BY <1>13 DEF Current
    <2>. HIDE DEF mine
    <2>3. CASE state = "active"
      BY <1>2, <2>1, <2>2, <2>3
    <2>4. CASE state = "primed"
      <3>1. marked = csUpdated \cup I
        BY <2>4 DEF marked
      <3>. QED  BY <1>2, <2>1, <2>2, <2>4, <3>1
    <2>. QED  BY <1>13, <2>3, <2>4 DEF IInv, TypeOK, InUse
  <1>14. GamestateCarries' /\ ConfigstringsCurrent'
    <2>1. CASE ~InUse
      BY <1>3, <2>1 DEF GamestateCarries, Current, ConfigstringsCurrent, InUse, told
    <2>2. CASE InUse
      <3>1. state = "connected" =>
               message.kind # "gamestate" /\ client.loaded # level
        BY <2>2 DEF IInv, GamestateCurrent, LevelSent
      <3>2. state' = "active"
        BY <1>3, <2>2
      <3>3. message.kind = "gamestate" => \A i \in Index :
               Executed(commanded', message.strings)[i] = configstrings'[i]
        BY <1>13, <2>2, <3>1 DEF IInv, GamestateCarries
      <3>4. client.loaded = level => \A i \in Index :
               Executed(commanded', Executed(missed, client.strings))[i]
                  = configstrings'[i]
        BY <1>13, <2>2, <3>1 DEF IInv, ConfigstringsCurrent, Current
      <3>5. GamestateCarries'
        BY <1>4, <3>2, <3>3 DEF GamestateCarries, Current
      <3>6. ConfigstringsCurrent'
        BY <1>3, <1>4, <2>2, <3>2, <3>4 DEF ConfigstringsCurrent
      <3>. QED  BY <3>5, <3>6
    <2>. QED  BY <2>1, <2>2
  <1>. QED  BY <1>7, <1>8, <1>9, <1>10, <1>11, <1>12, <1>14 DEF IInv

\* A gamestate carries every configstring and clears the marks, so that the
\* invariant holds again of the client that will load it.
LEMMA GamestateInv ==
    ASSUME SessionAssumption, IInv, InUse, SV_SendClientGameState,
           NEW cs \in Seq(ClientCommand),
           client' = [loaded |-> client.loaded, strings |-> client.strings,
                      later |-> FALSE, commands |-> cs],
           verified' \in 0..MaxId
    PROVE  IInv'
  <1>. USE DEF SV_SendClientGameState, server
  <1>1. /\ CommandedType(commanded) /\ Below(commanded, serverId + 1)
        /\ CommandedType(missed) /\ Below(missed, serverId + 1)
    BY DEF IInv, ToldOK, Told
  <1>2. \A i \in DOMAIN commanded :
           commanded[i] \in IF i = "game" THEN Value ELSE 1..MaxId
    BY <1>1 DEF CommandedType
  <1>3. DOMAIN commanded \in SUBSET Index
    BY <1>1 DEF CommandedType
  <1>4. \A n : Below(missed, n) /\ Below(commanded, n) => Below(missed', n)
    BY <1>1 DEF Below, Tell, CommandedType, Index
  <1>5. /\ CommandedType(missed')
        /\ DOMAIN missed' = DOMAIN commanded \cup DOMAIN missed
    BY <1>1, <1>2, <1>3, TellType DEF Below
  <1>6. TypeOK'
    <2>1. /\ CommandedType(commanded') /\ CommandedType(missed')
          /\ pureAuthentic' = 0 /\ gotCP' = FALSE /\ state' = "primed"
          /\ message'.kind = "gamestate"
      BY <1>5, NothingTold
    <2>2. /\ client'.loaded = client.loaded
          /\ client'.strings = client.strings
      OBVIOUS
    <2>3. /\ csUpdated' = csUpdated /\ forced' = forced /\ pure' = pure
          /\ serverId' = serverId /\ level' = level
          /\ configstrings' = configstrings
      OBVIOUS
    <2>. HIDE DEF SV_SendClientGameState
    <2>4. gotCP' \in BOOLEAN
      BY <2>1, Zenon
    <2>5. (pureAuthentic \in {0, 1})'
      BY <2>1
    <2>6. pureAuthentic' # 1
      BY <2>1
    <2>7. (/\ pure \in BOOLEAN
    /\ serverId \in 1..MaxId
    /\ level \in 1..serverId
    /\ configstrings \in Strings
    /\ configstrings["systeminfo"] \in level..serverId
    /\ csUpdated \subseteq Index)'
      BY <2>3 DEF IInv, TypeOK
    <2>8. ( /\ state \in {"connected", "primed", "active", "zombie"}
      /\ message.kind \in {"none", "gamestate", "snapshot"}
     )'
      BY <2>1 DEF IInv, TypeOK
    <2>9. (/\ client.loaded \in 0..level
    /\ client.strings \in Strings
    /\ verified \in 0..MaxId
    /\ forced \in BOOLEAN)'
      BY <2>2, <2>3 DEF IInv, TypeOK
    <2>. QED  BY <2>1, <2>4, <2>5, <2>6, <2>7, <2>8, <2>9, Zenon DEF TypeOK
  <1>7. ToldOK'
    BY <1>1, <1>4, <1>5, NothingTold DEF ToldOK, Told
  <1>8. MessageOK'
    BY DEF IInv, MessageOK, TypeOK
  <1>9. ClientOK'
    BY DEF IInv, ClientOK, ClientCommand
  <1>10. GamestateCurrent' /\ CheckCurrent'
    BY DEF GamestateCurrent, CheckCurrent
  <1>11. OldLevel'
    BY <1>4, NothingTold DEF IInv, OldLevel, ClientId
  <1>12. GamestateCarries' /\ SnapshotCovered'
    BY DEF GamestateCarries, SnapshotCovered, Current, Executed, Tell
  <1>13. ConfigstringsCurrent'
    <2>. DEFINE mine == Executed(commanded, Executed(missed, client.strings))
    <2>1. Executed(commanded', Executed(missed', client'.strings)) = mine
      BY <1>1, ExecutedMissed
    <2>2. client.loaded = level => state \in {"primed", "active"}
      BY DEF IInv, TypeOK, GamestateCurrent, LevelSent, InUse
    <2>3. client.loaded = level => {i \in Index : mine[i] # configstrings[i]}
                                      \subseteq csUpdated
      BY <2>2 DEF IInv, ConfigstringsCurrent
    <2>. HIDE DEF mine
    <2>. QED  BY <2>1, <2>3 DEF ConfigstringsCurrent
  <1>. QED  BY <1>6, <1>7, <1>8, <1>9, <1>10, <1>11, <1>12, <1>13 DEF IInv

-----------------------------------------------------------------------------
(* The client's packets *)

\* The commands a packet does not hold yet are commands still to be executed.
LEMMA RestType ==
    ASSUME ClientOK, NEW k \in 0..Len(client.commands)
    PROVE  Rest(k) \in Seq(ClientCommand)
  <1>1. /\ client.commands \in Seq(ClientCommand)
        /\ Len(client.commands) \in Nat
    BY DEF ClientOK
  <1>2. \A i \in (k + 1)..Len(client.commands) :
           client.commands[i] \in ClientCommand
    BY <1>1
  <1>. QED  BY <1>1, <1>2, SubSeqProperties DEF Rest

\* A packet for another level that has the gamestate sent again keeps the
\* invariant.
LEMMA ResendInv ==
    ASSUME SessionAssumption, IInv, Resend
    PROVE  IInv'
  <1>1. /\ InUse /\ SV_SendClientGameState
        /\ client' = [loaded |-> client.loaded, strings |-> client.strings,
                      later |-> FALSE, commands |-> client.commands]
        /\ client.commands \in Seq(ClientCommand)
    BY DEF IInv, ClientOK, Resend
  <1>2. verified' \in 0..MaxId
    BY DEF IInv, TypeOK, Resend
  <1>. QED  BY <1>1, <1>2, GamestateInv

\* A move of an active client that has not sent its check, which has the
\* gamestate sent again, keeps the invariant.
LEMMA MoveUncheckedInv ==
    ASSUME SessionAssumption, IInv, NEW k \in 0..Len(client.commands),
           MoveUnchecked(k)
    PROVE  IInv'
  <1>1. /\ InUse /\ SV_SendClientGameState
        /\ client' = [loaded |-> client.loaded, strings |-> client.strings,
                      later |-> FALSE, commands |-> Rest(k)]
    BY DEF IInv, ClientOK, MoveUnchecked, InUse
  <1>2. Rest(k) \in Seq(ClientCommand)
    BY RestType DEF IInv
  <1>3. verified' \in 0..MaxId
    BY <1>1, CheckedSound DEF IInv, MoveUnchecked, SoundResult, Result
  <1>. QED  BY <1>1, <1>2, <1>3, GamestateInv

\* What a packet's commands leave of the check, of a client that stays where
\* it is or is dropped.
LEMMA PacketInv ==
    ASSUME SessionAssumption, IInv, InUse,
           NEW k \in 0..Len(client.commands),
           pureAuthentic' = Checked(k).authentic,
           gotCP' = Checked(k).gotCP,
           verified' = Checked(k).verified,
           client' = [client EXCEPT !.commands = Rest(k)],
           state' = IF Checked(k).dropped THEN "zombie" ELSE state,
           UNCHANGED <<server, told, message, forced>>
    PROVE  IInv'
  <1>. DEFINE c == Checked(k)
  <1>1. c \in SoundResult
    BY CheckedSound DEF IInv
  <1>2. /\ c.authentic \in {0, 1} /\ c.gotCP \in BOOLEAN
        /\ c.verified \in 0..MaxId /\ c.dropped \in BOOLEAN
        /\ c.authentic = 1 => c.gotCP /\ c.verified # 0
        /\ (pure /\ LevelSent /\ c.gotCP /\ ~c.dropped) => c.verified >= level
    BY <1>1 DEF SoundResult, Result
  <1>3. /\ client' = [loaded |-> client.loaded, strings |-> client.strings,
                      later |-> client.later, commands |-> Rest(k)]
        /\ Rest(k) \in Seq(ClientCommand)
    BY RestType DEF IInv, ClientOK
  <1>. HIDE DEF c
  <1>4. TypeOK'
    BY <1>2, <1>3 DEF IInv, TypeOK, server, told, c
  <1>5. ToldOK' /\ MessageOK' /\ ClientOK'
    BY <1>3 DEF IInv, ToldOK, Told, MessageOK, ClientOK, ClientCommand,
                server, told
  <1>6. GamestateCurrent' /\ OldLevel'
    BY <1>3 DEF IInv, GamestateCurrent, OldLevel, LevelSent, InUse, ClientId,
                server, told
  <1>7. CheckCurrent'
    BY <1>2, <1>3 DEF IInv, CheckCurrent, LevelSent, InUse, server, c
  <1>8. GamestateCarries' /\ SnapshotCovered' /\ ConfigstringsCurrent'
    BY <1>3 DEF IInv, GamestateCarries, Current, SnapshotCovered,
                ConfigstringsCurrent, InUse, server, told
  <1>. QED  BY <1>4, <1>5, <1>6, <1>7, <1>8 DEF IInv

\* A move that puts the client into the world keeps the invariant: the marked
\* configstrings are sent to it before it is active.
LEMMA UserMoveInv ==
    ASSUME SessionAssumption, IInv, NEW k \in 0..Len(client.commands),
           SV_UserMove(k)
    PROVE  IInv'
  <1>1. CASE state = "active"
    BY <1>1, PacketInv DEF SV_UserMove, InUse
  <1>2. CASE state = "primed"
    <2>. DEFINE c == Checked(k)
    <2>1. c \in SoundResult
      BY <1>2, CheckedSound DEF IInv, InUse
    <2>2. /\ c.authentic \in {0, 1} /\ c.gotCP \in BOOLEAN
          /\ c.verified \in 0..MaxId
          /\ c.authentic = 1 => c.gotCP /\ c.verified # 0
          /\ (pure /\ LevelSent /\ c.gotCP /\ ~c.dropped) => c.verified >= level
      BY <2>1 DEF SoundResult, Result
    <2>3. /\ client' = [loaded |-> client.loaded, strings |-> client.strings,
                        later |-> client.later, commands |-> Rest(k)]
          /\ Rest(k) \in Seq(ClientCommand)
      BY RestType DEF IInv, ClientOK, SV_UserMove
    <2>4. /\ state' = "active" /\ csUpdated' = {} /\ missed' = missed
          /\ commanded' = Tell(commanded, csUpdated, configstrings)
          /\ pureAuthentic' = c.authentic /\ gotCP' = c.gotCP
          /\ verified' = c.verified /\ ~c.dropped /\ ClientId = serverId
          /\ UNCHANGED <<server, message, forced>>
      BY <1>2 DEF SV_UserMove, SV_ClientEnterWorld
    <2>. HIDE DEF c
    <2>5. /\ csUpdated \in SUBSET Index
          /\ CommandedType(commanded) /\ Below(commanded, serverId + 1)
          /\ \A i \in csUpdated :
                configstrings[i] \in IF i = "game" THEN Value ELSE 1..MaxId
          /\ configstrings["systeminfo"] < serverId + 1
      BY StringsType, SessionAssumption DEF IInv, TypeOK, ToldOK, Told
    <2>6. /\ CommandedType(commanded') /\ Below(commanded', serverId + 1)
          /\ DOMAIN commanded' = csUpdated \cup DOMAIN commanded
      BY <2>4, <2>5, TellType
    <2>7. \A s : \A i \in Index : Executed(commanded', s)[i] =
             IF i \in csUpdated THEN configstrings[i] ELSE Executed(commanded, s)[i]
      BY <2>4, <2>5, ExecutedTell
    <2>8. TypeOK'
      BY <2>2, <2>3, <2>4, <2>6 DEF IInv, TypeOK, server
    <2>9. ToldOK' /\ MessageOK' /\ ClientOK'
      BY <2>3, <2>4, <2>6 DEF IInv, ToldOK, Told, MessageOK, ClientOK,
                              ClientCommand, server
    <2>10. GamestateCurrent'
      BY <1>2, <2>3, <2>4 DEF IInv, GamestateCurrent, LevelSent, InUse, server
    <2>11. OldLevel'
      <3>1. forced \/ client.loaded = level
        BY <1>2, <2>4 DEF IInv, OldLevel, InUse, TypeOK
      <3>. QED  BY <2>3, <2>4, <3>1 DEF OldLevel, server
    <2>12. CheckCurrent'
      BY <2>2, <2>3, <2>4 DEF CheckCurrent, LevelSent, server
    <2>13. SnapshotCovered'
      BY <2>4, <2>6 DEF IInv, SnapshotCovered
    <2>14. GamestateCarries' /\ ConfigstringsCurrent'
      BY <1>2, <2>3, <2>4, <2>7 DEF IInv, GamestateCarries, Current,
                                    ConfigstringsCurrent, server
    <2>. QED  BY <2>8, <2>9, <2>10, <2>11, <2>12, <2>13, <2>14 DEF IInv
  <1>. QED  BY <1>1, <1>2 DEF SV_UserMove

-----------------------------------------------------------------------------
(* The client's steps *)

\* A client that loads a gamestate keeps the invariant.
LEMMA ParseGamestateInv ==
    ASSUME SessionAssumption, IInv, NEW good \in BOOLEAN,
           CL_ParseGamestate(good)
    PROVE  IInv'
  <1>1. /\ message.level \in 1..level /\ message.strings \in Strings
        /\ message.strings["systeminfo"] \in 1..serverId
    BY SessionAssumption DEF IInv, TypeOK, MessageOK, CL_ParseGamestate, Strings
  <1>2. /\ client.commands \in Seq(ClientCommand)
        /\ Cp(message.strings["systeminfo"], good) \in ClientCommand
    BY <1>1 DEF IInv, ClientOK, ClientCommand
  <1>3. /\ client' = [loaded |-> message.level, strings |-> message.strings,
                      later |-> FALSE, commands |-> client'.commands]
        /\ client'.commands \in Seq(ClientCommand)
    BY <1>2, AppendProperties DEF CL_ParseGamestate
  <1>4. /\ message' = [kind |-> "none"] /\ missed' = <<>> /\ forced' = FALSE
        /\ UNCHANGED <<server, state, csUpdated, commanded, check, verified>>
        /\ message.kind = "gamestate"
    BY DEF CL_ParseGamestate, Nothing
  <1>5. TypeOK'
    <2>1. /\ CommandedType(missed)' /\ CommandedType(commanded)'
          /\ message'.kind \in {"none", "gamestate", "snapshot"}
          /\ forced' \in BOOLEAN
      BY <1>4, NothingTold DEF IInv, TypeOK
    <2>2. client'.loaded \in 0..level /\ client'.strings \in Strings
      BY <1>1, <1>3 DEF IInv, TypeOK
    <2>. QED  BY <1>4, <2>1, <2>2 DEF IInv, TypeOK, server, check
  <1>6. ToldOK' /\ MessageOK' /\ ClientOK'
    <2>1. ToldOK'
      BY <1>4, NothingTold DEF IInv, ToldOK, Told, server
    <2>2. MessageOK'
      BY <1>4 DEF MessageOK, Nothing
    <2>3. ClientOK'
      <3>1. /\ client'.strings = message.strings /\ client'.later = FALSE
            /\ serverId' = serverId
            /\ client' = [loaded |-> client'.loaded, strings |-> client'.strings,
                          later |-> client'.later, commands |-> client'.commands]
        BY <1>3, <1>4 DEF server
      <3>2. client'.strings["systeminfo"] <= serverId
        BY <1>1, <3>1 DEF IInv, TypeOK
      <3>3. client'.later \in BOOLEAN
        BY <3>1, Zenon
      <3>4. client'.commands \in Seq(ClientCommand')
        BY <1>3, <3>1 DEF ClientCommand
      <3>. QED  BY <3>1, <3>2, <3>3, <3>4 DEF ClientOK
    <2>. QED  BY <2>1, <2>2, <2>3
  <1>7. GamestateCurrent' /\ CheckCurrent' /\ OldLevel'
    BY <1>3, <1>4 DEF IInv, GamestateCurrent, CheckCurrent, OldLevel,
                      LevelSent, InUse, server, check
  <1>8. GamestateCarries' /\ SnapshotCovered'
    BY <1>4 DEF GamestateCarries, SnapshotCovered
  <1>9. ConfigstringsCurrent'
    <2>1. \A s \in Strings : Executed(<<>>, s) = s
      BY DEF Executed, Strings, Index
    <2>2. Executed(missed', client'.strings) = message.strings
      BY <1>1, <1>3, <1>4, <2>1
    <2>. QED  BY <1>3, <1>4, <2>2 DEF IInv, GamestateCarries, Current,
                                      ConfigstringsCurrent, server
  <1>. QED  BY <1>5, <1>6, <1>7, <1>8, <1>9 DEF IInv

\* A client that restarts its video, and sends its check again, keeps the
\* invariant.
LEMMA VidRestartInv ==
    ASSUME SessionAssumption, IInv, NEW good \in BOOLEAN,
           CL_Vid_Restart(good)
    PROVE  IInv'
  <1>. DEFINE again == <<Vdr, Cp(client.strings["systeminfo"], good)>>
  <1>1. client.strings["systeminfo"] \in 1..serverId
    BY SessionAssumption DEF IInv, TypeOK, ClientOK, Strings
  <1>2. /\ again \in Seq(ClientCommand)
        /\ client.commands \in Seq(ClientCommand)
    BY <1>1 DEF IInv, ClientOK, ClientCommand
  <1>. HIDE DEF again
  <1>3. client.commands \o again \in Seq(ClientCommand)
    BY <1>2, ConcatProperties
  <1>4. /\ client' = [loaded |-> client.loaded, strings |-> client.strings,
                      later |-> client.later, commands |-> client'.commands]
        /\ client'.commands \in Seq(ClientCommand)
    BY <1>3 DEF IInv, ClientOK, CL_Vid_Restart, again
  <1>5. UNCHANGED <<server, state, told, check, message, verified, forced>>
    BY DEF CL_Vid_Restart
  <1>6. TypeOK'
    BY <1>4, <1>5 DEF IInv, TypeOK, server, told, check
  <1>7. ToldOK' /\ MessageOK' /\ ClientOK'
    BY <1>4, <1>5 DEF IInv, ToldOK, Told, MessageOK, ClientOK, ClientCommand,
                      server, told
  <1>8. GamestateCurrent' /\ CheckCurrent' /\ OldLevel'
    BY <1>4, <1>5 DEF IInv, GamestateCurrent, CheckCurrent, OldLevel,
                      LevelSent, InUse, ClientId, server, told, check
  <1>9. GamestateCarries' /\ SnapshotCovered' /\ ConfigstringsCurrent'
    BY <1>4, <1>5 DEF IInv, GamestateCarries, Current, SnapshotCovered,
                      ConfigstringsCurrent, server, told
  <1>. QED  BY <1>6, <1>7, <1>8, <1>9 DEF IInv

\* A client that executes the server's commands keeps the invariant.
LEMMA ParseSnapshotInv ==
    ASSUME SessionAssumption, IInv, CL_ParseSnapshot
    PROVE  IInv'
  <1>. DEFINE once == Executed(message.commanded,
                               Executed(message.missed, client.strings))
              strings == IF client.loaded = 0 THEN client.strings ELSE once
  <1>1. /\ client.strings \in Strings
        /\ Told(message.commanded) /\ Told(message.missed)
        /\ message.kind = "snapshot"
    BY DEF IInv, TypeOK, MessageOK, CL_ParseSnapshot
  <1>2. /\ once \in Strings
        /\ \A n : /\ Below(message.commanded, n) /\ Below(message.missed, n)
                  /\ client.strings["systeminfo"] < n
                  => once["systeminfo"] < n
    <2>1. /\ Executed(message.missed, client.strings) \in Strings
          /\ Executed(message.missed, client.strings)["systeminfo"] =
                IF "systeminfo" \in DOMAIN message.missed
                THEN message.missed["systeminfo"] ELSE client.strings["systeminfo"]
      BY <1>1, ExecutedType DEF Told
    <2>2. /\ once \in Strings
          /\ once["systeminfo"] =
                IF "systeminfo" \in DOMAIN message.commanded
                THEN message.commanded["systeminfo"]
                ELSE Executed(message.missed, client.strings)["systeminfo"]
      BY <1>1, <2>1, ExecutedType DEF Told
    <2>. QED  BY <2>1, <2>2 DEF Below
  <1>3. /\ client' = [loaded |-> client.loaded, strings |-> strings,
                      later |-> TRUE, commands |-> client.commands]
        /\ message' = [kind |-> "none"]
        /\ UNCHANGED <<server, state, told, check, verified, forced>>
    BY DEF IInv, ClientOK, CL_ParseSnapshot, Nothing
  <1>4. /\ strings \in Strings
        /\ strings["systeminfo"] <= serverId
    BY <1>1, <1>2 DEF IInv, TypeOK, ClientOK, Told, Strings
  <1>5. client.loaded # 0 => strings = once
    OBVIOUS
  <1>. HIDE DEF once, strings
  <1>6. TypeOK'
    BY <1>3, <1>4 DEF IInv, TypeOK, server, told, check
  <1>7. ToldOK' /\ MessageOK' /\ ClientOK'
    BY <1>3, <1>4 DEF IInv, ToldOK, Told, MessageOK, ClientOK, ClientCommand,
                      Nothing, server, told
  <1>8. GamestateCurrent' /\ CheckCurrent'
    BY <1>3 DEF IInv, GamestateCurrent, CheckCurrent, LevelSent, InUse,
                server, told, check
  <1>9. OldLevel'
    BY <1>1, <1>2, <1>3, <1>5 DEF IInv, OldLevel, InUse, ClientId, server, told
  <1>10. GamestateCarries' /\ SnapshotCovered'
    BY <1>3 DEF GamestateCarries, SnapshotCovered
  <1>11. ConfigstringsCurrent'
    <2>1. Executed(commanded, Executed(missed, once))
             = Executed(commanded, Executed(missed, client.strings))
      BY <1>1, ExecutedTwice DEF IInv, SnapshotCovered, once
    <2>2. client.loaded = level => client'.strings = once
      BY <1>3, <1>5 DEF IInv, TypeOK
    <2>. QED  BY <1>3, <2>1, <2>2 DEF IInv, ConfigstringsCurrent, server, told
  <1>. QED  BY <1>6, <1>7, <1>8, <1>9, <1>10, <1>11 DEF IInv

-----------------------------------------------------------------------------
(* The theorems *)

\* A client that has just connected satisfies the invariant.
LEMMA InitInv ==
    ASSUME SessionAssumption, Init
    PROVE  IInv
  <1>1. PICK v \in Value :
           configstrings = [i \in Index |-> IF i = "systeminfo" THEN 1 ELSE v]
    BY DEF Init
  <1>2. configstrings \in Strings /\ configstrings["systeminfo"] = 1
    BY <1>1, SessionAssumption DEF Strings, Index
  <1>3. /\ serverId = 1 /\ level = 1 /\ pure \in BOOLEAN /\ state = "connected"
        /\ csUpdated = {} /\ pureAuthentic = 0 /\ gotCP = FALSE
        /\ commanded = <<>> /\ missed = <<>> /\ verified = 0 /\ forced = FALSE
        /\ message = [kind |-> "none"]
        /\ client = [loaded |-> 0, strings |-> configstrings, later |-> TRUE,
                     commands |-> <<>>]
    BY DEF Init, Nothing
  <1>4. TypeOK
    <2>1. CommandedType(commanded) /\ CommandedType(missed)
      BY <1>3, NothingTold
    <2>2. gotCP \in BOOLEAN /\ forced \in BOOLEAN
      BY <1>3, Zenon
    <2>3. /\ serverId \in 1..MaxId /\ level \in 1..serverId
          /\ configstrings["systeminfo"] \in level..serverId
          /\ verified \in 0..MaxId
      BY <1>2, <1>3, SessionAssumption
    <2>4. /\ message.kind \in {"none", "gamestate", "snapshot"}
          /\ client.loaded \in 0..level /\ client.strings \in Strings
      BY <1>2, <1>3
    <2>. QED  BY <1>2, <1>3, <2>1, <2>2, <2>3, <2>4 DEF TypeOK
  <1>5. ToldOK
    BY <1>3, NothingTold DEF ToldOK, Told
  <1>6. MessageOK
    BY <1>3 DEF MessageOK, Nothing
  <1>7. ClientOK
    BY <1>2, <1>3 DEF ClientOK
  <1>8. GamestateCurrent /\ CheckCurrent
    BY <1>3 DEF GamestateCurrent, CheckCurrent, LevelSent
  <1>9. OldLevel
    BY <1>3, NothingTold DEF OldLevel, ClientId
  <1>10. GamestateCarries /\ SnapshotCovered /\ ConfigstringsCurrent
    BY <1>3 DEF GamestateCarries, SnapshotCovered, ConfigstringsCurrent
  <1>. QED  BY <1>4, <1>5, <1>6, <1>7, <1>8, <1>9, <1>10 DEF IInv

\* A step that changes nothing keeps the invariant.
LEMMA StutterInv ==
    ASSUME IInv, UNCHANGED vars
    PROVE  IInv'
  BY DEF IInv, vars, server, check, told, TypeOK, ToldOK, Told, MessageOK,
         ClientOK, ClientCommand, GamestateCurrent, CheckCurrent, LevelSent,
         InUse, OldLevel, ClientId, GamestateCarries, Current,
         SnapshotCovered, ConfigstringsCurrent

\* Every step keeps the invariant; one case per action.
LEMMA NextInv ==
    ASSUME SessionAssumption, IInv, [Next]_vars
    PROVE  IInv'
  <1>1. CASE \E k \in 0..Len(client.commands) : SV_ClientCommand(k)
    <2>1. PICK k \in 0..Len(client.commands) : SV_ClientCommand(k)
      BY <1>1
    <2>. QED  BY <2>1, PacketInv DEF SV_ClientCommand
  <1>2. CASE SV_ExecuteClientMessage
    BY <1>1, <1>2, ResendInv, StutterInv, MoveUncheckedInv, UserMoveInv
       DEF SV_ExecuteClientMessage, Ignore
  <1>. QED  BY <1>2, SetConfigstringInv, SpawnServerInv, MapRestartInv,
               FrameInv, SendClientMessagesInv, ParseGamestateInv,
               VidRestartInv, ParseSnapshotInv, StutterInv DEF Next

\* The inductive invariant holds of every reachable state.
LEMMA InvariantHolds == Spec => []IInv
  <1>1. Init => IInv
    BY InitInv, SessionAssumption
  <1>2. IInv /\ [Next]_vars => IInv'
    BY NextInv, SessionAssumption
  <1>. QED  BY <1>1, <1>2, PTL DEF Spec

\* Every variable has its type, and a client that passed its check has sent
\* one (SV_VerifyPaks_f).
THEOREM TypeCorrect == Spec => []TypeOK
  <1>1. IInv => TypeOK
    BY DEF IInv
  <1>. QED  BY <1>1, InvariantHolds, PTL

\* A client in the world has the server's configstrings once it has executed
\* what it was sent, whatever was lost on the way (SV_SetConfigstring,
\* SV_SendClientGameState, SV_UpdateConfigstrings).
THEOREM ConfigstringsReachClient == Spec => []ConfigstringsCurrent
  <1>1. IInv => ConfigstringsCurrent
    BY DEF IInv
  <1>. QED  BY <1>1, InvariantHolds, PTL

\* Unless map_restart put it into the world, a client plays only the level it
\* has loaded, and on a pure server only checked (SV_UserMove).
THEOREM OnlyCheckedClientsPlay == Spec => PlaysChecked
  <1>1. ASSUME IInv, NEW k \in 0..Len(client.commands), SV_UserMove(k), ~forced
        PROVE  client.loaded = level /\ (pure => verified' >= level)
    <2>1. InUse /\ ClientId = serverId
      BY <1>1 DEF SV_UserMove, InUse
    <2>2. client.loaded = level
      BY <1>1, <2>1 DEF IInv, OldLevel, TypeOK
    <2>. DEFINE c == Checked(k)
    <2>3. c \in SoundResult
      BY <1>1, <2>1, CheckedSound DEF IInv
    <2>. HIDE DEF c
    <2>4. /\ c.authentic \in {0, 1} /\ c.gotCP \in BOOLEAN
          /\ c.authentic = 1 => c.gotCP
          /\ (pure /\ LevelSent /\ c.gotCP /\ ~c.dropped) => c.verified >= level
      BY <2>3 DEF SoundResult, Result
    <2>5. ~c.dropped /\ ~Unchecked(c) /\ verified' = c.verified
      BY <1>1 DEF SV_UserMove, c
    <2>6. pure => c.gotCP
      BY <2>4, <2>5 DEF Unchecked
    <2>. QED  BY <2>2, <2>4, <2>5, <2>6 DEF LevelSent
  <1>2. IInv /\ [Next]_vars =>
           [(\E k \in 0..Len(client.commands) : SV_UserMove(k))
             => \/ forced
                \/ /\ client.loaded = level
                   /\ pure => verified' >= level]_vars
    BY <1>1
  <1>. QED  BY <1>2, InvariantHolds, PTL DEF Spec, PlaysChecked
=============================================================================
