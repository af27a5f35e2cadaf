------------------------- MODULE ClientsProofs -------------------------
(***************************************************************************)
(* Proofs about Clients, for any number of players and slots, any demo and *)
(* any times.                                                              *)
(***************************************************************************)
EXTENDS Clients, FiniteSetTheorems, TLAPS

-----------------------------------------------------------------------------
(* The inductive invariant *)

\* A recorded player is never a zombie, nor in a slot that is free.
DemoClientConnected == \A i \in Slot : clients[i].demoClient => Connected(i)

\* The game has no client that is not connected, but those it refused.
GameConnected == \A i \in inGame \ ghosts : Connected(i)

\* The game has those that are connected, but those a demo found.
ConnectedInGame ==
    \A i \in Slot \ (kept \cup ghosts) : Connected(i) => i \in inGame

\* Of two slots of a player, a demo claimed one or brought it back.
NoSecondSlot ==
    \A i, j \in Slot \ kept :
        /\ Used(i) /\ Used(j)
        /\ clients[i].who = clients[j].who /\ clients[i].who \in Player
        => i = j

IInv ==
    /\ TypeOK
    /\ DemoClientConnected
    /\ GameConnected /\ ConnectedInGame
    /\ ReservedKept
    /\ NoSecondSlot

-----------------------------------------------------------------------------
(* Naturals *)

\* A set of naturals that is not empty has a least element: the intervals up
\* to its elements have one that no other is strictly included in.
LEMMA LeastNatural ==
    ASSUME NEW T, T \subseteq Nat, T # {}
    PROVE  \E x \in T : \A y \in T : x <= y
  <1>. DEFINE I == {0..x : x \in T}
  <1>1. I \subseteq FiniteSubsetsOf(Nat)
    <2>1. \A x \in T : IsFiniteSet(0..x) /\ 0..x \subseteq Nat
      BY FS_Interval
    <2>. QED  BY <2>1 DEF FiniteSubsetsOf
  <1>2. I # {}
    OBVIOUS
  <1>3. PICK s \in I : \A t \in I : <<t, s>> \notin StrictSubsetOrdering(Nat)
    <2>. HIDE DEF I
    <2>. QED  BY <1>1, <1>2, FS_StrictSubsetOrderingWellFounded, WFMin
  <1>4. PICK x \in T : s = 0..x
    BY <1>3
  <1>5. ASSUME NEW y \in T
        PROVE  x <= y
    <2>1. <<0..y, 0..x>> \notin StrictSubsetOrdering(Nat)
      BY <1>3, <1>4
    <2>2. ~(0..y \subseteq 0..x /\ 0..y # 0..x)
      BY <2>1 DEF StrictSubsetOrdering
    <2>3. y < x => 0..y \subseteq 0..x /\ x \in 0..x /\ x \notin 0..y
      OBVIOUS
    <2>4. y < x => 0..y # 0..x
      BY <2>3, Zenon
    <2>. QED  BY <2>2, <2>3, <2>4
  <1>. QED  BY <1>5

\* And one that is bounded has a greatest.
LEMMA GreatestNatural ==
    ASSUME NEW T, T \subseteq Nat, T # {}, NEW n \in Nat, \A x \in T : x <= n
    PROVE  \E x \in T : \A y \in T : x >= y
  <1>. DEFINE U == {n - x : x \in T}
  <1>1. U \subseteq Nat /\ U # {}
    <2>1. \A x \in T : n - x \in Nat
      OBVIOUS
    <2>. QED  BY <2>1
  <1>2. PICK u \in U : \A v \in U : u <= v
    <2>. HIDE DEF U
    <2>. QED  BY <1>1, LeastNatural
  <1>3. PICK x \in T : u = n - x
    BY <1>2
  <1>4. ASSUME NEW y \in T
        PROVE  x >= y
    <2>1. n - x <= n - y
      BY <1>2, <1>3
    <2>. QED  BY <2>1
  <1>. QED  BY <1>4

-----------------------------------------------------------------------------
(* Constants and operators *)

Client == [state : {"CS_FREE", "CS_ZOMBIE", "CS_CONNECTED"},
           who : Player \cup {Nobody, Loopback},
           silent : 0..LongSilent,
           connected : 0..sv_reconnectlimit,
           timeoutCount : 0..MaxTimeoutCount,
           demoClient : BOOLEAN]

\* The sum of the times a client is told of is a time.
LEMMA Times ==
    /\ sv_timeout \in Nat /\ sv_zombietime \in Nat /\ sv_reconnectlimit \in Nat
    /\ MaxTimeoutCount \in Nat /\ LongSilent \in Nat
  <1>1. /\ sv_timeout \in Nat /\ sv_zombietime \in Nat
        /\ sv_reconnectlimit \in Nat /\ MaxTimeoutCount \in Nat
    BY ClientsAssumption
  <1>. QED  BY <1>1 DEF LongSilent

\* The smaller of two numbers.
LEMMA MinOfTwo ==
    ASSUME NEW a \in Int, NEW b \in Int
    PROVE  Min({a, b}) = IF a <= b THEN a ELSE b
  BY DEF Min

\* The lowest of some slots is one of them, as the search loop of
\* SV_DirectConnect finds it.
LEMMA MinOfSlots ==
    ASSUME NEW T, T \subseteq Slot, T # {}
    PROVE  Min(T) \in T /\ \A i \in T : Min(T) <= i
  <1>1. T \subseteq Nat
    BY ClientsAssumption DEF Slot
  <1>. QED  BY <1>1, LeastNatural DEF Min

\* The demo's last slot is one of its slots.
LEMMA LastRecorded ==
    /\ Max(Recorded) \in Recorded
    /\ \A i \in Recorded : i <= Max(Recorded)
  <1>1. /\ Recorded \subseteq Nat /\ Recorded # {} /\ NumSlots \in Nat
        /\ \A i \in Recorded : i <= NumSlots
    BY ClientsAssumption
  <1>. QED  BY <1>1, GreatestNatural DEF Max

\* The highest recorded slot is a slot number.
LEMMA LastRecordedType == Max(Recorded) \in Nat
  <1>1. Recorded \subseteq Nat
    BY ClientsAssumption
  <1>2. Max(Recorded) \in Recorded
    BY LastRecorded
  <1>. QED  BY <1>1, <1>2, Zenon

\* The number of slots a demo reserves is a number.
LEMMA ReservedType == SV_DemoReservedClients \in Nat
  <1>1. Max(Recorded) + 1 \in Nat
    BY LastRecordedType
  <1>. QED  BY <1>1 DEF SV_DemoReservedClients

\* A slot offered to a new player is unused and behind the reserved ones; this
\* is where SV_DirectConnect starts its search.
LEMMA OwnAndOpen ==
    ASSUME NEW p, NEW password \in BOOLEAN
    PROVE  /\ Own(p) \subseteq Slot /\ Open(password) \subseteq Slot
           /\ \A i \in Open(password) : i >= SV_DemoReservedClients /\ ~Used(i)
  <1>. DEFINE start == Max({IF password THEN 0 ELSE sv_privateClients,
                            SV_DemoReservedClients})
  <1>1. \A a, b \in Int : Max({a, b}) \in Int /\ Max({a, b}) >= b
    BY DEF Max
  <1>2. (IF password THEN 0 ELSE sv_privateClients) \in Int
    BY ClientsAssumption
  <1>3. start \in Int /\ start >= SV_DemoReservedClients
    BY <1>1, <1>2, ReservedType
  <1>4. Open(password) = {i \in Slot : i >= start /\ ~Used(i)}
    BY DEF Open
  <1>5. Slot \subseteq Int
    BY DEF Slot
  <1>. HIDE DEF start
  <1>6. ASSUME NEW i \in Open(password)
        PROVE  i >= SV_DemoReservedClients /\ ~Used(i)
    <2>1. i \in Slot /\ i >= start /\ ~Used(i)
      BY <1>4, <1>6
    <2>2. i \in Int /\ SV_DemoReservedClients \in Nat
      BY <1>5, <2>1, ReservedType
    <2>. QED  BY <1>3, <2>1, <2>2
  <1>7. Own(p) \subseteq Slot /\ Open(password) \subseteq Slot
    BY <1>4 DEF Own
  <1>. QED  BY <1>6, <1>7

\* A frame that passes changes a client's ages and nothing else.
LEMMA OlderType ==
    ASSUME NEW c \in Client
    PROVE  /\ Older(c) \in Client
           /\ Older(c).state = c.state /\ Older(c).who = c.who
           /\ Older(c).demoClient = c.demoClient
  <1>1. /\ Min({c.silent + 1, LongSilent}) \in 0..LongSilent
        /\ Min({c.connected + 1, sv_reconnectlimit}) \in 0..sv_reconnectlimit
    BY MinOfTwo, Times DEF Client
  <1>. QED  BY <1>1 DEF Older, Client

\* A dropped client is a zombie that keeps its address and is no demo client.
LEMMA DroppedType ==
    ASSUME NEW c \in Client
    PROVE  /\ Dropped(c) \in Client /\ Dropped(c).state = "CS_ZOMBIE"
           /\ Dropped(c).who = c.who /\ ~Dropped(c).demoClient
  BY DEF Dropped, Client

\* A free slot belongs to nobody.
LEMMA FreeType ==
    /\ Free \in Client /\ Free.state = "CS_FREE" /\ ~Free.demoClient
  BY Times DEF Free, Client

\* A client that connects has its slot, its address and no demo flag.
LEMMA NewType ==
    ASSUME NEW p \in Player
    PROVE  LET c == [Free EXCEPT !.state = "CS_CONNECTED", !.who = p]
           IN  /\ c \in Client /\ c.state = "CS_CONNECTED" /\ c.who = p
               /\ ~c.demoClient
  <1>1. Free \in Client /\ ~Free.demoClient
    BY FreeType
  <1>. QED  BY <1>1 DEF Client

\* A packet resets a client's silence and changes nothing else.
LEMMA HeardType ==
    ASSUME NEW c \in Client
    PROVE  LET d == [c EXCEPT !.silent = 0]
           IN  /\ d \in Client /\ d.state = c.state /\ d.who = c.who
               /\ d.demoClient = c.demoClient
  BY Times DEF Client

-----------------------------------------------------------------------------
(* The steps *)

\* A client's step that changes nothing but its times.
LEMMA SameClientsInv ==
    ASSUME IInv, clients' \in [Slot -> Client],
           \A i \in Slot : /\ clients'[i].state = clients[i].state
                           /\ clients'[i].who = clients[i].who
                           /\ clients'[i].demoClient = clients[i].demoClient,
           channel' \in [Player -> Slot \cup {Nowhere}],
           UNCHANGED <<inGame, demo, ghosts>>
    PROVE  IInv'
  <1>1. TypeOK'
    BY DEF IInv, TypeOK, Client, demo
  <1>2. DemoClientConnected'
    BY DEF IInv, DemoClientConnected, Connected
  <1>3. GameConnected' /\ ConnectedInGame'
    BY DEF IInv, TypeOK, GameConnected, ConnectedInGame, Connected, demo
  <1>4. ReservedKept'
    BY DEF IInv, ReservedKept, Used, SV_DemoReservedClients, demo
  <1>5. NoSecondSlot'
    BY DEF IInv, NoSecondSlot, Used, demo
  <1>. QED  BY <1>1, <1>2, <1>3, <1>4, <1>5 DEF IInv

\* A connection, whether it is new, a reconnection or refused by the game,
\* keeps the invariant.
LEMMA DirectConnectInv ==
    ASSUME IInv, NEW p \in Player, NEW password \in BOOLEAN,
           SV_DirectConnect(p, password)
    PROVE  IInv'
  <1>. DEFINE i == IF Own(p) # {} THEN Min(Own(p)) ELSE Min(Open(password))
              new == [Free EXCEPT !.state = "CS_CONNECTED", !.who = p]
  <1>1. /\ i \in Slot /\ i >= SV_DemoReservedClients
        /\ \/ Used(i) /\ clients[i].who = p
           \/ Own(p) = {} /\ ~Used(i)
    <2>1. CASE Own(p) # {}
      <3>1. i \in Own(p)
        BY <2>1, OwnAndOpen, MinOfSlots
      <3>. QED  BY <3>1 DEF Own
    <2>2. CASE Own(p) = {}
      <3>1. i \in Open(password)
        BY <2>2, OwnAndOpen, MinOfSlots DEF SV_DirectConnect
      <3>. QED  BY <2>2, <3>1, OwnAndOpen
    <2>. QED  BY <2>1, <2>2
  <1>2. \/ /\ clients' = [clients EXCEPT ![i] = new]
           /\ inGame' = inGame \cup {i} /\ ghosts' = ghosts \ {i}
           /\ channel' \in {channel, [channel EXCEPT ![p] = i]}
           /\ UNCHANGED demo
        \/ /\ clients' = [clients EXCEPT ![i] = Free]
           /\ kept' = kept \ {i}
           /\ ghosts' = IF i \in inGame THEN ghosts \cup {i} ELSE ghosts
           /\ UNCHANGED <<inGame, demoState, channel>>
    BY DEF SV_DirectConnect
  <1>. HIDE DEF i
  <1>3. /\ clients \in [Slot -> Client] /\ inGame \subseteq Slot
        /\ channel \in [Player -> Slot \cup {Nowhere}]
    BY DEF IInv, TypeOK, Client
  <1>4. /\ new \in Client /\ new.state = "CS_CONNECTED" /\ new.who = p
        /\ ~new.demoClient
    BY NewType
  <1>. HIDE DEF new
  <1>5. CASE clients' = [clients EXCEPT ![i] = new] /\ UNCHANGED demo
    <2>1. /\ clients' \in [Slot -> Client]
          /\ \A j \in Slot : clients'[j] = IF j = i THEN new ELSE clients[j]
      BY <1>1, <1>3, <1>4, <1>5
    <2>2. /\ inGame' = inGame \cup {i} /\ ghosts' = ghosts \ {i}
          /\ channel' \in [Player -> Slot \cup {Nowhere}]
      BY <1>1, <1>2, <1>3, <1>4, <1>5, FreeType
    <2>3. TypeOK'
      BY <1>1, <1>3, <1>5, <2>1, <2>2 DEF IInv, TypeOK, Client, demo
    <2>4. DemoClientConnected' /\ GameConnected' /\ ConnectedInGame'
      BY <1>1, <1>3, <1>4, <1>5, <2>1, <2>2
         DEF IInv, DemoClientConnected, GameConnected, ConnectedInGame,
             Connected, demo
    <2>5. ReservedKept'
      BY <1>1, <1>5, <2>1, ReservedType, ClientsAssumption
         DEF IInv, ReservedKept, Used, SV_DemoReservedClients, demo, Slot
    <2>6. ASSUME NEW j \in Slot \ kept, j # i, Used(j), clients[j].who = p,
                 i \notin kept
          PROVE  FALSE
      <3>1. clients[j].who # Loopback
        BY <2>6, ClientsAssumption
      <3>2. ~(j < SV_DemoReservedClients)
        BY <2>6, <3>1 DEF IInv, ReservedKept
      <3>3. j \in Own(p)
        BY <2>6, <3>2, ReservedType, ClientsAssumption DEF Own, Slot
      <3>. QED  BY <1>1, <2>6, <3>3 DEF IInv, NoSecondSlot
    <2>7. NoSecondSlot'
      BY <1>4, <1>5, <2>1, <2>6 DEF IInv, NoSecondSlot, Used, demo
    <2>. QED  BY <2>3, <2>4, <2>5, <2>7 DEF IInv
  <1>6. CASE clients' = [clients EXCEPT ![i] = Free] /\ kept' = kept \ {i}
    <2>1. /\ clients' \in [Slot -> Client]
          /\ \A j \in Slot : clients'[j] = IF j = i THEN Free ELSE clients[j]
      BY <1>1, <1>3, <1>6, FreeType
    <2>2. /\ ghosts' = IF i \in inGame THEN ghosts \cup {i} ELSE ghosts
          /\ UNCHANGED <<inGame, demoState, channel>>
      BY <1>1, <1>2, <1>3, <1>4, <1>6, FreeType
    <2>3. TypeOK'
      BY <1>1, <1>3, <1>6, <2>1, <2>2 DEF IInv, TypeOK, Client
    <2>4. DemoClientConnected' /\ GameConnected' /\ ConnectedInGame'
      BY <1>1, <1>3, <1>6, <2>1, <2>2, FreeType
         DEF IInv, DemoClientConnected, GameConnected, ConnectedInGame, Connected
    <2>5. ReservedKept' /\ NoSecondSlot'
      BY <1>6, <2>1, <2>2, FreeType
         DEF IInv, ReservedKept, NoSecondSlot, Used, SV_DemoReservedClients
    <2>. QED  BY <2>3, <2>4, <2>5 DEF IInv
  <1>. QED  BY <1>2, <1>5, <1>6

\* One client is dropped, and the game is told.
LEMMA DropInv ==
    ASSUME IInv, NEW i \in Slot, NEW c \in Client, c.who = clients[i].who,
           Connected(i),
           clients' = [clients EXCEPT ![i] = Dropped(c)],
           inGame' = inGame \ {i},
           channel' \in [Player -> Slot \cup {Nowhere}],
           UNCHANGED <<demo, ghosts>>
    PROVE  IInv'
  <1>1. clients \in [Slot -> Client] /\ inGame \subseteq Slot
    BY DEF IInv, TypeOK, Client
  <1>2. /\ clients' \in [Slot -> Client]
        /\ \A j \in Slot \ {i} : clients'[j] = clients[j]
        /\ clients'[i].state = "CS_ZOMBIE" /\ clients'[i].who = clients[i].who
        /\ ~clients'[i].demoClient
    BY <1>1, DroppedType
  <1>3. \A j \in Slot : Used(j)' => Used(j) /\ clients'[j].who = clients[j].who
    BY <1>2 DEF Used, Connected
  <1>4. TypeOK'
    BY <1>2 DEF IInv, TypeOK, Client, demo
  <1>5. DemoClientConnected' /\ GameConnected' /\ ConnectedInGame'
    BY <1>1, <1>2 DEF IInv, DemoClientConnected, GameConnected,
                      ConnectedInGame, Connected, demo
  <1>6. ReservedKept' /\ NoSecondSlot'
    BY <1>3 DEF IInv, ReservedKept, NoSecondSlot, SV_DemoReservedClients, demo
  <1>. QED  BY <1>4, <1>5, <1>6 DEF IInv

\* A packet keeps the invariant.
LEMMA PacketEventInv ==
    ASSUME IInv, NEW p \in Player, SV_PacketEvent(p)
    PROVE  IInv'
  <1>1. clients \in [Slot -> Client] /\ channel \in [Player -> Slot \cup {Nowhere}]
    BY DEF IInv, TypeOK, Client
  <1>2. PICK i \in Slot : clients' = [clients EXCEPT ![i].silent = 0]
    BY DEF SV_PacketEvent, Reached
  <1>. QED  BY <1>1, <1>2, HeardType, SameClientsInv DEF SV_PacketEvent

\* A player's disconnect command keeps the invariant.
LEMMA DisconnectInv ==
    ASSUME IInv, NEW p \in Player, SV_Disconnect_f(p)
    PROVE  IInv'
  <1>1. /\ clients \in [Slot -> Client]
        /\ channel' \in [Player -> Slot \cup {Nowhere}]
    BY DEF IInv, TypeOK, Client, SV_Disconnect_f
  <1>2. PICK i \in Slot :
           /\ Connected(i)
           /\ clients' = [clients EXCEPT ![i] = Dropped([@ EXCEPT !.silent = 0])]
           /\ inGame' = inGame \ {i}
    BY DEF SV_Disconnect_f, Reached
  <1>. QED  BY <1>1, <1>2, HeardType, DropInv DEF SV_Disconnect_f

\* A player that leaves without a word keeps the invariant.
LEMMA LeaveInv ==
    ASSUME IInv, NEW p \in Player, Leave(p)
    PROVE  IInv'
  <1>1. /\ clients' \in [Slot -> Client]
        /\ channel' \in [Player -> Slot \cup {Nowhere}]
    BY DEF IInv, TypeOK, Client, Leave
  <1>. QED  BY <1>1, SameClientsInv DEF Leave

\* A kick, and a drop for any other reason, keeps the invariant.
LEMMA KickInv ==
    ASSUME IInv, NEW i \in Slot, SV_Kick_f(i) \/ SV_DropClient(i)
    PROVE  IInv'
  <1>1. clients \in [Slot -> Client] /\ channel \in [Player -> Slot \cup {Nowhere}]
    BY DEF IInv, TypeOK, Client
  <1>. QED  BY <1>1, HeardType, DropInv DEF SV_Kick_f, SV_DropClient

-----------------------------------------------------------------------------
(* The frame *)

\* SV_CheckTimeouts counts up a silent client; only a connected one is ever
\* dropped for it.
LEMMA CountedType ==
    ASSUME NEW c \in Client
    PROVE  /\ ~TimedOut(TimeoutCount(c)) => TimeoutCount(c) \in Client
           /\ TimedOut(TimeoutCount(c)) => c.state = "CS_CONNECTED"
           /\ TimeoutCount(c).state = c.state /\ TimeoutCount(c).who = c.who
           /\ TimeoutCount(c).demoClient = c.demoClient
  <1>1. CASE c.state = "CS_CONNECTED" /\ c.silent > sv_timeout
    BY <1>1, Times DEF TimeoutCount, TimedOut, Client
  <1>2. CASE ~(c.state = "CS_CONNECTED" /\ c.silent > sv_timeout)
    BY <1>2, Times DEF TimeoutCount, TimedOut, Client
  <1>. QED  BY <1>1, <1>2

\* A recorded player that appears in a replay is a connected demo client.
LEMMA AppearedType ==
    ASSUME NEW c \in Client
    PROVE  LET d == [c EXCEPT !.state = "CS_CONNECTED", !.who = Loopback,
                              !.demoClient = TRUE, !.silent = 0]
           IN  /\ d \in Client /\ d.state = "CS_CONNECTED" /\ d.who = Loopback
               /\ d.demoClient
  <1>. DEFINE e == [c EXCEPT !.state = "CS_CONNECTED", !.who = Loopback]
              d == [c EXCEPT !.state = "CS_CONNECTED", !.who = Loopback,
                             !.demoClient = TRUE, !.silent = 0]
  <1>1. e \in Client /\ e.state = "CS_CONNECTED" /\ e.who = Loopback
    BY DEF Client
  <1>2. d = [[e EXCEPT !.demoClient = TRUE] EXCEPT !.silent = 0]
    OBVIOUS
  <1>. HIDE DEF e
  <1>3. LET f == [e EXCEPT !.demoClient = TRUE]
        IN  f \in Client /\ f.state = e.state /\ f.who = e.who /\ f.demoClient
    BY <1>1 DEF Client
  <1>. QED  BY <1>1, <1>2, <1>3, HeardType

\* The replay of a frame changes the clients that appear in it and no others.
LEMMA ReplayedType ==
    ASSUME NEW cs \in [Slot -> Client], NEW appear \in SUBSET Recorded,
           NEW i \in Slot
    PROVE  LET c == Replayed(cs, appear)[i]
           IN  /\ c \in Client
               /\ i \in appear => /\ c.state = "CS_CONNECTED" /\ c.who = Loopback
                                  /\ c.demoClient
               /\ i \notin appear => /\ c.state = cs[i].state
                                     /\ c.who = cs[i].who
                                     /\ c.demoClient = cs[i].demoClient
  <1>1. cs[i] \in Client
    OBVIOUS
  <1>2. CASE i \in appear
    <2>1. Replayed(cs, appear)[i] =
             [cs[i] EXCEPT !.state = "CS_CONNECTED", !.who = Loopback,
                           !.demoClient = TRUE, !.silent = 0]
      BY <1>2 DEF Replayed
    <2>. QED  BY <1>1, <1>2, <2>1, AppearedType
  <1>3. CASE i \notin appear
    <2>1. \/ Replayed(cs, appear)[i] = [cs[i] EXCEPT !.silent = 0]
          \/ Replayed(cs, appear)[i] = cs[i]
      BY <1>3 DEF Replayed
    <2>. QED  BY <1>1, <1>3, <2>1, HeardType
  <1>. QED  BY <1>2, <1>3

\* The end of a frame, of clients with which the invariant holds.
LEMMA CheckTimeoutsInv ==
    ASSUME IInv, NEW cs \in [Slot -> Client], NEW game \in SUBSET Slot,
           \A i \in Slot : cs[i].demoClient => cs[i].state = "CS_CONNECTED",
           \A i \in game \ ghosts : cs[i].state = "CS_CONNECTED",
           \A i \in Slot \ (kept \cup ghosts) :
              cs[i].state = "CS_CONNECTED" => i \in game,
           \A i \in Slot :
              \/ cs[i].who = Loopback
              \/ /\ cs[i].state # "CS_FREE" => Used(i)
                 /\ cs[i].who = clients[i].who,
           SV_CheckTimeouts(cs, game),
           UNCHANGED <<demoState, channel, ghosts>>
    PROVE  IInv'
  <1>. DEFINE counted == [i \in Slot |-> TimeoutCount(cs[i])]
              out == {i \in Slot : TimedOut(counted[i])}
              freed == out \cup {i \in Slot : ZombieExpired(cs[i])}
  <1>1. /\ clients' = [i \in Slot |-> IF i \in freed THEN Free ELSE counted[i]]
        /\ inGame' = game \ out /\ kept' = kept \ freed
    BY DEF SV_CheckTimeouts
  <1>2. \A i \in Slot :
           /\ i \notin out => counted[i] \in Client
           /\ i \in out => cs[i].state = "CS_CONNECTED"
           /\ counted[i].state = cs[i].state /\ counted[i].who = cs[i].who
           /\ counted[i].demoClient = cs[i].demoClient
    BY CountedType
  <1>3. \A i \in freed \ out : cs[i].state = "CS_ZOMBIE"
    BY DEF ZombieExpired
  <1>4. out \subseteq freed /\ freed \subseteq Slot
    OBVIOUS
  <1>. HIDE DEF counted, out, freed
  <1>5. /\ clients' \in [Slot -> Client]
        /\ \A i \in Slot : clients'[i] = IF i \in freed THEN Free ELSE counted[i]
    BY <1>1, <1>2, <1>4, FreeType
  <1>6. \A i \in Slot :
           /\ i \in freed => /\ clients'[i].state = "CS_FREE"
                             /\ ~clients'[i].demoClient
           /\ i \notin freed => /\ clients'[i].state = cs[i].state
                                /\ clients'[i].who = cs[i].who
                                /\ clients'[i].demoClient = cs[i].demoClient
    BY <1>2, <1>5, FreeType
  <1>7. TypeOK'
    BY <1>1, <1>5 DEF IInv, TypeOK, Client
  <1>8. DemoClientConnected'
    BY <1>6 DEF DemoClientConnected, Connected
  <1>9. GameConnected' /\ ConnectedInGame'
    BY <1>1, <1>3, <1>4, <1>6 DEF GameConnected, ConnectedInGame, Connected
  <1>10. ReservedKept'
    BY <1>1, <1>6 DEF IInv, ReservedKept, Used, SV_DemoReservedClients
  <1>11. NoSecondSlot'
    BY <1>1, <1>6, ClientsAssumption DEF IInv, NoSecondSlot, Used
  <1>. QED  BY <1>7, <1>8, <1>9, <1>10, <1>11 DEF IInv

\* A frame of the server, with its replayed clients and its timeouts, keeps the
\* invariant.
LEMMA FrameInv ==
    ASSUME IInv, SV_Frame
    PROVE  IInv'
  <1>. DEFINE old == [i \in Slot |-> Older(clients[i])]
  <1>1. clients \in [Slot -> Client] /\ inGame \subseteq Slot
    BY DEF IInv, TypeOK, Client
  <1>2. /\ old \in [Slot -> Client]
        /\ \A i \in Slot : /\ old[i].state = clients[i].state
                           /\ old[i].who = clients[i].who
                           /\ old[i].demoClient = clients[i].demoClient
    BY <1>1, OlderType
  <1>3. /\ \/ \E appear \in SUBSET Recorded :
                 SV_CheckTimeouts(Replayed(old, appear),
                                  inGame \cup {i \in appear : ~Connected(i)})
           \/ SV_CheckTimeouts(old, inGame)
        /\ UNCHANGED <<demoState, channel, ghosts>>
    BY DEF SV_Frame
  <1>. HIDE DEF old
  <1>4. CASE SV_CheckTimeouts(old, inGame)
    <2>1. /\ \A i \in Slot : old[i].demoClient => old[i].state = "CS_CONNECTED"
          /\ \A i \in inGame \ ghosts : old[i].state = "CS_CONNECTED"
          /\ \A i \in Slot \ (kept \cup ghosts) :
                old[i].state = "CS_CONNECTED" => i \in inGame
      BY <1>1, <1>2 DEF IInv, DemoClientConnected, GameConnected,
                        ConnectedInGame, Connected
    <2>. QED  BY <1>1, <1>2, <1>3, <1>4, <2>1, CheckTimeoutsInv DEF Used
  <1>5. ASSUME NEW appear \in SUBSET Recorded,
               SV_CheckTimeouts(Replayed(old, appear),
                                inGame \cup {i \in appear : ~Connected(i)})
        PROVE  IInv'
    <2>. DEFINE cs == Replayed(old, appear)
                game == inGame \cup {i \in appear : ~Connected(i)}
    <2>1. appear \subseteq Slot
      BY ClientsAssumption DEF Slot
    <2>2. \A i \in Slot :
             /\ cs[i] \in Client
             /\ i \in appear => /\ cs[i].state = "CS_CONNECTED"
                                /\ cs[i].who = Loopback /\ cs[i].demoClient
             /\ i \notin appear => /\ cs[i].state = clients[i].state
                                   /\ cs[i].who = clients[i].who
                                   /\ cs[i].demoClient = clients[i].demoClient
      BY <1>2, ReplayedType
    <2>3. cs \in [Slot -> Client]
      <3>1. cs = [i \in Slot |-> cs[i]]
        BY DEF Replayed
      <3>. HIDE DEF cs
      <3>. QED  BY <2>2, <3>1
    <2>4. game \in SUBSET Slot
      BY <1>1, <2>1
    <2>. HIDE DEF cs
    <2>5. /\ \A i \in Slot : cs[i].demoClient => cs[i].state = "CS_CONNECTED"
          /\ \A i \in game \ ghosts : cs[i].state = "CS_CONNECTED"
          /\ \A i \in Slot \ (kept \cup ghosts) :
                cs[i].state = "CS_CONNECTED" => i \in game
      BY <1>1, <2>1, <2>2 DEF IInv, DemoClientConnected, GameConnected,
                              ConnectedInGame, Connected
    <2>6. SV_CheckTimeouts(cs, game)
      BY <1>5 DEF cs
    <2>. HIDE DEF game
    <2>. QED  BY <1>3, <2>2, <2>3, <2>4, <2>5, <2>6, CheckTimeoutsInv DEF Used
  <1>. QED  BY <1>3, <1>4, <1>5

-----------------------------------------------------------------------------
(* Maps and demos *)

\* A map change keeps the invariant: it reconnects the clients to the new game,
\* or drops those the game refuses.
LEMMA SpawnServerInv ==
    ASSUME IInv, SV_SpawnServer
    PROVE  IInv'
  <1>1. PICK denied \in SUBSET {i \in Slot : Connected(i)} :
           \/ /\ demoState = "pending"
              /\ StartPlayback(Reconnected(denied),
                               {i \in Slot : Connected(i)} \ denied)
           \/ /\ clients' = Reconnected(denied)
              /\ inGame' = {i \in Slot : Connected(i)} \ denied
              /\ demoState' = "DS_NONE"
              /\ UNCHANGED kept
    BY DEF SV_SpawnServer
  <1>. DEFINE cs == Reconnected(denied)
              game == {i \in Slot : Connected(i)} \ denied
  <1>2. clients \in [Slot -> Client] /\ denied \subseteq Slot
    BY DEF IInv, TypeOK, Client
  <1>3. \A i \in Slot :
           /\ cs[i] \in Client
           /\ i \in denied => cs[i].state = "CS_ZOMBIE" /\ ~cs[i].demoClient
           /\ i \notin denied => cs[i] = clients[i]
           /\ cs[i].state # "CS_FREE" <=> Used(i)
           /\ cs[i].who = clients[i].who
           /\ cs[i].state = "CS_CONNECTED" <=> i \in game
           /\ cs[i].demoClient => cs[i].state = "CS_CONNECTED"
    <2>1. \A i \in Slot : cs[i] = IF i \in denied THEN Dropped(clients[i])
                                 ELSE clients[i]
      BY DEF Reconnected
    <2>. HIDE DEF cs
    <2>. QED  BY <1>2, <2>1, DroppedType
                 DEF IInv, DemoClientConnected, Connected, Used
  <1>4. cs \in [Slot -> Client]
    <2>1. cs = [i \in Slot |-> cs[i]]
      BY DEF Reconnected
    <2>. HIDE DEF cs
    <2>. QED  BY <1>3, <2>1
  <1>5. game \in SUBSET Slot /\ ghosts' = {} /\ channel' = channel
    BY DEF SV_SpawnServer
  <1>6. \/ demoState = "pending" /\ StartPlayback(cs, game)
        \/ /\ clients' = cs /\ inGame' = game /\ demoState' = "DS_NONE"
           /\ kept' = kept
    BY <1>1
  <1>. HIDE DEF cs, game
  <1>7. CASE /\ clients' = cs /\ inGame' = game /\ demoState' = "DS_NONE"
             /\ kept' = kept
    <2>1. TypeOK'
      BY <1>4, <1>5, <1>7 DEF IInv, TypeOK, Client
    <2>2. DemoClientConnected' /\ GameConnected' /\ ConnectedInGame'
      BY <1>3, <1>5, <1>7 DEF DemoClientConnected, GameConnected,
                              ConnectedInGame, Connected
    <2>3. ReservedKept'
      BY <1>7 DEF ReservedKept, SV_DemoReservedClients, Slot
    <2>4. NoSecondSlot'
      BY <1>3, <1>7 DEF IInv, NoSecondSlot, Used
    <2>. QED  BY <2>1, <2>2, <2>3, <2>4 DEF IInv
  <1>8. CASE demoState = "pending" /\ StartPlayback(cs, game)
    <2>. DEFINE dropped == {i \in Slot : /\ i < SV_DemoReservedClients
                                        /\ cs[i].state # "CS_FREE"
                                        /\ ~cs[i].demoClient}
    <2>1. /\ clients' = [i \in Slot |->
                            IF cs[i].state = "CS_FREE" \/ cs[i].demoClient THEN cs[i]
                            ELSE [cs[i] EXCEPT !.state = "CS_CONNECTED"]]
          /\ inGame' = game \ {i \in dropped : cs[i].state = "CS_CONNECTED"}
          /\ demoState' = "DS_PLAYBACK"
          /\ kept' = kept \cup dropped \cup {i \in Slot : cs[i].state = "CS_ZOMBIE"}
      BY <1>8 DEF StartPlayback
    <2>2. dropped \subseteq Slot
      OBVIOUS
    <2>3. \A i \in dropped : ~cs[i].demoClient /\ cs[i].state # "CS_FREE"
      OBVIOUS
    <2>. HIDE DEF dropped
    <2>4. \A i \in Slot :
             /\ clients'[i] \in Client
             /\ clients'[i].who = clients[i].who
             /\ clients'[i].demoClient = cs[i].demoClient
             /\ clients'[i].state =
                   IF cs[i].state = "CS_FREE" \/ cs[i].demoClient THEN cs[i].state
                   ELSE "CS_CONNECTED"
      BY <1>3, <2>1 DEF Client
    <2>5. clients' \in [Slot -> Client]
      BY <2>1, <2>4
    <2>6. \A i \in Slot : cs[i].state \in {"CS_FREE", "CS_ZOMBIE", "CS_CONNECTED"}
      BY <1>3 DEF Client
    <2>7. TypeOK'
      BY <1>5, <2>1, <2>2, <2>5 DEF IInv, TypeOK, Client
    <2>8. DemoClientConnected' /\ GameConnected'
      BY <1>3, <1>5, <2>1, <2>3, <2>4 DEF DemoClientConnected, GameConnected,
                                          Connected
    <2>9. ConnectedInGame'
      BY <1>3, <1>5, <2>1, <2>3, <2>4, <2>6 DEF ConnectedInGame, Connected
    <2>10. ReservedKept'
      <3>1. SV_DemoReservedClients' = SV_DemoReservedClients
        BY <1>8, <2>1 DEF SV_DemoReservedClients
      <3>. QED  BY <1>3, <2>1, <2>4, <3>1 DEF IInv, ReservedKept, Used
    <2>11. NoSecondSlot'
      BY <1>3, <2>1, <2>4 DEF IInv, NoSecondSlot, Used
    <2>. QED  BY <2>7, <2>8, <2>9, <2>10, <2>11 DEF IInv
  <1>. QED  BY <1>6, <1>7, <1>8

\* The start of a replay, which claims the reserved slots, keeps the invariant.
LEMMA DemoPlayStartInv ==
    ASSUME IInv, SV_DemoPlayStart
    PROVE  IInv'
  <1>1. /\ kept \subseteq kept' /\ kept' \subseteq Slot
        /\ channel' \in [Player -> Slot \cup {Nowhere}]
        /\ demoState' = "pending" /\ UNCHANGED <<clients, inGame, ghosts>>
    BY DEF IInv, TypeOK, SV_DemoPlayStart
  <1>2. TypeOK'
    BY <1>1 DEF IInv, TypeOK
  <1>3. DemoClientConnected' /\ GameConnected' /\ ConnectedInGame'
    BY <1>1 DEF IInv, DemoClientConnected, GameConnected, ConnectedInGame,
                Connected
  <1>4. ReservedKept'
    <2>1. SV_DemoReservedClients' = Max(Recorded) + 1
      BY <1>1 DEF SV_DemoReservedClients
    <2>2. \A i \in Slot : i < Max(Recorded) + 1 => i <= Max(Recorded)
      BY LastRecordedType DEF Slot
    <2>3. \A i \in Slot : Used(i) /\ i <= Max(Recorded) => i \in kept'
      BY DEF SV_DemoPlayStart
    <2>. QED  BY <1>1, <2>1, <2>2, <2>3 DEF ReservedKept, Used
  <1>5. NoSecondSlot'
    BY <1>1 DEF IInv, NoSecondSlot, Used
  <1>. QED  BY <1>2, <1>3, <1>4, <1>5 DEF IInv

\* The end of a replay, which drops the recorded players, keeps the invariant.
LEMMA DemoStopPlaybackInv ==
    ASSUME IInv, SV_DemoStopPlayback
    PROVE  IInv'
  <1>1. /\ demoState' = "DS_NONE" /\ UNCHANGED <<channel, kept, ghosts>>
        /\ clients' = [i \in Slot |-> IF clients[i].demoClient
                                     THEN Dropped(clients[i]) ELSE clients[i]]
        /\ inGame' = inGame \ {i \in Slot : clients[i].demoClient}
    BY DEF SV_DemoStopPlayback
  <1>2. clients \in [Slot -> Client] /\ inGame \subseteq Slot
    BY DEF IInv, TypeOK, Client
  <1>3. \A i \in Slot :
           /\ clients'[i] \in Client /\ clients'[i].who = clients[i].who
           /\ ~clients'[i].demoClient
           /\ clients'[i].state = IF clients[i].demoClient THEN "CS_ZOMBIE"
                                  ELSE clients[i].state
    BY <1>1, <1>2, DroppedType
  <1>4. clients' \in [Slot -> Client]
    BY <1>1, <1>3
  <1>5. TypeOK'
    BY <1>1, <1>4 DEF IInv, TypeOK, Client
  <1>6. DemoClientConnected' /\ GameConnected' /\ ConnectedInGame'
    BY <1>1, <1>2, <1>3 DEF IInv, DemoClientConnected, GameConnected,
                            ConnectedInGame, Connected
  <1>7. ReservedKept'
    BY <1>1 DEF ReservedKept, SV_DemoReservedClients, Slot
  <1>8. NoSecondSlot'
    BY <1>1, <1>3 DEF IInv, NoSecondSlot, Used, DemoClientConnected, Connected
  <1>. QED  BY <1>5, <1>6, <1>7, <1>8 DEF IInv

-----------------------------------------------------------------------------
(* The theorems *)

\* A server without clients satisfies the invariant.
LEMMA InitInv ==
    ASSUME Init
    PROVE  IInv
  <1>1. \A i \in Slot : /\ clients[i] \in Client /\ ~clients[i].demoClient
                        /\ clients[i].state = "CS_FREE"
    BY FreeType DEF Init
  <1>2. clients \in [Slot -> Client]
    BY FreeType DEF Init
  <1>3. TypeOK
    BY <1>2 DEF Init, TypeOK, Client
  <1>4. DemoClientConnected /\ GameConnected /\ ConnectedInGame
    BY <1>1 DEF Init, DemoClientConnected, GameConnected, ConnectedInGame,
                Connected
  <1>5. ReservedKept /\ NoSecondSlot
    BY <1>1 DEF ReservedKept, NoSecondSlot, Used
  <1>. QED  BY <1>3, <1>4, <1>5 DEF IInv

\* The inductive invariant holds of every reachable state.
LEMMA InvariantHolds == Spec => []IInv
  <1>1. IInv /\ UNCHANGED vars => IInv'
    BY DEF IInv, vars, demo, TypeOK, DemoClientConnected, GameConnected,
           ConnectedInGame, ReservedKept, NoSecondSlot, Connected, Used,
           SV_DemoReservedClients
  <1>2. IInv /\ [Next]_vars => IInv'
    BY <1>1, DirectConnectInv, PacketEventInv, DisconnectInv, LeaveInv,
       KickInv, FrameInv, SpawnServerInv, DemoPlayStartInv,
       DemoStopPlaybackInv DEF Next
  <1>. QED  BY <1>2, InitInv, PTL DEF Spec

\* Every variable has its type; no client that is counted out stays
\* (SV_CheckTimeouts).
THEOREM TypeCorrect == Spec => []TypeOK
  <1>1. IInv => TypeOK
    BY DEF IInv
  <1>. QED  BY <1>1, InvariantHolds, PTL

\* The slots of a demo are for its players (SV_DemoReservedClients,
\* SV_DirectConnect).
THEOREM DemoSlotsReserved == Spec => []ReservedKept
  <1>1. IInv => ReservedKept
    BY DEF IInv
  <1>. QED  BY <1>1, InvariantHolds, PTL

\* The game knows who is connected, through drops, changes of map and replays
\* (SV_DropClient, SV_SpawnServer, SV_DemoReadClientConfigString).
THEOREM GameKnowsConnected == Spec => []GameAgrees
  <1>1. IInv => GameAgrees
    BY DEF IInv, TypeOK, GameConnected, ConnectedInGame, GameAgrees
  <1>. QED  BY <1>1, InvariantHolds, PTL

\* A player that connects again gets its slot again, whatever happened since
\* (SV_DirectConnect).
THEOREM PlayersHaveOneSlot == Spec => []OneSlot
  <1>1. ASSUME IInv, NEW p \in Player
        PROVE  Cardinality({i \in Slot \ kept : Used(i) /\ clients[i].who = p})
                  <= 1
    <2>. DEFINE mine == {i \in Slot \ kept : Used(i) /\ clients[i].who = p}
    <2>1. CASE mine = {}
      BY <2>1, FS_EmptySet
    <2>2. CASE mine # {}
      <3>1. PICK i \in mine : TRUE
        BY <2>2
      <3>2. mine = {i}
        BY <1>1, <3>1 DEF IInv, NoSecondSlot
      <3>3. Cardinality({i}) = 1
        BY FS_Singleton
      <3>. QED  BY <3>2, <3>3
    <2>. QED  BY <2>1, <2>2
  <1>2. IInv => OneSlot
    BY <1>1 DEF OneSlot
  <1>. QED  BY <1>2, InvariantHolds, PTL
=============================================================================
